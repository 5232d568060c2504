----------------------------- MODULE SyncProofs -----------------------------
(***************************************************************************)
(* What TLAPS proves of synchronization, for every number of threads and   *)
(* of objects, from the invariants of PthreadProofs.                       *)
(*                                                                         *)
(* Mutual exclusion of the guest's mutexes and the exactness of the        *)
(* waiting count are proved for guests without condition variables: with   *)
(* them the scheduler may relock a mutex for the wrong thread (the         *)
(* cond_relock run).  With them it is proved that the emulator reports a   *)
(* deadlock only when there is one, that no waiter of a condition variable *)
(* is forgotten or listed twice, and that a blocked thread is made ready   *)
(* only by what it waited for.                                             *)
(***************************************************************************)
EXTENDS PthreadProofs, SequenceLemmas

----------------------------------------------------------------------------
(* Mutexes without condition variables *)

\* A step that changes neither the mutexes nor who waits for them.
Quiet ==
    /\ UNCHANGED <<mutexes, mutex_count, holds, handles>>
    /\ \/ UNCHANGED <<scan, phase, nthreads>>
       \/ scan.relock = NoMutex /\ scan'.relock = NoMutex
    /\ \A t \in Threads :
         \/ blocked_by'[t] = blocked_by[t]
         \/ /\ blocked_by[t].by # "Mutex"
            /\ blocked_by'[t].by \notin {"Mutex", "Condition"}

\* A quiet step preserves the lock invariant.
LEMMA LockSame ==
    ASSUME TypeOK, LockInv, Quiet
    PROVE  LockInv'
<1> USE DEF Quiet
<1>1. \A m \in MutexId : m # NoMutex
  BY DEF MutexId, NoMutex
<1>2. \A t \in Threads, m \in MutexId :
        blocked_by'[t] = BlockedOn("Mutex", m) <=> blocked_by[t] = BlockedOn("Mutex", m)
  BY DEF BlockedOn
<1>3. \A t \in Threads, m \in MutexId : Waits(t, m)' <=> Waits(t, m)
  BY <1>1, <1>2 DEF Waits
<1>4. QED
  BY <1>3 DEF LockInv

\* A guest thread that may call the library has no mutex to relock pending
\* and is not blocked.
LEMMA RunningFree ==
    ASSUME TypeOK, SchedInv, LockInv, Running
    PROVE  /\ current_thread \in Threads
           /\ scan.relock = NoMutex
           /\ blocked_by[current_thread] = NotBlocked
           /\ \A m \in MutexId : ~Waits(current_thread, m)
<1>1. /\ current_thread \in Threads /\ scan.relock = NoMutex
      /\ blocked_by[current_thread] = NotBlocked
  BY DEF TypeOK, Running, LockInv, SchedInv, RunsOnlyUnblocked
<1>2. \A m \in MutexId : m # NoMutex
  BY DEF MutexId, NoMutex
<1>3. QED
  BY <1>1, <1>2 DEF Waits, NotBlocked, BlockedOn

\* The steps of the scan other than those that end in a relock change neither
\* mutexes nor the waiters.
LEMMA QuietScan ==
    ASSUME TypeOK, SchedInv, LockInv, UNCHANGED guestVars,
           \/ ScanSkip \/ ScanNotBlocked \/ ScanSleeping
           \/ ScanSemaphore \/ ScanSemaphoreGone \/ ScanJoining
           \/ ScanDeferredReturn \/ ScanStillDeferred
           \/ ScanRelockPanics \/ ScanHostSleep \/ ScanDeadlock
    PROVE  Quiet
<1>1. candidate \in Threads /\ ScanStart.relock = NoMutex
  BY CandidateType DEF ScanStart
<1>2. UNCHANGED <<mutexes, mutex_count, holds, handles>>
  BY DEF guestVars, objectVars, Panic, ScanSkip, ScanNotBlocked, ScanSleeping,
     ScanSemaphore, ScanSemaphoreGone, ScanJoining, ScanDeferredReturn,
     ScanStillDeferred, ScanRelockPanics, ScanHostSleep, ScanDeadlock
<1>3. scan.k < nthreads => scan.relock = NoMutex
  BY DEF LockInv, TypeOK, Scan
<1>4. \A i \in Threads :
        blocked_by' = [blocked_by EXCEPT ![i] = NotBlocked]
        => \A t \in Threads : \/ blocked_by'[t] = blocked_by[t]
                              \/ t = i /\ blocked_by'[t].by = "NotBlocked"
  BY DEF TypeOK, NotBlocked
<1>5. CASE ScanSkip \/ ScanStillDeferred
  <2>1. scan.relock = NoMutex /\ scan'.relock = NoMutex
    BY <1>3, <1>5 DEF ScanSkip, ScanStillDeferred, Scanning, NextCandidate, TypeOK, Scan
  <2>2. UNCHANGED blocked_by
    BY <1>5 DEF ScanSkip, ScanStillDeferred
  <2>3. QED
    BY <1>2, <2>1, <2>2 DEF Quiet
<1>6. CASE ScanNotBlocked \/ ScanSleeping \/ ScanSemaphore \/ ScanJoining
  <2> USE DEF ScanNotBlocked, ScanSleeping, ScanSemaphore, ScanJoining, Scanning,
              PickAndBreak, NextCandidate
  <2>1. scan.relock = NoMutex
    BY <1>3, <1>6
  <2>2. scan'.relock = NoMutex
    BY <1>6, <2>1 DEF TypeOK, Scan, sleeper_noted
  <2>3. /\ blocked_by[candidate].by # "Mutex"
        /\ \/ UNCHANGED blocked_by
           \/ blocked_by' = [blocked_by EXCEPT ![candidate] = NotBlocked]
    BY <1>6
  <2>4. \A t \in Threads :
          \/ blocked_by'[t] = blocked_by[t]
          \/ /\ blocked_by[t].by # "Mutex"
             /\ blocked_by'[t].by \notin {"Mutex", "Condition"}
    BY <1>1, <1>4, <2>3
  <2>5. QED
    BY <1>2, <2>1, <2>2, <2>4 DEF Quiet
<1>7. CASE ScanDeferredReturn
  <2>1. scan.relock = NoMutex /\ scan'.relock = NoMutex
    BY <1>1, <1>3, <1>7 DEF ScanDeferredReturn, Scanning
  <2>2. /\ blocked_by[candidate].by # "Mutex"
        /\ blocked_by' = [blocked_by EXCEPT ![candidate] = NotBlocked]
    BY <1>7 DEF ScanDeferredReturn
  <2>3. QED
    BY <1>1, <1>2, <1>4, <2>1, <2>2 DEF Quiet
<1>8. CASE ScanHostSleep
  <2>1. scan.relock = NoMutex /\ scan'.relock = NoMutex
    BY <1>1, <1>8 DEF ScanHostSleep, ScanDone, LockInv
  <2>2. QED
    BY <1>2, <1>8, <2>1 DEF Quiet, ScanHostSleep
<1>9. CASE ScanSemaphoreGone \/ ScanRelockPanics \/ ScanDeadlock
  BY <1>2, <1>9 DEF Quiet, ScanSemaphoreGone, ScanRelockPanics, ScanDeadlock, Panic
<1>10. QED
  BY <1>5, <1>6, <1>7, <1>8, <1>9

\* Waking a waiter of a free mutex: it still waits, now for the relock.
LEMMA LockScanMutex ==
    ASSUME TypeInv, SchedInv, LockInv, UNCHANGED guestVars, ScanMutex
    PROVE  LockInv'
<1> DEFINE m == blocked_by[candidate].on
<1>1. /\ candidate \in Threads /\ TypeOK
      /\ blocked_by[candidate] \in ThreadBlock /\ BlockedOnKnown(blocked_by[candidate])
  BY CandidateType DEF TypeInv, TypeOK
<1>2. m \in MutexId /\ blocked_by[candidate] = BlockedOn("Mutex", m)
  BY <1>1 DEF ScanMutex, BlockedOnKnown, ThreadBlock, BlockedOn
<1>3. scan.relock = NoMutex
  BY <1>1 DEF LockInv, TypeOK, Scan, ScanMutex, Scanning
<1>4. UNCHANGED <<mutexes, mutex_count, holds, handles, phase, nthreads>>
  BY DEF ScanMutex, guestVars, objectVars, threadVars
<1>5. CASE ~mutex_wakes(m)
  <2>1. UNCHANGED blocked_by /\ scan'.relock = NoMutex
    BY <1>1, <1>3, <1>5 DEF ScanMutex, NextCandidate, TypeOK, Scan
  <2>2. QED
    BY <1>1, <1>3, <1>4, <2>1, LockSame DEF Quiet
<1>6. CASE mutex_wakes(m)
  <2>1. mutexes[m].owner = NoThread
    BY <1>2, <1>6 DEF mutex_wakes, mutex_is_locked, TypeInv, HeldIsCounted
  <2>2. /\ blocked_by' = [blocked_by EXCEPT ![candidate] = NotBlocked]
        /\ scan'.pick = candidate /\ scan'.relock = m /\ scan'.k = nthreads
    BY <1>1, <1>6 DEF ScanMutex, TypeOK, Scan
  <2>3. candidate # NoThread /\ \A n \in MutexId : n # NoMutex
    BY <1>1 DEF Threads, NoThread, MutexId, NoMutex
  <2>4. \A t \in Threads, n \in MutexId :
          blocked_by'[t] = BlockedOn("Mutex", n) <=>
            t # candidate /\ blocked_by[t] = BlockedOn("Mutex", n)
    BY <1>1, <2>2 DEF TypeOK, NotBlocked, BlockedOn
  <2>5. \A n \in MutexId : blocked_by[candidate] = BlockedOn("Mutex", n) <=> n = m
    BY <1>2 DEF BlockedOn
  <2>6. \A t \in Threads, n \in MutexId : Waits(t, n)' <=> Waits(t, n)
    BY <1>3, <2>2, <2>3, <2>4, <2>5 DEF Waits
  <2>7. \A t \in Threads : blocked_by'[t].by # "Condition"
    BY <1>1, <2>2 DEF LockInv, TypeOK, NotBlocked
  <2>8. phase = "scan"
    BY DEF ScanMutex, Scanning
  <2>9. QED
    BY <1>4, <2>1, <2>2, <2>3, <2>6, <2>7, <2>8 DEF LockInv
<1>7. QED
  BY <1>5, <1>6
\* Relocking a free mutex makes the chosen thread its owner and subtracts one
\* waiter; no other mutex changes.
LEMMA RelockEffect ==
    ASSUME NEW M \in [MutexId -> Mutex], NEW m \in MutexId, NEW t \in Threads,
           lock_outcome(M, m, t) = "acquires"
    PROVE  /\ relock_unblocked_mutex(M, m, t)[m].owner = t
           /\ relock_unblocked_mutex(M, m, t)[m].count = 1
           /\ relock_unblocked_mutex(M, m, t)[m].live = M[m].live
           /\ relock_unblocked_mutex(M, m, t)[m].waiting_count =
                IF M[m].waiting_count > 0 THEN M[m].waiting_count - 1 ELSE 0
           /\ \A n \in MutexId : n # m => relock_unblocked_mutex(M, m, t)[n] = M[n]
<1> DEFINE L == [M EXCEPT ![m].owner = t, ![m].count = 1]
<1>1. lock_mutex(M, m, t) = L
  BY DEF lock_mutex
<1>2. /\ L[m].owner = t /\ L[m].count = 1 /\ L[m].waiting_count = M[m].waiting_count
      /\ L[m].live = M[m].live
      /\ \A n \in MutexId : n # m => L[n] = M[n]
  BY DEF Mutex
<1>3. L \in [MutexId -> Mutex]
  BY DEF Mutex
<1>4. M[m].waiting_count \in Nat
  BY DEF Mutex
<1> HIDE DEF L
<1>5. relock_unblocked_mutex(M, m, t) =
        IF L[m].waiting_count > 0 THEN [L EXCEPT ![m].waiting_count = @ - 1] ELSE L
  BY <1>1 DEF relock_unblocked_mutex
<1>6. CASE L[m].waiting_count > 0
  <2>1. relock_unblocked_mutex(M, m, t) = [L EXCEPT ![m].waiting_count = @ - 1]
    BY <1>5, <1>6
  <2>2. QED
    BY <1>2, <1>3, <1>4, <1>6, <2>1 DEF Mutex
<1>7. CASE ~(L[m].waiting_count > 0)
  BY <1>2, <1>4, <1>5, <1>7
<1>8. QED
  BY <1>6, <1>7

\* The end of a scan: the chosen thread becomes the owner of its mutex.
LEMMA LockScanSwitch ==
    ASSUME TypeInv, SchedInv, LockInv, UNCHANGED guestVars, ScanSwitch
    PROVE  LockInv'
<1> DEFINE m == scan.relock
           t == scan.pick
<1>1. /\ TypeOK /\ t \in Threads /\ mutexes \in [MutexId -> Mutex]
      /\ ScanStart.relock = NoMutex /\ scan' = ScanStart
      /\ UNCHANGED <<blocked_by, mutex_count, holds, handles>>
  BY DEF TypeInv, TypeOK, Scan, ScanSwitch, ScanStart, guestVars
<1>2. \A n \in MutexId : n # NoMutex
  BY DEF MutexId, NoMutex
<1>3. CASE m = NoMutex
  <2>1. UNCHANGED mutexes
    BY <1>3 DEF ScanSwitch, relock
  <2>2. QED
    BY <1>1, <1>3, <2>1, LockSame DEF Quiet
<1>4. CASE m # NoMutex
  <2>1. /\ m \in MutexId /\ mutexes[m].owner = NoThread
        /\ lock_outcome(mutexes, m, t) = "acquires"
        /\ mutexes' = relock_unblocked_mutex(mutexes, m, t)
    BY <1>1, <1>4 DEF TypeOK, Scan, LockInv, ScanSwitch, relock
  <2>2. /\ mutexes'[m].owner = t /\ mutexes'[m].count = 1
        /\ \A n \in MutexId : n # m => mutexes'[n] = mutexes[n]
    BY <1>1, <2>1, RelockEffect
  <2>3. \A u \in Threads, n \in MutexId :
          Waits(u, n)' <=> blocked_by[u] = BlockedOn("Mutex", n)
    BY <1>1, <1>2 DEF Waits
  <2>4. \A u \in Threads, n \in MutexId :
          Waits(u, n) <=> blocked_by[u] = BlockedOn("Mutex", n) \/ (u = t /\ n = m)
    BY DEF Waits
  <2>5. blocked_by[t] # BlockedOn("Mutex", m)
    <3>1. blocked_by[t] = NotBlocked
      BY <1>1 DEF ScanSwitch, ScanDone, SchedInv, PickIsRunnable
    <3>2. QED
      BY <3>1 DEF NotBlocked, BlockedOn
  <2>6. t # NoThread /\ holds[t][m] = 1
    <3>1. t # NoThread
      BY <1>1 DEF Threads, NoThread
    <3>2. QED
      BY <1>1, <2>1, <2>4, <3>1 DEF LockInv
  <2>7. \A u \in Threads, n \in MutexId :
          /\ mutexes'[n].owner = u => holds[u][n] = mutexes'[n].count /\ ~Waits(u, n)'
          /\ mutexes'[n].owner # u => holds[u][n] = IF Waits(u, n)' THEN 1 ELSE 0
    <3> SUFFICES ASSUME NEW u \in Threads, NEW n \in MutexId
                 PROVE  /\ mutexes'[n].owner = u =>
                             holds[u][n] = mutexes'[n].count /\ ~Waits(u, n)'
                        /\ mutexes'[n].owner # u =>
                             holds[u][n] = IF Waits(u, n)' THEN 1 ELSE 0
      OBVIOUS
    <3>1. CASE n # m
      BY <2>2, <2>3, <2>4, <3>1 DEF LockInv
    <3>2. CASE n = m /\ u = t
      BY <2>2, <2>3, <2>5, <2>6, <3>2
    <3>3. CASE n = m /\ u # t
      <4>1. mutexes[n].owner # u
        BY <2>1, <3>3 DEF Threads, NoThread
      <4>2. Waits(u, n)' <=> Waits(u, n)
        BY <2>3, <2>4, <3>3
      <4>3. QED
        BY <2>2, <3>3, <4>1, <4>2 DEF LockInv
    <3>4. QED
      BY <3>1, <3>2, <3>3
  <2>8. \A n \in MutexId : n >= mutex_count =>
          mutexes'[n].owner = NoThread /\ \A u \in Threads : ~Waits(u, n)'
    <3>1. ~(m >= mutex_count)
      BY <1>1, <2>1, <2>4 DEF LockInv
    <3>2. QED
      BY <2>2, <2>3, <2>4, <3>1 DEF LockInv
  <2>9. QED
    BY <1>1, <2>7, <2>8 DEF LockInv
<1>5. QED
  BY <1>3, <1>4

\* Host functions and guest steps that are not library calls do not touch the
\* mutexes.
LEMMA QuietHostGuestStep ==
    ASSUME TypeOK, SchedInv, LockInv, UNCHANGED guestVars, HostStep \/ GuestStep
    PROVE  Quiet
<1> USE DEF HostStep, GuestStep, HostCallsGuest, HostSleeps, HostReturns, Preempt,
            ThreadExit, MainThreadExit, TailSleep, GuestCall, ReturnToHost,
            DeferReturn, Running, Panic, BlockCurrent, Yield, guestVars, objectVars
<1>1. UNCHANGED <<mutexes, mutex_count, holds, handles>>
  OBVIOUS
<1>2. phase # "scan" /\ scan.relock = NoMutex
  <2>1. phase # "scan"
    OBVIOUS
  <2>2. QED
    BY <2>1 DEF LockInv
<1>3. scan'.relock = NoMutex
  <2>1. scan' = scan \/ scan' = ScanStart
    OBVIOUS
  <2>2. QED
    BY <1>2, <2>1 DEF ScanStart
<1>4. \A t \in Threads :
        \/ blocked_by'[t] = blocked_by[t]
        \/ /\ blocked_by[t].by # "Mutex"
           /\ blocked_by'[t].by \notin {"Mutex", "Condition"}
  <2>1. /\ blocked_by[current_thread] = NotBlocked /\ current_thread \in Threads
        /\ blocked_by \in [Threads -> ThreadBlock]
    <3>1. phase \in {"guest", "host"}
      BY <1>2 DEF TypeOK
    <3>2. QED
      BY <3>1 DEF SchedInv, RunsOnlyUnblocked, TypeOK
  <2>2. \/ UNCHANGED blocked_by
        \/ blocked_by' = [blocked_by EXCEPT ![current_thread] = BlockedOn("Sleeping", 0)]
        \/ blocked_by' = [blocked_by EXCEPT ![current_thread] =
                                                BlockedOn("DeferredReturn", 0)]
    OBVIOUS
  <2>3. QED
    BY <2>1, <2>2 DEF NotBlocked, BlockedOn
<1>5. QED
  BY <1>1, <1>2, <1>3, <1>4 DEF Quiet

\* Library calls other than those on mutexes do not touch the mutexes.
LEMMA QuietCall ==
    ASSUME TypeOK, SchedInv, LockInv,
           \/ \E s \in Sems : \/ sem_init(s) \/ sem_destroy(s) \/ sem_post(s)
                              \/ sem_wait(s) \/ sem_misuse(s)
           \/ pthread_create \/ pthread_join_main
           \/ \E u \in Threads : pthread_join(u)
    PROVE  Quiet
<1> USE DEF sem_init, sem_destroy, sem_post, sem_wait, sem_misuse, pthread_create,
            pthread_join_main, pthread_join, Panic, BlockCurrent, Continue, Yield,
            schedVars, guestVars, objectVars
<1>1. UNCHANGED <<mutexes, mutex_count, holds, handles>> /\ Running
  OBVIOUS
<1>2. /\ scan.relock = NoMutex /\ blocked_by[current_thread] = NotBlocked
      /\ current_thread \in Threads /\ blocked_by \in [Threads -> ThreadBlock]
  BY <1>1, RunningFree DEF TypeOK
<1>3. scan'.relock = NoMutex
  <2>1. scan' = scan \/ scan' = ScanStart
    OBVIOUS
  <2>2. QED
    BY <1>2, <2>1 DEF ScanStart
<1>4. \A t \in Threads :
        \/ blocked_by'[t] = blocked_by[t]
        \/ /\ blocked_by[t].by # "Mutex"
           /\ blocked_by'[t].by \notin {"Mutex", "Condition"}
  <2>1. \/ UNCHANGED blocked_by
        \/ \E s \in Sems : blocked_by' =
             [blocked_by EXCEPT ![current_thread] = BlockedOn("Semaphore", s)]
        \/ \E u \in Threads : blocked_by' =
             [blocked_by EXCEPT ![current_thread] = BlockedOn("Joining", u)]
    OBVIOUS
  <2>2. QED
    BY <1>2, <2>1 DEF NotBlocked, BlockedOn
<1>5. QED
  BY <1>1, <1>2, <1>3, <1>4 DEF Quiet
\* The first two parts of LockInv, for a table M with the ids below n in use
Agrees(M, n) ==
    /\ \A t \in Threads, m \in MutexId :
         /\ M[m].owner = t => holds[t][m] = M[m].count /\ ~Waits(t, m)
         /\ M[m].owner # t => holds[t][m] = IF Waits(t, m) THEN 1 ELSE 0
    /\ \A m \in MutexId : m >= n =>
         M[m].owner = NoThread /\ \A t \in Threads : ~Waits(t, m)

\* A new mutex is free and nobody waits for it.
LEMMA AgreesInit ==
    ASSUME TypeInv, LockInv, mutex_count < MaxMutexes, NEW type \in MutexType
    PROVE  Agrees(init_mutex(mutexes, mutex_count, type), mutex_count + 1)
<1> DEFINE M == init_mutex(mutexes, mutex_count, type)
<1>1. /\ mutex_count \in MutexId /\ mutexes \in [MutexId -> Mutex]
      /\ mutexes[mutex_count].owner = NoThread
      /\ mutexes[mutex_count].count = 0
  <2>1. mutex_count \in MutexId /\ mutexes \in [MutexId -> Mutex]
    BY BoundsAssumption DEF TypeInv, TypeOK, MutexId
  <2>2. mutexes[mutex_count].owner = NoThread
    BY <2>1 DEF LockInv, MutexId
  <2>3. mutexes[mutex_count] \in Mutex
    BY <2>1
  <2>4. QED
    BY <2>1, <2>2, <2>3 DEF TypeInv, HeldIsCounted, Mutex
<1>2. /\ \A m \in MutexId : m # mutex_count => M[m] = mutexes[m]
      /\ M[mutex_count].owner = NoThread /\ M[mutex_count].count = 0
  BY <1>1 DEF init_mutex, Absent
<1>3. \A m \in MutexId : m >= mutex_count + 1 => m >= mutex_count
  BY <1>1 DEF MutexId
<1>4. \A m \in MutexId : M[m].owner = mutexes[m].owner
  BY <1>1, <1>2
<1>5. \A m \in MutexId : M[m].count = mutexes[m].count
  BY <1>1, <1>2
<1> HIDE DEF M
<1>6. \A t \in Threads, m \in MutexId :
        /\ M[m].owner = t => holds[t][m] = M[m].count /\ ~Waits(t, m)
        /\ M[m].owner # t => holds[t][m] = IF Waits(t, m) THEN 1 ELSE 0
  BY <1>4, <1>5 DEF LockInv
<1>7. \A m \in MutexId : m >= mutex_count + 1 =>
        M[m].owner = NoThread /\ \A t \in Threads : ~Waits(t, m)
  BY <1>3, <1>4 DEF LockInv
<1>8. QED
  BY <1>6, <1>7 DEF Agrees, M

\* check_or_register_mutex keeps the agreement.
LEMMA AgreesRegistered ==
    ASSUME TypeInv, LockInv, NEW h \in Handles, accepted(h)
    PROVE  /\ Agrees(TableFor(h), CountFor(h))
           /\ MutexOf(h) \in MutexId /\ MutexOf(h) < CountFor(h)
           /\ mutex_count <= CountFor(h) /\ CountFor(h) \in Nat
<1>1. mutex_count \in Nat
  BY DEF TypeInv, TypeOK
<1>2. CASE handles[h].magic = "static"
  <2>1. "NORMAL" \in MutexType
    BY DEF MutexType
  <2>2. Agrees(TableFor(h), CountFor(h))
    BY <1>2, <2>1, AgreesInit DEF accepted, TableFor, CountFor
  <2>3. MutexOf(h) \in MutexId
    BY RegisteredType
  <2>4. MutexOf(h) = mutex_count /\ CountFor(h) = mutex_count + 1
    BY <1>2 DEF MutexOf, CountFor
  <2>5. QED
    BY <1>1, <2>2, <2>3, <2>4
<1>3. CASE handles[h].magic # "static"
  <2>1. Agrees(TableFor(h), CountFor(h))
    BY <1>3 DEF TableFor, CountFor, LockInv, Agrees
  <2>2. handles[h].id < mutex_count
    BY <1>3 DEF accepted, LockInv
  <2>3. MutexOf(h) \in MutexId
    BY RegisteredType
  <2>4. MutexOf(h) = handles[h].id /\ CountFor(h) = mutex_count
    BY <1>3 DEF MutexOf, CountFor
  <2>5. QED
    BY <1>1, <2>1, <2>2, <2>3, <2>4
<1>4. QED
  BY <1>2, <1>3

\* What a lock call does to the table.
LEMMA LockEffect ==
    ASSUME NEW M \in [MutexId -> Mutex], NEW m \in MutexId, NEW t \in Threads,
           lock_outcome(M, m, t) \in {"acquires", "recurses", "blocks"}
    PROVE  /\ \A n \in MutexId : n # m => lock_mutex(M, m, t)[n] = M[n]
           /\ lock_mutex(M, m, t)[m].live = M[m].live /\ M[m].live
           /\ lock_outcome(M, m, t) = "acquires" =>
                /\ M[m].owner = NoThread
                /\ lock_mutex(M, m, t)[m].owner = t
                /\ lock_mutex(M, m, t)[m].count = 1
                /\ lock_mutex(M, m, t)[m].waiting_count = M[m].waiting_count
           /\ lock_outcome(M, m, t) = "recurses" =>
                /\ M[m].owner = t
                /\ lock_mutex(M, m, t)[m].owner = t
                /\ lock_mutex(M, m, t)[m].count = M[m].count + 1
                /\ lock_mutex(M, m, t)[m].waiting_count = M[m].waiting_count
           /\ lock_outcome(M, m, t) = "blocks" =>
                /\ M[m].owner # t
                /\ lock_mutex(M, m, t)[m].owner = M[m].owner
                /\ lock_mutex(M, m, t)[m].count = M[m].count
                /\ lock_mutex(M, m, t)[m].waiting_count = M[m].waiting_count + 1
<1>1. M[m] \in Mutex /\ M[m].type \in MutexType
  BY DEF Mutex
<1>2. self_lock_outcome(M[m].type) \in {"panics", "EDEADLK", "recurses"}
  BY <1>1 DEF self_lock_outcome, MutexType
<1>3. CASE lock_outcome(M, m, t) = "acquires"
  <2>1. lock_mutex(M, m, t) = [M EXCEPT ![m].owner = t, ![m].count = 1]
    BY <1>3 DEF lock_mutex
  <2>2. M[m].live /\ M[m].owner = NoThread
    BY <1>2, <1>3 DEF lock_outcome
  <2> DEFINE L == [M EXCEPT ![m].owner = t, ![m].count = 1]
  <2>3. /\ L[m].owner = t /\ L[m].count = 1 /\ L[m].live = M[m].live
        /\ L[m].waiting_count = M[m].waiting_count
        /\ \A n \in MutexId : n # m => L[n] = M[n]
    BY <1>1 DEF Mutex
  <2> HIDE DEF L
  <2>4. lock_mutex(M, m, t) = L
    BY <2>1 DEF L
  <2>5. QED
    BY <1>3, <2>2, <2>3, <2>4
<1>4. CASE lock_outcome(M, m, t) = "recurses"
  <2>1. lock_mutex(M, m, t) = [M EXCEPT ![m].count = @ + 1]
    BY <1>4 DEF lock_mutex
  <2>2. M[m].live /\ M[m].owner = t
    BY <1>4 DEF lock_outcome
  <2> DEFINE L == [M EXCEPT ![m].count = @ + 1]
  <2>3. /\ L[m].owner = M[m].owner /\ L[m].count = M[m].count + 1 /\ L[m].live = M[m].live
        /\ L[m].waiting_count = M[m].waiting_count
        /\ \A n \in MutexId : n # m => L[n] = M[n]
    BY <1>1 DEF Mutex
  <2> HIDE DEF L
  <2>4. lock_mutex(M, m, t) = L
    BY <2>1 DEF L
  <2>5. QED
    BY <1>4, <2>2, <2>3, <2>4
<1>5. CASE lock_outcome(M, m, t) = "blocks"
  <2>1. lock_mutex(M, m, t) = [M EXCEPT ![m].waiting_count = @ + 1]
    BY <1>5 DEF lock_mutex
  <2>2. M[m].live /\ M[m].owner # t
    BY <1>2, <1>5 DEF lock_outcome
  <2> DEFINE L == [M EXCEPT ![m].waiting_count = @ + 1]
  <2>3. /\ L[m].owner = M[m].owner /\ L[m].count = M[m].count /\ L[m].live = M[m].live
        /\ L[m].waiting_count = M[m].waiting_count + 1
        /\ \A n \in MutexId : n # m => L[n] = M[n]
    BY <1>1 DEF Mutex
  <2> HIDE DEF L
  <2>4. lock_mutex(M, m, t) = L
    BY <2>1 DEF L
  <2>5. QED
    BY <1>5, <2>2, <2>3, <2>4
<1>6. QED
  BY <1>3, <1>4, <1>5

\* A lock or trylock call that returns 0, now or later
LEMMA LockLockCall ==
    ASSUME TypeInv, SchedInv, LockInv, NEW h \in Handles,
           pthread_mutex_lock(h) \/ pthread_mutex_trylock(h)
    PROVE  LockInv'
<1> DEFINE m == MutexOf(h)
           t == current_thread
           M == TableFor(h)
           outcome == lock_outcome(M, m, t)
<1> USE DEF pthread_mutex_lock, pthread_mutex_trylock
<1>1. /\ TypeOK /\ Running /\ check_or_register_mutex(h)
  BY DEF TypeInv
<1>2. /\ t \in Threads /\ scan.relock = NoMutex
      /\ blocked_by[t] = NotBlocked /\ \A n \in MutexId : ~Waits(t, n)
      /\ blocked_by \in [Threads -> ThreadBlock]
  BY <1>1, RunningFree DEF TypeOK
<1>3. /\ accepted(h) /\ mutex_count' = CountFor(h)
      /\ handles' = [handles EXCEPT ![h] = [magic |-> "valid", id |-> m]]
  BY <1>1 DEF check_or_register_mutex
<1>4. /\ Agrees(M, CountFor(h)) /\ m \in MutexId /\ m < CountFor(h)
      /\ mutex_count <= CountFor(h) /\ CountFor(h) \in Nat
      /\ M \in [MutexId -> Mutex]
  BY <1>3, AgreesRegistered, RegisteredType
<1>5. /\ outcome \in {"acquires", "recurses", "blocks"}
      /\ mutexes' = lock_mutex(M, m, t)
      /\ holds' = [holds EXCEPT ![t][m] = @ + 1]
  OBVIOUS
<1>6. \/ outcome # "blocks" /\ UNCHANGED blocked_by /\ UNCHANGED scan
      \/ /\ outcome = "blocks" /\ scan' = ScanStart
         /\ blocked_by' = [blocked_by EXCEPT ![t] = BlockedOn("Mutex", m)]
  BY DEF BlockCurrent, Continue, Yield, schedVars
<1>7. scan'.relock = NoMutex
  BY <1>2, <1>6 DEF ScanStart
<1>8. \A n \in MutexId : n # NoMutex
  BY DEF MutexId, NoMutex
<1>9. \A u \in Threads, n \in MutexId :
        Waits(u, n)' <=> \/ Waits(u, n)
                         \/ outcome = "blocks" /\ u = t /\ n = m
  <2>1. \A u \in Threads, n \in MutexId :
          /\ Waits(u, n) <=> blocked_by[u] = BlockedOn("Mutex", n)
          /\ Waits(u, n)' <=> blocked_by'[u] = BlockedOn("Mutex", n)
    BY <1>2, <1>7, <1>8 DEF Waits
  <2>2. CASE outcome # "blocks"
    BY <1>6, <2>1, <2>2
  <2>3. CASE outcome = "blocks"
    <3>1. \A n \in MutexId : BlockedOn("Mutex", m) = BlockedOn("Mutex", n) <=> n = m
      BY DEF BlockedOn
    <3>2. \A n \in MutexId : blocked_by[t] # BlockedOn("Mutex", n)
      BY <1>2 DEF NotBlocked, BlockedOn
    <3>3. \A u \in Threads :
            blocked_by'[u] = IF u = t THEN BlockedOn("Mutex", m) ELSE blocked_by[u]
      BY <1>2, <1>6, <2>3
    <3>4. QED
      BY <2>1, <2>3, <3>1, <3>2, <3>3
  <2>4. QED
    BY <2>2, <2>3
<1>10. \A u \in Threads, n \in MutexId :
         holds'[u][n] = IF u = t /\ n = m THEN holds[t][m] + 1 ELSE holds[u][n]
  BY <1>1, <1>2, <1>4, <1>5 DEF TypeOK
<1>11. \A u \in Threads, n \in MutexId :
         /\ mutexes'[n].owner = u => holds'[u][n] = mutexes'[n].count /\ ~Waits(u, n)'
         /\ mutexes'[n].owner # u => holds'[u][n] = IF Waits(u, n)' THEN 1 ELSE 0
  <2> SUFFICES ASSUME NEW u \in Threads, NEW n \in MutexId
               PROVE  /\ mutexes'[n].owner = u =>
                           holds'[u][n] = mutexes'[n].count /\ ~Waits(u, n)'
                      /\ mutexes'[n].owner # u =>
                           holds'[u][n] = IF Waits(u, n)' THEN 1 ELSE 0
    OBVIOUS
  <2>1. /\ M[n].owner = u => holds[u][n] = M[n].count /\ ~Waits(u, n)
        /\ M[n].owner # u => holds[u][n] = IF Waits(u, n) THEN 1 ELSE 0
    BY <1>4 DEF Agrees
  <2>2. u # NoThread /\ ~Waits(t, n)
    BY <1>2 DEF Threads, NoThread
  <2>3. CASE n # m
    <3>1. mutexes'[n] = M[n]
      BY <1>2, <1>4, <1>5, <2>3, LockEffect
    <3>2. QED
      BY <1>9, <1>10, <2>1, <2>3, <3>1
  <2>4. CASE n = m /\ outcome = "acquires"
    <3>1. M[m].owner = NoThread /\ mutexes'[m].owner = t /\ mutexes'[m].count = 1
      BY <1>2, <1>4, <1>5, <2>4, LockEffect
    <3>2. QED
      BY <1>9, <1>10, <2>1, <2>2, <2>4, <3>1
  <2>5. CASE n = m /\ outcome = "recurses"
    <3>1. M[m].owner = t /\ mutexes'[m].owner = t /\ mutexes'[m].count = M[m].count + 1
      BY <1>2, <1>4, <1>5, <2>5, LockEffect
    <3>2. QED
      BY <1>9, <1>10, <2>1, <2>2, <2>5, <3>1
  <2>6. CASE n = m /\ outcome = "blocks"
    <3>1. /\ M[m].owner # t /\ mutexes'[m].owner = M[m].owner
          /\ mutexes'[m].count = M[m].count
      BY <1>2, <1>4, <1>5, <2>6, LockEffect
    <3>2. QED
      BY <1>9, <1>10, <2>1, <2>2, <2>6, <3>1
  <2>7. QED
    BY <1>5, <2>3, <2>4, <2>5, <2>6
<1>12. \A n \in MutexId : n >= mutex_count' =>
         mutexes'[n].owner = NoThread /\ \A u \in Threads : ~Waits(u, n)'
  <2>1. \A n \in MutexId : n >= mutex_count' => n # m
    BY <1>3, <1>4 DEF MutexId
  <2>2. \A n \in MutexId : n # m => mutexes'[n] = M[n]
    BY <1>2, <1>4, <1>5, LockEffect
  <2>3. QED
    BY <1>3, <1>4, <1>9, <2>1, <2>2 DEF Agrees
<1>13. \A g \in Handles : handles'[g].magic = "valid" => handles'[g].id < mutex_count'
  <2>1. \A g \in Handles : g # h => handles'[g] = handles[g]
    BY <1>1, <1>3 DEF TypeOK
  <2>2. handles'[h].id = m
    BY <1>1, <1>3 DEF TypeOK
  <2>3. \A g \in Handles : handles[g].magic = "valid" =>
          handles[g].id \in MutexId /\ handles[g].id < mutex_count
    BY <1>1 DEF TypeOK, LockInv
  <2>4. mutex_count \in Nat
    BY <1>1 DEF TypeOK
  <2>5. \A i \in MutexId : i < mutex_count => i < CountFor(h)
    BY <1>4, <2>4 DEF MutexId
  <2>6. QED
    BY <1>3, <1>4, <2>1, <2>2, <2>3, <2>5
<1>14. \A u \in Threads : blocked_by'[u].by # "Condition"
  BY <1>2, <1>6 DEF LockInv, BlockedOn
<1>15. QED
  BY <1>7, <1>11, <1>12, <1>13, <1>14 DEF LockInv
\* What a successful unlock does to the table.
LEMMA UnlockEffect ==
    ASSUME NEW M \in [MutexId -> Mutex], NEW m \in MutexId, NEW t \in Threads,
           unlock_outcome(M, m, t) = "unlocks"
    PROVE  /\ \A n \in MutexId : n # m => unlock_mutex(M, m, t)[n] = M[n]
           /\ M[m].owner = t /\ M[m].live
           /\ unlock_mutex(M, m, t)[m].live = M[m].live
           /\ unlock_mutex(M, m, t)[m].waiting_count = M[m].waiting_count
           /\ unlock_mutex(M, m, t)[m].owner = IF M[m].count = 1 THEN NoThread ELSE t
           /\ unlock_mutex(M, m, t)[m].count = IF M[m].count = 1 THEN 0 ELSE M[m].count - 1
<1>1. M[m] \in Mutex /\ M[m].owner = t /\ M[m].live
  BY DEF unlock_outcome
<1>2. CASE M[m].count = 1
  <2> DEFINE L == [M EXCEPT ![m].owner = NoThread, ![m].count = 0]
  <2>1. /\ L[m].owner = NoThread /\ L[m].count = 0 /\ L[m].live = M[m].live
        /\ L[m].waiting_count = M[m].waiting_count
        /\ \A n \in MutexId : n # m => L[n] = M[n]
    BY <1>1 DEF Mutex
  <2>2. unlock_mutex(M, m, t) = L
    BY <1>2 DEF unlock_mutex
  <2> HIDE DEF L
  <2>3. QED
    BY <1>1, <1>2, <2>1, <2>2
<1>3. CASE M[m].count # 1
  <2> DEFINE L == [M EXCEPT ![m].count = @ - 1]
  <2>1. /\ L[m].owner = M[m].owner /\ L[m].count = M[m].count - 1
        /\ L[m].live = M[m].live /\ L[m].waiting_count = M[m].waiting_count
        /\ \A n \in MutexId : n # m => L[n] = M[n]
    BY <1>1 DEF Mutex
  <2>2. unlock_mutex(M, m, t) = L
    BY <1>3 DEF unlock_mutex
  <2> HIDE DEF L
  <2>3. QED
    BY <1>1, <1>3, <2>1, <2>2
<1>4. QED
  BY <1>2, <1>3

\* An unlock call that returns 0
LEMMA LockUnlockCall ==
    ASSUME TypeInv, SchedInv, LockInv, NEW h \in Handles, pthread_mutex_unlock(h)
    PROVE  LockInv'
<1> DEFINE m == handles[h].id
           t == current_thread
<1> USE DEF pthread_mutex_unlock
<1>1. /\ TypeOK /\ Running /\ m \in MutexId /\ t \in Threads
      /\ mutexes \in [MutexId -> Mutex]
      /\ unlock_outcome(mutexes, m, t) = "unlocks"
      /\ mutexes' = unlock_mutex(mutexes, m, t)
      /\ holds' = [holds EXCEPT ![t][m] = @ - 1]
      /\ UNCHANGED <<blocked_by, scan, phase, nthreads, handles, mutex_count>>
  BY DEF TypeInv, TypeOK, schedVars, threadVars
<1>2. \A u \in Threads, n \in MutexId : Waits(u, n)' <=> Waits(u, n)
  BY <1>1 DEF Waits
<1>3. /\ \A n \in MutexId : n # m => mutexes'[n] = mutexes[n]
      /\ mutexes[m].owner = t
      /\ mutexes'[m].owner = IF mutexes[m].count = 1 THEN NoThread ELSE t
      /\ mutexes'[m].count = IF mutexes[m].count = 1 THEN 0 ELSE mutexes[m].count - 1
  BY <1>1, UnlockEffect
<1>4. \A u \in Threads, n \in MutexId :
        holds'[u][n] = IF u = t /\ n = m THEN holds[t][m] - 1 ELSE holds[u][n]
  BY <1>1 DEF TypeOK
<1>5. \A u \in Threads, n \in MutexId :
        /\ mutexes'[n].owner = u => holds'[u][n] = mutexes'[n].count /\ ~Waits(u, n)'
        /\ mutexes'[n].owner # u => holds'[u][n] = IF Waits(u, n)' THEN 1 ELSE 0
  <2> SUFFICES ASSUME NEW u \in Threads, NEW n \in MutexId
               PROVE  /\ mutexes'[n].owner = u =>
                           holds'[u][n] = mutexes'[n].count /\ ~Waits(u, n)'
                      /\ mutexes'[n].owner # u =>
                           holds'[u][n] = IF Waits(u, n)' THEN 1 ELSE 0
    OBVIOUS
  <2>1. /\ mutexes[n].owner = u => holds[u][n] = mutexes[n].count /\ ~Waits(u, n)
        /\ mutexes[n].owner # u => holds[u][n] = IF Waits(u, n) THEN 1 ELSE 0
    BY DEF LockInv
  <2>2. u # NoThread /\ holds[t][m] \in Int
    BY <1>1 DEF Threads, NoThread, TypeOK
  <2>3. CASE n # m
    BY <1>2, <1>3, <1>4, <2>1, <2>3
  <2>4. CASE n = m /\ u # t
    BY <1>2, <1>3, <1>4, <2>1, <2>2, <2>4
  <2>5. CASE n = m /\ u = t
    BY <1>2, <1>3, <1>4, <2>1, <2>2, <2>5
  <2>6. QED
    BY <2>3, <2>4, <2>5
<1>6. \A n \in MutexId : n >= mutex_count =>
        mutexes'[n].owner = NoThread /\ \A u \in Threads : ~Waits(u, n)'
  <2>1. ~(m >= mutex_count)
    BY <1>1, <1>3 DEF LockInv, Threads, NoThread
  <2>2. QED
    BY <1>2, <1>3, <2>1 DEF LockInv
<1>7. scan.relock = NoMutex
  BY <1>1, RunningFree
<1>8. QED
  BY <1>1, <1>5, <1>6, <1>7 DEF LockInv

\* Creating and destroying mutexes changes neither owners nor waiters.
LEMMA LockInitDestroyCall ==
    ASSUME TypeInv, SchedInv, LockInv, NEW h \in Handles,
           pthread_mutex_init(h) \/ pthread_mutex_destroy(h)
    PROVE  LockInv'
<1> USE DEF pthread_mutex_init, pthread_mutex_destroy
<1>1. /\ TypeOK /\ Running
      /\ UNCHANGED <<blocked_by, scan, phase, nthreads, holds>>
  BY DEF TypeInv, schedVars, threadVars
<1>2. scan.relock = NoMutex
  BY <1>1, RunningFree
<1>3. \A u \in Threads, n \in MutexId : Waits(u, n)' <=> Waits(u, n)
  BY <1>1 DEF Waits
<1>4. /\ handles \in [Handles -> Handle] /\ mutex_count \in Nat
      /\ \A g \in Handles : handles[g].magic = "valid" =>
           handles[g].id \in MutexId /\ handles[g].id < mutex_count
  BY <1>1 DEF TypeOK, LockInv
<1>5. CASE pthread_mutex_init(h)
  <2>1. Agrees(mutexes', mutex_count')
    BY <1>5, GuestAssumption, AgreesInit
  <2>2. \A g \in Handles : handles'[g].magic = "valid" => handles'[g].id < mutex_count'
    <3>1. handles'[h].id = mutex_count /\ \A g \in Handles : g # h => handles'[g] = handles[g]
      BY <1>4, <1>5
    <3>2. mutex_count < mutex_count' /\ mutex_count' = mutex_count + 1
      BY <1>4, <1>5
    <3>3. \A i \in MutexId : i < mutex_count => i < mutex_count'
      BY <1>4, <3>2 DEF MutexId
    <3>4. QED
      BY <1>4, <3>1, <3>2, <3>3
  <2>3. QED
    BY <1>1, <1>2, <1>3, <2>1, <2>2 DEF LockInv, Agrees
<1>6. CASE pthread_mutex_destroy(h)
  <2> DEFINE M == TableFor(h)
             m == MutexOf(h)
  <2>1. /\ Agrees(M, CountFor(h)) /\ m \in MutexId /\ mutex_count' = CountFor(h)
        /\ mutex_count <= CountFor(h) /\ CountFor(h) \in Nat
        /\ M \in [MutexId -> Mutex] /\ HeldIsCounted(M)
        /\ mutexes' = destroy_mutex(M, m)
    BY <1>6, AgreesRegistered, RegisteredType
  <2>2. \A n \in MutexId : mutexes'[n].owner = M[n].owner /\ mutexes'[n].count = M[n].count
    <3>1. CASE destroy_outcome(M, m) = "ok"
      <4>1. M[m].owner = NoThread
        BY <3>1 DEF destroy_outcome
      <4>2. M[m].count = 0
        <5>1. ~(M[m].count >= 1) /\ M[m].count \in Nat
          BY <2>1, <4>1 DEF HeldIsCounted, Mutex
        <5>2. QED
          BY <5>1
      <4>3. mutexes' = [M EXCEPT ![m] = Absent]
        BY <2>1, <3>1 DEF destroy_mutex
      <4>4. QED
        BY <2>1, <4>1, <4>2, <4>3 DEF Absent
    <3>2. CASE destroy_outcome(M, m) # "ok"
      BY <2>1, <3>2 DEF destroy_mutex
    <3>3. QED
      BY <3>1, <3>2
  <2>3. Agrees(mutexes', mutex_count')
    <3>1. \A t \in Threads, n \in MutexId :
            /\ mutexes'[n].owner = t => holds[t][n] = mutexes'[n].count /\ ~Waits(t, n)
            /\ mutexes'[n].owner # t => holds[t][n] = IF Waits(t, n) THEN 1 ELSE 0
      BY <2>1, <2>2 DEF Agrees
    <3>2. \A n \in MutexId : n >= mutex_count' =>
            mutexes'[n].owner = NoThread /\ \A t \in Threads : ~Waits(t, n)
      BY <2>1, <2>2 DEF Agrees
    <3>3. QED
      BY <3>1, <3>2 DEF Agrees
  <2>4. \A g \in Handles : handles'[g].magic = "valid" => handles'[g].id < mutex_count'
    <3>1. handles'[h].magic # "valid" /\ \A g \in Handles : g # h => handles'[g] = handles[g]
      BY <1>4, <1>6 DEF wipe_handle, Wiped
    <3>2. \A i \in MutexId : i < mutex_count => i < mutex_count'
      BY <1>4, <2>1 DEF MutexId
    <3>3. QED
      BY <1>4, <3>1, <3>2
  <2>5. QED
    BY <1>1, <1>2, <1>3, <2>3, <2>4 DEF LockInv, Agrees
<1>7. QED
  BY <1>5, <1>6

\* Without condition variables, a step is a mutex call, wakes a waiter of a
\* mutex, relocks a mutex, or is quiet; only the failure of a relock is an
\* internal error.
LEMMA QuietNext ==
    ASSUME Conds = {}, TypeOK, SchedInv, LockInv, [Next]_vars
    PROVE  \/ \E h \in Handles :
                \/ pthread_mutex_init(h) \/ pthread_mutex_lock(h)
                \/ pthread_mutex_trylock(h) \/ pthread_mutex_unlock(h)
                \/ pthread_mutex_destroy(h)
           \/ (ScanMutex \/ ScanSwitch) /\ UNCHANGED guestVars
           \/ Quiet /\ (panic' = panic \/ panic' \in {"misuse", "deadlock"})
           \/ Quiet /\ ScanRelockPanics
<1>1. CASE LibraryCall
  <2>1. ASSUME NEW h \in Handles, pthread_mutex_misuse(h)
        PROVE  Quiet /\ panic' \in {"misuse", "deadlock"}
    BY <2>1 DEF Quiet, pthread_mutex_misuse, Panic, guestVars
  <2>2. ASSUME \/ \E s \in Sems : \/ sem_init(s) \/ sem_destroy(s) \/ sem_post(s)
                                  \/ sem_wait(s) \/ sem_misuse(s)
               \/ pthread_create \/ pthread_join_main
               \/ \E u \in Threads : pthread_join(u)
        PROVE  Quiet /\ (panic' = panic \/ panic' \in {"misuse", "deadlock"})
    <3>1. Quiet
      BY <2>2, QuietCall
    <3>2. panic' = panic \/ panic' \in {"misuse", "deadlock"}
      BY <2>2 DEF sem_init, sem_destroy, sem_post, sem_wait, sem_misuse,
         pthread_create, pthread_join_main, pthread_join, Panic
    <3>3. QED
      BY <3>1, <3>2
  <2>3. QED
    BY <1>1, <2>1, <2>2 DEF LibraryCall
<1>2. CASE ScanStep /\ UNCHANGED guestVars
  <2>1. ~ScanCondition
    <3>1. SUFFICES ASSUME ScanCondition PROVE FALSE
      OBVIOUS
    <3>2. candidate \in Threads /\ blocked_by[candidate].by = "Condition"
      BY <3>1, CandidateType DEF ScanCondition, Scanning
    <3>3. QED
      BY <3>2 DEF LockInv
  <2>2. ASSUME \/ ScanSkip \/ ScanNotBlocked \/ ScanSleeping
               \/ ScanSemaphore \/ ScanSemaphoreGone \/ ScanJoining
               \/ ScanDeferredReturn \/ ScanStillDeferred
               \/ ScanHostSleep \/ ScanDeadlock
        PROVE  Quiet /\ (panic' = panic \/ panic' \in {"misuse", "deadlock"})
    <3>1. Quiet
      BY <1>2, <2>2, QuietScan
    <3>2. panic' = panic \/ panic' \in {"misuse", "deadlock"}
      BY <2>2 DEF ScanSkip, ScanNotBlocked, ScanSleeping, ScanSemaphore,
         ScanSemaphoreGone, ScanJoining, ScanDeferredReturn, ScanStillDeferred,
         ScanHostSleep, ScanDeadlock, Panic
    <3>3. QED
      BY <3>1, <3>2
  <2>3. ASSUME ScanRelockPanics PROVE Quiet
    BY <1>2, <2>3, QuietScan
  <2>4. QED
    BY <1>2, <2>1, <2>2, <2>3 DEF ScanStep
<1>3. CASE (HostStep \/ GuestStep) /\ UNCHANGED guestVars
  <2>1. Quiet
    BY <1>3, QuietHostGuestStep
  <2>2. panic' = panic \/ panic' \in {"misuse", "deadlock"}
    BY <1>3 DEF HostStep, GuestStep, HostCallsGuest, HostSleeps, HostReturns,
       Preempt, ThreadExit, MainThreadExit, TailSleep, GuestCall, ReturnToHost,
       DeferReturn, Panic
  <2>3. QED
    BY <2>1, <2>2
<1>4. CASE (\E t \in Threads : Tick(t)) /\ UNCHANGED guestVars
  BY <1>4 DEF Tick, guestVars, threadVars, objectVars, Quiet
<1>5. CASE Terminated \/ UNCHANGED vars
  BY <1>5 DEF Terminated, vars, envVars, guestVars, Quiet
<1>6. QED
  BY <1>1, <1>2, <1>3, <1>4, <1>5 DEF Next, EnvironmentStep

\* Without condition variables, every step preserves the lock invariant.
LEMMA LockNext ==
    ASSUME Conds = {}, TypeInv, SchedInv, LockInv, [Next]_vars
    PROVE  LockInv'
<1>1. TypeOK
  BY DEF TypeInv
<1>2. QED
  BY <1>1, QuietNext, LockSame, LockLockCall, LockUnlockCall, LockInitDestroyCall,
     LockScanMutex, LockScanSwitch

\* The lock invariant holds initially.
LEMMA LockInit == Init => LockInv
<1> SUFFICES ASSUME Init PROVE LockInv
  OBVIOUS
<1>1. /\ mutexes = [m \in MutexId |-> Absent] /\ mutex_count = 0
      /\ blocked_by = [t \in Threads |-> NotBlocked] /\ scan = ScanStart
      /\ holds = [t \in Threads |-> [m \in MutexId |-> 0]]
      /\ handles \in [Handles -> {Wiped, [magic |-> "static", id |-> NoMutex]}]
  BY DEF Init, EnvInit
<1>2. \A m \in MutexId : m # NoMutex
  BY DEF MutexId, NoMutex
<1>3. \A t \in Threads, m \in MutexId : ~Waits(t, m)
  BY <1>1, <1>2 DEF Waits, ScanStart, NotBlocked, BlockedOn
<1>4. \A h \in Handles : handles[h].magic # "valid"
  BY <1>1 DEF Wiped
<1>5. \A m \in MutexId : mutexes[m].owner = NoThread
  BY <1>1 DEF Absent
<1>6. \A t \in Threads : t # NoThread
  BY DEF Threads, NoThread
<1>7. \A t \in Threads, m \in MutexId : holds[t][m] = 0
  BY <1>1
<1>8. scan.relock = NoMutex /\ \A t \in Threads : blocked_by[t].by # "Condition"
  BY <1>1 DEF ScanStart, NotBlocked
<1>9. QED
  BY <1>3, <1>4, <1>5, <1>6, <1>7, <1>8 DEF LockInv

\* The lock invariant gives mutual exclusion and ownership.
LEMMA LockInvImplies ==
    ASSUME TypeOK, LockInv
    PROVE  MutualExclusion /\ OwnerIsLocker
<1>1. ASSUME NEW t \in Threads, NEW m \in MutexId, Claims(t, m)
      PROVE  \/ mutexes[m].owner = t /\ mutexes[m].count = holds[t][m]
             \/ /\ scan.pick = t /\ scan.relock = m
                /\ phase = "scan" /\ mutexes[m].owner = NoThread
  <2>1. holds[t][m] > 0 /\ blocked_by[t] # BlockedOn("Mutex", m)
    BY <1>1 DEF Claims
  <2>2. CASE mutexes[m].owner = t
    BY <2>2 DEF LockInv
  <2>3. CASE mutexes[m].owner # t
    <3>1. Waits(t, m)
      BY <2>1, <2>3 DEF LockInv
    <3>2. scan.pick = t /\ scan.relock = m
      BY <2>1, <3>1 DEF Waits
    <3>3. m # NoMutex
      BY DEF MutexId, NoMutex
    <3>4. QED
      BY <3>2, <3>3 DEF LockInv
  <2>4. QED
    BY <2>2, <2>3
<1>2. \A t \in Threads : t # NoThread
  BY DEF Threads, NoThread
<1>3. MutualExclusion
  BY <1>1, <1>2 DEF MutualExclusion
<1>4. OwnerIsLocker
  BY <1>1 DEF OwnerIsLocker
<1>5. QED
  BY <1>3, <1>4

\* Without condition variables, all states satisfy the lock invariant.
LEMMA LockAlways ==
    ASSUME Conds = {}
    PROVE  Spec => [](TypeInv /\ SchedInv /\ LockInv)
<1>1. (TypeInv /\ SchedInv) /\ (TypeInv /\ SchedInv)' /\ LockInv /\ [Next]_vars => LockInv'
  BY LockNext
<1>2. QED
  BY <1>1, LockInit, SpecInv, PTL DEF Spec

\* For every number of threads, mutexes and nested callbacks, and every
\* mutex type: no two threads hold the same mutex (lock_mutex, unlock_mutex,
\* relock_unblocked_mutex and the Mutex branch of run_inner together).
THEOREM MutexesExclude ==
    ASSUME Conds = {}
    PROVE  Spec => []MutualExclusion
<1>1. TypeInv /\ SchedInv /\ LockInv => MutualExclusion
  BY LockInvImplies DEF TypeInv
<1>2. QED
  BY <1>1, LockAlways, PTL

\* A thread that runs on after a lock call owns the mutex to the depth of its
\* calls: the wake-up took it on behalf of the right thread.
THEOREM LockerOwns ==
    ASSUME Conds = {}
    PROVE  Spec => []OwnerIsLocker
<1>1. TypeInv /\ SchedInv /\ LockInv => OwnerIsLocker
  BY LockInvImplies DEF TypeInv
<1>2. QED
  BY <1>1, LockAlways, PTL

\* Both together: what a guest's critical sections rely on.
THEOREM LocksCorrect ==
    ASSUME Conds = {}
    PROVE  Spec => []LocksOwned
  BY MutexesExclude, LockerOwns, PTL DEF LocksOwned

----------------------------------------------------------------------------
(* The waiting count *)

BlockedLockers(m) == {t \in Threads : blocked_by[t] = BlockedOn("Mutex", m)}

\* There are finitely many threads.
LEMMA LockersFinite ==
    ASSUME NEW m
    PROVE  /\ IsFiniteSet(BlockedLockers(m)) /\ Cardinality(BlockedLockers(m)) \in Nat
<1>1. IsFiniteSet(Threads)
  BY FS_Interval, BoundsAssumption DEF Threads
<1>2. BlockedLockers(m) \subseteq Threads
  BY DEF BlockedLockers
<1>3. QED
  BY <1>1, <1>2, FS_Subset, FS_CardinalityType
\* The number of threads that wait for mutex m
Waiters(m) == Cardinality(BlockedLockers(m)) + (IF scan.relock = m THEN 1 ELSE 0)

\* The waiting counts in table M are exact and protect their mutexes.
Counted(M) ==
    \A m \in MutexId :
        M[m].waiting_count = Waiters(m) /\ (M[m].waiting_count # 0 => M[m].live)

\* The wait invariant in these terms.
LEMMA WaitInvCounted == WaitInv <=> Counted(mutexes) /\ NoInternalPanic
BY DEF WaitInv, Counted, WaitingCountExact, Waiters, BlockedLockers

\* It holds after a step if the counts do.
LEMMA WaitInvIntro ==
    ASSUME NoInternalPanic',
           \A m \in MutexId : /\ mutexes'[m].waiting_count = Waiters(m)'
                              /\ mutexes'[m].waiting_count # 0 => mutexes'[m].live
    PROVE  WaitInv'
BY DEF WaitInv, WaitingCountExact, Waiters, BlockedLockers

\* The count is that of the same waiters when neither they nor the pending
\* relock change.
LEMMA WaitersSame ==
    ASSUME \A t \in Threads, m \in MutexId :
             blocked_by'[t] = BlockedOn("Mutex", m) <=> blocked_by[t] = BlockedOn("Mutex", m),
           scan'.relock = scan.relock
    PROVE  \A m \in MutexId : Waiters(m)' = Waiters(m)
<1>1. \A m \in MutexId : BlockedLockers(m)' = BlockedLockers(m)
  BY DEF BlockedLockers
<1>2. QED
  BY <1>1 DEF Waiters

\* While a mutex is about to be relocked it is live and free, so that the
\* relock succeeds.
LEMMA RelockSucceeds ==
    ASSUME TypeOK, LockInv, WaitInv, scan.relock # NoMutex
    PROVE  /\ scan.relock \in MutexId
           /\ mutexes[scan.relock].waiting_count >= 1
           /\ \A t \in Threads : lock_outcome(mutexes, scan.relock, t) = "acquires"
<1>1. scan.relock \in MutexId /\ mutexes[scan.relock].waiting_count \in Nat
  BY DEF TypeOK, Scan, Mutex
<1>2. mutexes[scan.relock].waiting_count >= 1
  BY <1>1, WaitInvCounted, LockersFinite DEF Counted, Waiters
<1>3. mutexes[scan.relock].live /\ mutexes[scan.relock].owner = NoThread
  BY <1>1, <1>2 DEF WaitInv, LockInv
<1>4. \A t \in Threads : t # NoThread
  BY DEF Threads, NoThread
<1>5. \A t \in Threads : lock_outcome(mutexes, scan.relock, t) = "acquires"
  BY <1>3, <1>4 DEF lock_outcome
<1>6. QED
  BY <1>1, <1>2, <1>5

\* The scan's wake-up of a waiter, and the relock
LEMMA WaitScan ==
    ASSUME TypeInv, SchedInv, LockInv, WaitInv, UNCHANGED guestVars,
           ScanMutex \/ ScanSwitch
    PROVE  WaitInv'
<1>1. /\ TypeOK /\ Counted(mutexes) /\ mutexes \in [MutexId -> Mutex]
      /\ NoInternalPanic'
  BY WaitInvCounted
     DEF TypeInv, TypeOK, WaitInv, NoInternalPanic, ScanMutex, ScanSwitch
<1>2. \A m \in MutexId : m # NoMutex
  BY DEF MutexId, NoMutex
<1>3. CASE ScanMutex
  <2>1. /\ candidate \in Threads /\ blocked_by[candidate] \in ThreadBlock
        /\ BlockedOnKnown(blocked_by[candidate])
    BY <1>1, <1>3, CandidateType DEF TypeOK, ScanMutex, Scanning
  <2>2. PICK m \in MutexId : /\ m = blocked_by[candidate].on
                             /\ blocked_by[candidate] = BlockedOn("Mutex", m)
    BY <1>3, <2>1 DEF ScanMutex, BlockedOnKnown, ThreadBlock, BlockedOn
  <2>3. scan.relock = NoMutex
    BY <1>1, <1>3 DEF LockInv, TypeOK, Scan, ScanMutex, Scanning
  <2>4. UNCHANGED mutexes
    BY <1>3 DEF ScanMutex, objectVars
  <2>5. CASE ~mutex_wakes(m)
    <3>1. UNCHANGED blocked_by /\ scan'.relock = scan.relock
      BY <1>1, <1>3, <2>2, <2>5 DEF ScanMutex, NextCandidate, TypeOK, Scan
    <3>2. \A n \in MutexId : Waiters(n)' = Waiters(n)
      BY <3>1, WaitersSame
    <3>3. QED
      BY <1>1, <2>4, <3>2, WaitInvIntro DEF Counted
  <2>6. CASE mutex_wakes(m)
    <3>1. /\ blocked_by' = [blocked_by EXCEPT ![candidate] = NotBlocked]
          /\ scan'.relock = m
      BY <1>1, <1>3, <2>2, <2>6 DEF ScanMutex, TypeOK, Scan
    <3>2. \A t \in Threads, n \in MutexId :
            blocked_by'[t] = BlockedOn("Mutex", n) <=>
              t # candidate /\ blocked_by[t] = BlockedOn("Mutex", n)
      BY <1>1, <2>1, <3>1 DEF TypeOK, NotBlocked, BlockedOn
    <3>3. \A n \in MutexId : blocked_by[candidate] = BlockedOn("Mutex", n) <=> n = m
      BY <2>2 DEF BlockedOn
    <3>4. \A n \in MutexId : n # m => BlockedLockers(n)' = BlockedLockers(n)
      BY <3>2, <3>3 DEF BlockedLockers
    <3>5. /\ BlockedLockers(m)' = BlockedLockers(m) \ {candidate}
          /\ candidate \in BlockedLockers(m)
      BY <2>1, <2>2, <3>2 DEF BlockedLockers
    <3>6. Cardinality(BlockedLockers(m) \ {candidate}) = Cardinality(BlockedLockers(m)) - 1
          /\ Cardinality(BlockedLockers(m)) \in Nat
      BY <3>5, LockersFinite, FS_RemoveElement
    <3>7. \A n \in MutexId : Waiters(n)' = Waiters(n)
      <4>1. ASSUME NEW n \in MutexId, n # m
            PROVE  Waiters(n)' = Waiters(n)
        BY <1>2, <2>3, <3>1, <3>4, <4>1 DEF Waiters
      <4>2. Waiters(m) = Cardinality(BlockedLockers(m))
        BY <1>2, <2>3, <3>6 DEF Waiters
      <4>3. Waiters(m)' = Cardinality(BlockedLockers(m) \ {candidate}) + 1
        BY <3>1, <3>5 DEF Waiters
      <4>4. QED
        BY <3>6, <4>1, <4>2, <4>3
    <3>8. QED
      BY <1>1, <2>4, <3>7, WaitInvIntro DEF Counted
  <2>7. QED
    BY <2>5, <2>6
<1>4. CASE ScanSwitch
  <2>1. PICK t \in Threads, m \in MutexId \cup {NoMutex} :
          t = scan.pick /\ m = scan.relock
    BY <1>1, <1>4 DEF TypeOK, Scan, ScanSwitch
  <2>11. UNCHANGED blocked_by /\ scan'.relock = NoMutex
    BY <1>4 DEF ScanSwitch, ScanStart
  <2>2. CASE m = NoMutex
    <3>1. UNCHANGED mutexes
      BY <1>4, <2>1, <2>2 DEF ScanSwitch, relock
    <3>2. \A n \in MutexId : Waiters(n)' = Waiters(n)
      BY <2>1, <2>2, <2>11, WaitersSame
    <3>3. QED
      BY <1>1, <3>1, <3>2, WaitInvIntro DEF Counted
  <2>3. CASE m # NoMutex
    <3>1. /\ m \in MutexId /\ mutexes[m].waiting_count >= 1
          /\ lock_outcome(mutexes, m, t) = "acquires"
          /\ mutexes' = relock_unblocked_mutex(mutexes, m, t)
      BY <1>1, <1>4, <2>1, <2>3, RelockSucceeds DEF ScanSwitch, relock
    <3>2. /\ mutexes'[m].live = mutexes[m].live
          /\ mutexes'[m].waiting_count =
               IF mutexes[m].waiting_count > 0 THEN mutexes[m].waiting_count - 1 ELSE 0
          /\ \A n \in MutexId : n # m => mutexes'[n] = mutexes[n]
      BY <1>1, <2>1, <3>1, RelockEffect
    <3>3. mutexes[m].waiting_count \in Nat /\ mutexes[m].live
      BY <1>1, <3>1 DEF Mutex, Counted
    <3>4. \A n \in MutexId : Waiters(n)' = Cardinality(BlockedLockers(n))
      <4>1. \A n \in MutexId : BlockedLockers(n)' = BlockedLockers(n)
        BY <2>11 DEF BlockedLockers
      <4>2. QED
        BY <1>2, <2>11, <4>1, LockersFinite DEF Waiters
    <3>5. \A n \in MutexId : n # m => Waiters(n)' = Waiters(n)
      BY <2>1, <3>4, LockersFinite DEF Waiters
    <3>6. Waiters(m) = Waiters(m)' + 1 /\ Waiters(m)' \in Nat
      BY <2>1, <3>1, <3>4, LockersFinite DEF Waiters
    <3>7. mutexes[m].waiting_count = Waiters(m)
      BY <1>1, <3>1 DEF Counted
    <3>8. mutexes'[m].waiting_count = Waiters(m)' /\ mutexes'[m].live
      BY <3>1, <3>2, <3>3, <3>6, <3>7
    <3>9. ASSUME NEW n \in MutexId
          PROVE  /\ mutexes'[n].waiting_count = Waiters(n)'
                 /\ mutexes'[n].waiting_count # 0 => mutexes'[n].live
      BY <1>1, <3>2, <3>5, <3>8 DEF Counted
    <3>10. QED
      BY <1>1, <3>9, WaitInvIntro
  <2>4. QED
    BY <2>2, <2>3
<1>5. QED
  BY <1>3, <1>4

\* A new mutex has no waiters.
LEMMA CountedInit ==
    ASSUME TypeInv, LockInv, WaitInv, mutex_count < MaxMutexes, NEW type \in MutexType
    PROVE  Counted(init_mutex(mutexes, mutex_count, type))
<1> DEFINE M == init_mutex(mutexes, mutex_count, type)
<1>1. mutex_count \in MutexId /\ mutexes \in [MutexId -> Mutex] /\ mutex_count >= mutex_count
  BY BoundsAssumption DEF TypeInv, TypeOK, MutexId
<1>2. \A t \in Threads : ~Waits(t, mutex_count)
  BY <1>1 DEF LockInv
<1>3. BlockedLockers(mutex_count) = {}
  BY <1>2 DEF BlockedLockers, Waits
<1>4. scan.relock # mutex_count
  <2>1. SUFFICES ASSUME scan.relock = mutex_count PROVE FALSE
    OBVIOUS
  <2>2. mutex_count # NoMutex
    BY <1>1 DEF MutexId, NoMutex
  <2>3. scan.pick \in Threads
    BY <2>1, <2>2 DEF LockInv, TypeInv, TypeOK, Scan
  <2>4. QED
    BY <1>2, <2>1, <2>3 DEF Waits
<1>5. Waiters(mutex_count) = 0
  BY <1>3, <1>4, FS_EmptySet DEF Waiters
<1>6. /\ \A m \in MutexId : m # mutex_count => M[m] = mutexes[m]
      /\ M[mutex_count].waiting_count = 0
  BY <1>1 DEF init_mutex, Absent
<1> HIDE DEF M
<1>7. Counted(M)
  BY <1>5, <1>6, WaitInvCounted DEF Counted
<1>8. QED
  BY <1>7 DEF M

\* check_or_register_mutex keeps the counts exact.
LEMMA CountedRegistered ==
    ASSUME TypeInv, LockInv, WaitInv, NEW h \in Handles, accepted(h)
    PROVE  Counted(TableFor(h))
<1>1. "NORMAL" \in MutexType
  BY DEF MutexType
<1>2. QED
  BY <1>1, CountedInit, WaitInvCounted DEF accepted, TableFor
\* The mutex calls keep the counts exact.
LEMMA WaitCall ==
    ASSUME TypeInv, SchedInv, LockInv, WaitInv, NEW h \in Handles,
           \/ pthread_mutex_init(h) \/ pthread_mutex_lock(h)
           \/ pthread_mutex_trylock(h) \/ pthread_mutex_unlock(h)
           \/ pthread_mutex_destroy(h)
    PROVE  WaitInv'
<1> USE DEF pthread_mutex_init, pthread_mutex_lock, pthread_mutex_trylock,
            pthread_mutex_unlock, pthread_mutex_destroy
<1>1. TypeOK /\ Running /\ NoInternalPanic' /\ Counted(mutexes)
  BY WaitInvCounted DEF TypeInv, WaitInv, NoInternalPanic
<1>2. PICK t \in Threads : t = current_thread
  BY <1>1 DEF TypeOK
<1>3. /\ scan.relock = NoMutex /\ scan'.relock = NoMutex
      /\ blocked_by[t] = NotBlocked /\ blocked_by \in [Threads -> ThreadBlock]
  <2>1. /\ scan.relock = NoMutex /\ blocked_by[t] = NotBlocked
        /\ blocked_by \in [Threads -> ThreadBlock]
    BY <1>1, <1>2, RunningFree DEF TypeOK
  <2>2. scan' = scan \/ scan' = ScanStart
    BY DEF BlockCurrent, Continue, Yield, schedVars
  <2>3. QED
    BY <2>1, <2>2 DEF ScanStart
<1>4. ASSUME UNCHANGED blocked_by
      PROVE  \A n \in MutexId : Waiters(n)' = Waiters(n)
  BY <1>3, <1>4, WaitersSame
<1>5. CASE pthread_mutex_init(h)
  <2>1. UNCHANGED blocked_by /\ Counted(mutexes')
    BY <1>5, GuestAssumption, CountedInit
  <2>2. QED
    BY <1>1, <1>4, <2>1, WaitInvIntro DEF Counted
<1>6. CASE pthread_mutex_unlock(h)
  <2>1. /\ UNCHANGED blocked_by /\ handles[h].id \in MutexId
        /\ mutexes \in [MutexId -> Mutex]
    BY <1>1, <1>6 DEF TypeOK
  <2>2. \A n \in MutexId : /\ mutexes'[n].waiting_count = mutexes[n].waiting_count
                           /\ mutexes'[n].live = mutexes[n].live
    BY <1>2, <1>6, <2>1, UnlockEffect
  <2>3. QED
    BY <1>1, <1>4, <2>1, <2>2, WaitInvIntro DEF Counted
<1>7. CASE pthread_mutex_destroy(h)
  <2>1. PICK M \in [MutexId -> Mutex], m \in MutexId :
          /\ Counted(M) /\ mutexes' = destroy_mutex(M, m)
          /\ UNCHANGED blocked_by
    BY <1>7, RegisteredType, CountedRegistered
  <2>2. \A n \in MutexId : Waiters(n)' = Waiters(n)
    BY <1>4, <2>1
  <2>3. CASE destroy_outcome(M, m) = "ok"
    <3>1. M[m].waiting_count = 0
      BY <2>3 DEF destroy_outcome
    <3>2. mutexes' = [M EXCEPT ![m] = Absent] /\ Absent.waiting_count = 0
      BY <2>1, <2>3 DEF destroy_mutex, Absent
    <3>3. \A n \in MutexId : n # m => mutexes'[n] = M[n]
      BY <3>2
    <3>4. mutexes'[m].waiting_count = 0
      BY <3>2
    <3>5. QED
      BY <1>1, <2>1, <2>2, <3>1, <3>3, <3>4, WaitInvIntro DEF Counted
  <2>4. CASE destroy_outcome(M, m) # "ok"
    <3>1. mutexes' = M
      BY <2>1, <2>4 DEF destroy_mutex
    <3>2. QED
      BY <1>1, <2>1, <2>2, <3>1, WaitInvIntro DEF Counted
  <2>5. QED
    BY <2>3, <2>4
<1>8. CASE pthread_mutex_lock(h) \/ pthread_mutex_trylock(h)
  <2>1. PICK M \in [MutexId -> Mutex], m \in MutexId :
          M = TableFor(h) /\ m = MutexOf(h) /\ Counted(M)
    BY <1>8, RegisteredType, CountedRegistered DEF check_or_register_mutex
  <2>2. /\ lock_outcome(M, m, t) \in {"acquires", "recurses", "blocks"}
        /\ mutexes' = lock_mutex(M, m, t)
    BY <1>2, <1>8, <2>1
  <2>3. /\ \A n \in MutexId : n # m => mutexes'[n] = M[n]
        /\ mutexes'[m].live /\ M[m].live /\ M[m].waiting_count \in Nat
    <3>1. M[m].waiting_count \in Nat
      BY DEF Mutex
    <3>2. QED
      BY <2>2, <3>1, LockEffect
  <2>4. CASE lock_outcome(M, m, t) # "blocks"
    <3>1. UNCHANGED blocked_by
      BY <1>2, <1>8, <2>1, <2>4
    <3>2. mutexes'[m].waiting_count = M[m].waiting_count
      BY <2>2, <2>4, LockEffect
    <3>3. QED
      BY <1>1, <1>4, <2>1, <2>3, <3>1, <3>2, WaitInvIntro DEF Counted
  <2>5. CASE lock_outcome(M, m, t) = "blocks"
    <3>1. mutexes'[m].waiting_count = M[m].waiting_count + 1
      BY <2>2, <2>5, LockEffect
    <3>2. blocked_by' = [blocked_by EXCEPT ![t] = BlockedOn("Mutex", m)]
      BY <1>2, <1>8, <2>1, <2>5 DEF BlockCurrent
    <3>3. \A n \in MutexId : BlockedOn("Mutex", m) = BlockedOn("Mutex", n) <=> n = m
      BY DEF BlockedOn
    <3>4. \A n \in MutexId : blocked_by[t] # BlockedOn("Mutex", n)
      BY <1>3 DEF NotBlocked, BlockedOn
    <3>5. \A u \in Threads :
            blocked_by'[u] = IF u = t THEN BlockedOn("Mutex", m) ELSE blocked_by[u]
      BY <1>3, <3>2
    <3>6. \A n \in MutexId : n # m => BlockedLockers(n)' = BlockedLockers(n)
      BY <3>3, <3>4, <3>5 DEF BlockedLockers
    <3>7. /\ BlockedLockers(m)' = BlockedLockers(m) \cup {t}
          /\ t \notin BlockedLockers(m)
      BY <3>4, <3>5 DEF BlockedLockers
    <3>8. /\ Cardinality(BlockedLockers(m) \cup {t}) = Cardinality(BlockedLockers(m)) + 1
          /\ Cardinality(BlockedLockers(m)) \in Nat
      BY <3>7, LockersFinite, FS_AddElement
    <3>9. \A n \in MutexId : n # NoMutex
      BY DEF MutexId, NoMutex
    <3>10. \A n \in MutexId : n # m => Waiters(n)' = Waiters(n)
      BY <1>3, <3>6 DEF Waiters
    <3>11. Waiters(m) = Cardinality(BlockedLockers(m)) + 0
      BY <1>3, <3>9 DEF Waiters
    <3>12. Waiters(m)' = Cardinality(BlockedLockers(m) \cup {t}) + 0
      BY <1>3, <3>7, <3>9 DEF Waiters
    <3>13. M[m].waiting_count = Waiters(m)
      BY <2>1 DEF Counted
    <3>14. mutexes'[m].waiting_count = Waiters(m)'
      BY <2>3, <3>1, <3>8, <3>11, <3>12, <3>13
    <3>15. QED
      BY <1>1, <2>1, <2>3, <3>10, <3>14, WaitInvIntro DEF Counted
  <2>6. QED
    BY <2>4, <2>5
<1>9. QED
  BY <1>5, <1>6, <1>7, <1>8

\* Without condition variables, every step keeps the waiting counts exact and
\* never fails a relock.
LEMMA WaitNext ==
    ASSUME Conds = {}, TypeInv, SchedInv, LockInv, WaitInv, [Next]_vars
    PROVE  WaitInv'
<1>1. TypeOK /\ Counted(mutexes) /\ NoInternalPanic
  BY WaitInvCounted DEF TypeInv
<1>2. ~ScanRelockPanics
  <2>1. SUFFICES ASSUME ScanRelockPanics PROVE FALSE
    OBVIOUS
  <2>2. scan.relock # NoMutex /\ scan.pick \in Threads
    BY <1>1, <2>1 DEF ScanRelockPanics, TypeOK, Scan
  <2>3. lock_outcome(mutexes, scan.relock, scan.pick) = "acquires"
    BY <1>1, <2>2, RelockSucceeds
  <2>4. QED
    BY <2>1, <2>3 DEF ScanRelockPanics, relock_panics
<1>3. ASSUME Quiet, panic' = panic \/ panic' \in {"misuse", "deadlock"}
      PROVE  WaitInv'
  <2>1. \A t \in Threads, m \in MutexId :
          blocked_by'[t] = BlockedOn("Mutex", m) <=> blocked_by[t] = BlockedOn("Mutex", m)
    BY <1>3 DEF Quiet, BlockedOn
  <2>2. UNCHANGED mutexes /\ scan'.relock = scan.relock
    BY <1>3 DEF Quiet
  <2>3. \A m \in MutexId : Waiters(m)' = Waiters(m)
    BY <2>1, <2>2, WaitersSame
  <2>4. NoInternalPanic'
    BY <1>1, <1>3 DEF NoInternalPanic
  <2>5. QED
    BY <1>1, <2>2, <2>3, <2>4, WaitInvIntro DEF Counted
<1>4. QED
  BY <1>1, <1>2, <1>3, QuietNext, WaitScan, WaitCall

\* The wait invariant holds initially.
LEMMA WaitInit == Init => WaitInv
<1> SUFFICES ASSUME Init PROVE WaitInv
  OBVIOUS
<1>1. /\ mutexes = [m \in MutexId |-> Absent] /\ panic = "none"
      /\ blocked_by = [t \in Threads |-> NotBlocked] /\ scan.relock = NoMutex
  BY DEF Init, EnvInit, ScanStart
<1>2. \A m \in MutexId : m # NoMutex
  BY DEF MutexId, NoMutex
<1>3. \A m \in MutexId : BlockedLockers(m) = {}
  BY <1>1 DEF BlockedLockers, NotBlocked, BlockedOn
<1>4. \A m \in MutexId : Waiters(m) = 0
  BY <1>1, <1>2, <1>3, FS_EmptySet DEF Waiters
<1>5. \A m \in MutexId : mutexes[m].waiting_count = 0
  BY <1>1 DEF Absent
<1>6. QED
  BY <1>1, <1>4, <1>5, WaitInvCounted DEF Counted, NoInternalPanic

\* Without condition variables, all states satisfy the wait invariant.
LEMMA WaitAlways ==
    ASSUME Conds = {}
    PROVE  Spec => []WaitInv
<1>1. (TypeInv /\ SchedInv /\ LockInv) /\ WaitInv /\ [Next]_vars => WaitInv'
  BY WaitNext
<1>2. QED
  BY <1>1, WaitInit, LockAlways, PTL DEF Spec

\* waiting_count is at every moment the number of threads blocked in a lock
\* call (with the one being relocked), so a mutex is destroyed exactly when
\* nobody holds it or waits for it.
THEOREM WaitingCountCorrect ==
    ASSUME Conds = {}
    PROVE  Spec => []WaitingCountExact
<1>1. WaitInv => WaitingCountExact
  BY DEF WaitInv
<1>2. QED
  BY <1>1, WaitAlways, PTL

\* relock_unblocked_mutex never unwraps a mutex that is gone and its lock is
\* never refused: destroying mutexes under contention cannot stop the
\* emulator.
THEOREM RelockNeverFails ==
    ASSUME Conds = {}
    PROVE  Spec => []NoInternalPanic
<1>1. WaitInv => NoInternalPanic
  BY DEF WaitInv
<1>2. QED
  BY <1>1, WaitAlways, PTL

----------------------------------------------------------------------------
(* Deadlocks *)

\* The scan has found nothing to do for t: it has exited, nothing can unblock
\* it, or it is a sleeper the scan took note of.
Seen(t) ==
    active[t] => Stuck(t) \/ (blocked_by[t].by = "Sleeping" /\ scan.nap)

\* The thread the scan examines in its iteration number j
candidate_at(j) == (current_thread + 1 + j) % nthreads

\* What the scan saw of the candidates it has passed still holds, while it has
\* picked no one.
SeenInv ==
    /\ phase = "scan" /\ panic = "none" /\ scan.pick = NoThread =>
         \A j \in Nat : j < scan.k => Seen(candidate_at(j))
    /\ DeadlockIsReal

\* What was seen of a thread is not undone by a step that only examines the
\* next candidate, or lets time pass.
LEMMA SeenKept ==
    ASSUME UNCHANGED <<active, blocked_by, mutexes, sems, conds, stack>>,
           scan.nap => scan'.nap
    PROVE  \A t : (Stuck(t)' = Stuck(t)) /\ (Seen(t) => Seen(t)')
BY DEF Seen, Stuck, Top, mutex_is_locked, cond_wakes

\* A step outside a scan, or that starts one, or that picks a thread, without
\* the deadlock panic.
LEMMA SeenFresh ==
    ASSUME SeenInv, panic' # "deadlock",
           \/ phase' # "scan" \/ panic' # "none"
           \/ scan' = ScanStart \/ scan'.pick # NoThread
    PROVE  SeenInv'
BY DEF SeenInv, DeadlockIsReal, ScanStart

\* The scan passes over a candidate that cannot go on.
LEMMA SeenPass ==
    ASSUME TypeOK, SeenInv, phase = "scan", panic = "none",
           scan'.k = scan.k + 1, scan'.pick = scan.pick, scan.nap => scan'.nap,
           NEW t, t = candidate, Seen(t)',
           UNCHANGED <<nthreads, current_thread, active, blocked_by, mutexes,
                       sems, conds, stack, phase, panic>>
    PROVE  SeenInv'
<1>1. ASSUME scan'.pick = NoThread, NEW j \in Nat, j < scan'.k
      PROVE  Seen(candidate_at(j))'
  <2>1. scan.k \in Nat
    BY DEF TypeOK, Scan
  <2>2. CASE j < scan.k
    <3>1. Seen(candidate_at(j))
      BY <1>1, <2>2 DEF SeenInv
    <3>2. candidate_at(j)' = candidate_at(j)
      BY DEF candidate_at
    <3> QED BY <3>1, <3>2, SeenKept
  <2>3. CASE j = scan.k
    <3>1. candidate_at(j)' = t
      BY <2>3 DEF candidate_at, candidate
    <3> QED BY <3>1
  <2> QED BY <1>1, <2>1, <2>2, <2>3
<1>2. DeadlockIsReal'
  BY DEF DeadlockIsReal
<1> QED BY <1>1, <1>2 DEF SeenInv

\* When every iteration has passed, every living thread has been seen: the
\* candidates are all the threads, in the order of their distance.
LEMMA EveryoneIsCandidate ==
    ASSUME TypeOK, SchedInv, NEW t \in Threads, active[t]
    PROVE  \E j \in Nat : j < nthreads /\ candidate_at(j) = t
<1> DEFINE n == nthreads
           cur == current_thread
<1>1. n \in Nat \ {0} /\ t \in Nat /\ cur \in Nat /\ t < n /\ cur < n
  BY DEF TypeOK, Threads, SchedInv, PickIsRunnable
<1> HIDE DEF n, cur
<1>2. CASE cur < t
  <2>1. t - cur - 1 \in Nat /\ t - cur - 1 < n /\ cur + 1 + (t - cur - 1) = t
    BY <1>1, <1>2
  <2>2. t % n = t
    BY <1>1
  <2> QED BY <2>1, <2>2 DEF candidate_at, n, cur
<1>3. CASE t <= cur
  <2>1. /\ t - cur - 1 + n \in Nat /\ t - cur - 1 + n < n
        /\ cur + 1 + (t - cur - 1 + n) = t + n
    BY <1>1, <1>3
  <2>2. (t + n) % n = t
    BY <1>1
  <2> QED BY <2>1, <2>2 DEF candidate_at, n, cur
<1> QED BY <1>1, <1>2, <1>3

\* The panic of a scan that found no one.
LEMMA SeenDeadlock ==
    ASSUME TypeOK, SchedInv, SeenInv, ScanDeadlock
    PROVE  SeenInv'
<1> USE DEF ScanDeadlock, ScanDone, Panic
<1>1. ASSUME NEW t \in Threads, active[t] PROVE Stuck(t)
  <2>1. PICK j \in Nat : j < nthreads /\ candidate_at(j) = t
    BY <1>1, EveryoneIsCandidate
  <2>2. Seen(t)
    BY <2>1 DEF SeenInv
  <2> QED BY <1>1, <2>2 DEF Seen
<1>2. \A t : Stuck(t)' = Stuck(t)
  BY SeenKept
<1>3. DeadlockIsReal'
  BY <1>1, <1>2 DEF DeadlockIsReal
<1> QED BY <1>3 DEF SeenInv

\* An iteration of the scan that picks no one has seen the candidate.
LEMMA SeenScanStep ==
    ASSUME TypeOK, SchedInv, SeenInv, ScanStep
    PROVE  SeenInv'
<1> DEFINE t == candidate
<1>1. t \in Threads /\ t # NoThread /\ scan \in Scan
  BY CandidateType DEF TypeOK, Threads, NoThread
<1>2. ASSUME Scanning, scan' = [scan EXCEPT !.k = @ + 1]
      PROVE  scan'.k = scan.k + 1 /\ scan'.pick = scan.pick /\ scan'.nap = scan.nap
  BY <1>1, <1>2 DEF Scan
<1>3. ASSUME PickAndBreak(t), UNCHANGED panic, Scanning
      PROVE  SeenInv'
  <2>1. scan'.pick = t
    BY <1>1, <1>3 DEF PickAndBreak, Scan
  <2> QED BY <1>1, <1>3, <2>1, SeenFresh DEF Scanning
<1>4. ASSUME Scanning, NextCandidate, ~active[t] \/ Stuck(t),
             UNCHANGED <<threadVars, blocked_by, stack, phase, panic,
                         mutexes, conds, sems>>
      PROVE  SeenInv'
  <2>1. scan'.k = scan.k + 1 /\ scan'.pick = scan.pick /\ scan'.nap = scan.nap
    BY <1>2, <1>4 DEF NextCandidate
  <2>2. Seen(t)
    BY <1>4 DEF Seen
  <2>3. \A u : Seen(u) => Seen(u)'
    BY <1>4, <2>1, SeenKept DEF threadVars
  <2> HIDE DEF t
  <2>4. PICK u : u = t
    OBVIOUS
  <2>5. u = candidate /\ Seen(u)'
    BY <2>2, <2>3, <2>4 DEF t
  <2> QED BY <1>4, <2>1, <2>5, SeenPass DEF Scanning, threadVars
<1>5. CASE ScanSkip
  <2>1. ~active[t]
    BY <1>1, <1>5 DEF ScanSkip, eligible, SchedInv, HostFlagExact, Scanning
  <2> QED BY <1>5, <2>1, <1>4 DEF ScanSkip, objectVars
<1>6. CASE ScanNotBlocked
  BY <1>6, <1>3 DEF ScanNotBlocked
<1>7. CASE ScanSleeping
  <2>1. CASE t \in due
    BY <1>7, <2>1, <1>3 DEF ScanSleeping
  <2>2. CASE t \notin due
    <3>1. scan' = [scan EXCEPT !.k = @ + 1, !.nap = TRUE]
      BY <1>7, <2>2 DEF ScanSleeping, sleeper_noted
    <3>2. scan'.k = scan.k + 1 /\ scan'.pick = scan.pick /\ scan'.nap = TRUE
      BY <1>1, <3>1 DEF Scan
    <3>3. PICK u : u = candidate
      OBVIOUS
    <3>4. Seen(u)'
      BY <1>7, <2>2, <3>2, <3>3 DEF ScanSleeping, Seen
    <3> QED BY <1>7, <2>2, <3>2, <3>3, <3>4, SeenPass
            DEF ScanSleeping, Scanning, threadVars, objectVars
  <2> QED BY <2>1, <2>2
<1>8. CASE ScanMutex
  <2> DEFINE m == blocked_by[t].on
  <2>1. CASE mutex_wakes(m)
    <3>1. scan'.pick = t
      BY <1>1, <1>8, <2>1 DEF ScanMutex, Scan
    <3> QED BY <1>1, <1>8, <3>1, SeenFresh DEF ScanMutex, Scanning
  <2>2. CASE ~mutex_wakes(m)
    <3>1. Stuck(t)
      BY <1>8, <2>2 DEF ScanMutex, Stuck, mutex_wakes
    <3> QED BY <1>8, <2>2, <3>1, <1>4 DEF ScanMutex, objectVars
  <2> QED BY <2>1, <2>2
<1>9. CASE ScanSemaphore
  <2> DEFINE s == blocked_by[t].on
  <2>1. CASE sem_available(s)
    BY <1>9, <2>1, <1>3 DEF ScanSemaphore
  <2>2. CASE ~sem_available(s)
    <3>1. s \in Sems /\ sems[s].value \in Nat
      BY <1>1, <1>9 DEF ScanSemaphore, TypeOK, BlockedOnKnown, Sem
    <3>2. sems[s].value = 0
      BY <2>2, <3>1 DEF sem_available
    <3>3. Stuck(t)
      BY <1>9, <3>2 DEF ScanSemaphore, Stuck
    <3> QED BY <1>9, <2>2, <3>3, <1>4 DEF ScanSemaphore
  <2> QED BY <2>1, <2>2
<1>10. CASE ScanCondition
  <2> DEFINE c == blocked_by[t].on
  <2>1. CASE cond_wakes(c, t)
    <3>1. scan'.pick = t
      BY <1>1, <1>10, <2>1 DEF ScanCondition, Scan
    <3> QED BY <1>1, <1>10, <3>1, SeenFresh DEF ScanCondition, Scanning
  <2>2. CASE ~cond_wakes(c, t)
    <3>1. Stuck(t)
      BY <1>10, <2>2 DEF ScanCondition, Stuck
    <3> QED BY <1>10, <2>2, <3>1, <1>4 DEF ScanCondition
  <2> QED BY <2>1, <2>2
<1>11. CASE ScanJoining
  <2>1. CASE join_completes(blocked_by[t].on)
    BY <1>11, <2>1, <1>3 DEF ScanJoining
  <2>2. CASE ~join_completes(blocked_by[t].on)
    <3>1. Stuck(t)
      BY <1>11, <2>2 DEF ScanJoining, Stuck, join_completes
    <3> QED BY <1>11, <2>2, <3>1, <1>4 DEF ScanJoining, objectVars
  <2> QED BY <2>1, <2>2
<1>12. CASE ScanStillDeferred
  <2>1. Stuck(t)
    BY <1>12 DEF ScanStillDeferred, Stuck
  <2> QED BY <1>12, <2>1, <1>4 DEF ScanStillDeferred, objectVars
<1>13. CASE ScanDeferredReturn \/ ScanSwitch \/ ScanHostSleep
  BY <1>13, SeenFresh DEF ScanDeferredReturn, ScanSwitch, ScanHostSleep, Scanning, ScanDone
<1>14. CASE ScanSemaphoreGone \/ ScanRelockPanics
  BY <1>14, SeenFresh DEF ScanSemaphoreGone, ScanRelockPanics, Panic
<1>15. CASE ScanDeadlock
  BY <1>15, SeenDeadlock
<1> QED BY <1>5, <1>6, <1>7, <1>8, <1>9, <1>10, <1>11, <1>12, <1>13, <1>14, <1>15
        DEF ScanStep

\* A library call, and a step of guest code or of a host function, is made
\* outside a scan; it ends there or starts a scan.
LEMMA SeenRunStep ==
    ASSUME SeenInv, LibraryCall \/ GuestStep \/ HostStep
    PROVE  SeenInv'
<1> USE DEF Running, Continue, Yield, BlockCurrent, Panic, schedVars
<1>1. ASSUME NEW h \in Handles,
             \/ pthread_mutex_init(h) \/ pthread_mutex_lock(h)
             \/ pthread_mutex_trylock(h) \/ pthread_mutex_unlock(h)
             \/ pthread_mutex_misuse(h) \/ pthread_mutex_destroy(h)
      PROVE  SeenInv'
  BY <1>1, SeenFresh DEF pthread_mutex_init, pthread_mutex_lock, pthread_mutex_trylock,
     pthread_mutex_unlock, pthread_mutex_misuse, pthread_mutex_destroy
<1>2. ASSUME NEW c \in Conds,
             \/ pthread_cond_init(c) \/ pthread_cond_signal(c)
             \/ pthread_cond_broadcast(c) \/ pthread_cond_destroy(c)
             \/ \E h \in Handles : pthread_cond_wait(c, h) \/ pthread_cond_misuse(c, h)
      PROVE  SeenInv'
  BY <1>2, SeenFresh DEF pthread_cond_init, pthread_cond_signal, pthread_cond_broadcast,
     pthread_cond_destroy, pthread_cond_wait, pthread_cond_misuse
<1>3. ASSUME NEW s \in Sems,
             sem_init(s) \/ sem_destroy(s) \/ sem_post(s) \/ sem_wait(s) \/ sem_misuse(s)
      PROVE  SeenInv'
  BY <1>3, SeenFresh DEF sem_init, sem_destroy, sem_post, sem_wait, sem_misuse
<1>4. ASSUME pthread_create \/ pthread_join_main \/ \E t \in Threads : pthread_join(t)
      PROVE  SeenInv'
  BY <1>4, SeenFresh DEF pthread_create, pthread_join_main, pthread_join
<1>5. CASE GuestStep
  BY <1>5, SeenFresh DEF GuestStep, Preempt, ThreadExit, MainThreadExit, TailSleep,
     GuestCall, ReturnToHost, PopActivation, DeferReturn
<1>6. CASE HostStep
  BY <1>6, SeenFresh DEF HostStep, HostCallsGuest, HostSleeps, HostReturns
<1> QED BY <1>1, <1>2, <1>3, <1>4, <1>5, <1>6 DEF LibraryCall

\* Every step preserves what the scan has seen.
LEMMA SeenNext ==
    ASSUME TypeOK, SchedInv, SeenInv, [Next]_vars
    PROVE  SeenInv'
<1>1. CASE LibraryCall
  BY <1>1, SeenRunStep
<1>2. ASSUME NEW t \in Threads, Tick(t)
      PROVE  SeenInv'
  <2>1. \A u : (Stuck(u)' = Stuck(u)) /\ (Seen(u) => Seen(u)')
    BY <1>2, SeenKept DEF Tick, threadVars, objectVars
  <2>2. \A j : candidate_at(j)' = candidate_at(j)
    BY <1>2 DEF Tick, threadVars, candidate_at
  <2> QED BY <1>2, <2>1, <2>2 DEF Tick, SeenInv, DeadlockIsReal
<1>3. CASE EnvironmentStep
  BY <1>2, <1>3, SeenRunStep, SeenScanStep DEF EnvironmentStep
<1>4. CASE Terminated \/ UNCHANGED vars
  <2>1. UNCHANGED vars
    BY <1>4 DEF Terminated
  <2>2. \A u : (Stuck(u)' = Stuck(u)) /\ (Seen(u) => Seen(u)')
    BY <2>1, SeenKept DEF vars, envVars
  <2>3. \A j : candidate_at(j)' = candidate_at(j)
    BY <2>1 DEF vars, envVars, candidate_at
  <2> QED BY <2>1, <2>2, <2>3 DEF vars, envVars, SeenInv, DeadlockIsReal
<1> QED BY <1>1, <1>3, <1>4 DEF Next

\* "No active threads, program has deadlocked!" is only said when nothing can
\* unblock any living thread (run_inner), for any number of threads: what the
\* scan saw of its first candidates still holds when it has seen the last.
THEOREM DeadlocksAreReal == Spec => []DeadlockIsReal
<1>1. Init => SeenInv
  BY DEF Init, EnvInit, SeenInv, DeadlockIsReal
<1>2. TypeInv /\ SchedInv /\ SeenInv /\ [Next]_vars => SeenInv'
  BY SeenNext DEF TypeInv
<1>3. SeenInv => DeadlockIsReal
  BY DEF SeenInv
<1> QED BY <1>1, <1>2, <1>3, SpecInv, PTL DEF Spec

----------------------------------------------------------------------------
(* The queues of the condition variables *)

\* The sequence q lists each element of S once.
Lists(q, S) ==
    /\ \A i, j \in 1 .. Len(q) : q[i] = q[j] => i = j
    /\ {q[i] : i \in 1 .. Len(q)} = S

\* A concatenation, index by index
LEMMA Concatenated ==
    ASSUME NEW T, NEW a \in Seq(T), NEW b \in Seq(T)
    PROVE  /\ a \o b \in Seq(T) /\ Len(a) \in Nat /\ Len(b) \in Nat
           /\ Len(a \o b) = Len(a) + Len(b)
           /\ \A i \in 1 .. Len(a \o b) :
                (a \o b)[i] = IF i <= Len(a) THEN a[i] ELSE b[i - Len(a)]
BY ConcatProperties, LenProperties

\* A thread that starts to wait is listed behind the other waiters.
LEMMA ListsWaiter ==
    ASSUME NEW T, NEW a \in Seq(T), NEW b \in Seq(T), NEW S, Lists(a \o b, S),
           NEW t \in T, t \notin S
    PROVE  Lists(Append(a, t) \o b, S \cup {t})
<1> DEFINE q == a \o b
           a1 == Append(a, t)
           r == a1 \o b
           k == Len(a)
           n == Len(q)
<1>1. a1 \in Seq(T) /\ Len(a1) = k + 1 /\ a1[k + 1] = t /\ \A i \in 1 .. k : a1[i] = a[i]
  BY Pushed
<1>2. k \in Nat /\ n \in Nat /\ k <= n /\ Len(b) = n - k
      /\ \A i \in 1 .. n : q[i] = IF i <= k THEN a[i] ELSE b[i - k]
  BY Concatenated
<1> HIDE DEF a1
<1>3. Len(r) = n + 1 /\ \A i \in 1 .. n + 1 : r[i] = IF i <= k + 1 THEN a1[i] ELSE b[i - (k + 1)]
  <2>1. Len(r) = Len(a1) + Len(b)
        /\ \A i \in 1 .. Len(r) : r[i] = IF i <= Len(a1) THEN a1[i] ELSE b[i - Len(a1)]
    BY <1>1, Concatenated
  <2> HIDE DEF q, k, n, r
  <2>2. Len(a1) + Len(b) = n + 1
    BY <1>1, <1>2
  <2> QED BY <1>1, <2>1, <2>2
<1>4. \A i \in 1 .. n : (\A j \in 1 .. n : q[i] = q[j] => i = j) /\ q[i] \in S
  BY DEF Lists
<1>5. \A x \in S : \E i \in 1 .. n : q[i] = x
  BY DEF Lists
<1> HIDE DEF q, k, n, r
<1>6. \A i \in 1 .. n + 1 :
        /\ i <= k => i \in 1 .. n /\ r[i] = q[i]
        /\ i = k + 1 => r[i] = t
        /\ i > k + 1 => i - 1 \in 1 .. n /\ r[i] = q[i - 1]
  <2> TAKE i \in 1 .. n + 1
  <2>1. CASE i <= k
    <3>1. i \in 1 .. n /\ i <= k + 1 /\ i \in 1 .. k
      BY <2>1, <1>2
    <3>2. r[i] = a1[i] /\ q[i] = a[i] /\ a1[i] = a[i]
      BY <2>1, <3>1, <1>1, <1>2, <1>3
    <3> QED BY <2>1, <3>1, <3>2, <1>2
  <2>2. CASE i = k + 1
    BY <2>2, <1>1, <1>2, <1>3
  <2>3. CASE i > k + 1
    <3>1. i - 1 \in 1 .. n /\ ~(i - 1 <= k) /\ (i - 1) - k = i - (k + 1) /\ ~(i <= k + 1)
      BY <2>3, <1>2
    <3>2. r[i] = b[i - (k + 1)] /\ q[i - 1] = b[(i - 1) - k]
      BY <3>1, <1>2, <1>3
    <3> QED BY <2>3, <1>2, <3>1, <3>2
  <2> QED BY <2>1, <2>2, <2>3, <1>2
<1>7. \A i, j \in 1 .. n + 1 : r[i] = r[j] => i = j
  <2> SUFFICES ASSUME NEW i \in 1 .. n + 1, NEW j \in 1 .. n + 1, r[i] = r[j], i < j
               PROVE  FALSE
    BY <1>2
  <2>1. CASE j <= k
    BY <2>1, <1>2, <1>4, <1>6
  <2>2. CASE j = k + 1
    BY <2>2, <1>2, <1>4, <1>6
  <2>3. CASE j > k + 1 /\ i <= k
    BY <2>3, <1>2, <1>4, <1>6
  <2>4. CASE j > k + 1 /\ i = k + 1
    <3>1. j - 1 \in 1 .. n /\ r[j] = q[j - 1] /\ r[i] = t
      BY <2>4, <1>6
    <3> QED BY <3>1, <1>4
  <2>5. CASE j > k + 1 /\ i > k + 1
    <3>1. /\ i - 1 \in 1 .. n /\ r[i] = q[i - 1]
          /\ j - 1 \in 1 .. n /\ r[j] = q[j - 1]
      BY <2>5, <1>6
    <3>2. i - 1 = j - 1
      BY <3>1, <1>4
    <3> QED BY <3>2, <1>2
  <2>6. k \in Nat /\ i \in Nat /\ j \in Nat
    BY <1>2
  <2> QED BY <2>1, <2>2, <2>3, <2>4, <2>5, <2>6
<1>8. ASSUME NEW i \in 1 .. n + 1 PROVE r[i] \in S \cup {t}
  BY <1>2, <1>4, <1>6
<1>9. ASSUME NEW x \in S \cup {t} PROVE \E i \in 1 .. n + 1 : r[i] = x
  <2>1. CASE x = t
    <3>1. k + 1 \in 1 .. n + 1
      BY <1>2
    <3> QED BY <2>1, <3>1, <1>6
  <2>2. CASE x \in S
    <3>1. PICK i \in 1 .. n : q[i] = x
      BY <2>2, <1>5
    <3>2. CASE i <= k
      BY <3>1, <3>2, <1>2, <1>6
    <3>3. CASE i > k
      <4>1. i + 1 \in 1 .. n + 1 /\ i + 1 > k + 1 /\ (i + 1) - 1 = i
        BY <3>3, <1>2
      <4> QED BY <3>1, <4>1, <1>6
    <3> QED BY <3>2, <3>3, <1>2
  <2> QED BY <2>1, <2>2
<1>10. Lists(r, S \cup {t})
  BY <1>3, <1>7, <1>8, <1>9 DEF Lists
<1> QED BY <1>10 DEF r, a1

\* The head of the queue of woken threads leaves it.
LEMMA ListsWoken ==
    ASSUME NEW T, NEW a \in Seq(T), NEW b \in Seq(T), NEW S, Lists(a \o b, S), b # << >>
    PROVE  Lists(a \o Tail(b), S \ {Head(b)}) /\ Head(b) \in S
<1> DEFINE q == a \o b
           b1 == Tail(b)
           r == a \o b1
           k == Len(a)
           n == Len(q)
<1>1. b1 \in Seq(T) /\ Len(b1) = Len(b) - 1 /\ Head(b) = b[1] /\ Len(b) \in Nat \ {0}
      /\ \A i \in 1 .. Len(b) - 1 : b1[i] = b[i + 1]
  BY HeadRest
<1>2. k \in Nat /\ n \in Nat /\ k < n /\ Len(b) = n - k
      /\ \A i \in 1 .. n : q[i] = IF i <= k THEN a[i] ELSE b[i - k]
  BY <1>1, Concatenated
<1> HIDE DEF b1
<1>3. Len(r) = n - 1 /\ \A i \in 1 .. n - 1 : r[i] = IF i <= k THEN a[i] ELSE b1[i - k]
  BY <1>1, <1>2, Concatenated
<1>4. \A i \in 1 .. n : (\A j \in 1 .. n : q[i] = q[j] => i = j) /\ q[i] \in S
  BY DEF Lists
<1>5. \A x \in S : \E i \in 1 .. n : q[i] = x
  BY DEF Lists
<1> HIDE DEF q, k, n, r
<1>6. q[k + 1] = Head(b) /\ k + 1 \in 1 .. n
  <2>1. k + 1 \in 1 .. n /\ ~(k + 1 <= k) /\ (k + 1) - k = 1
    BY <1>2
  <2> QED BY <2>1, <1>1, <1>2
<1>7. \A i \in 1 .. n - 1 :
        /\ i <= k => i \in 1 .. n /\ r[i] = q[i]
        /\ i > k => i + 1 \in 1 .. n /\ r[i] = q[i + 1]
  <2> TAKE i \in 1 .. n - 1
  <2>1. CASE i <= k
    BY <2>1, <1>2, <1>3
  <2>2. CASE i > k
    <3>1. i + 1 \in 1 .. n /\ ~(i + 1 <= k) /\ (i + 1) - k = (i - k) + 1
          /\ i - k \in 1 .. Len(b) - 1 /\ ~(i <= k)
      BY <2>2, <1>2
    <3>2. r[i] = b1[i - k] /\ q[i + 1] = b[(i + 1) - k] /\ b1[i - k] = b[(i - k) + 1]
      BY <3>1, <1>1, <1>2, <1>3
    <3> QED BY <2>2, <1>2, <3>1, <3>2
  <2> QED BY <2>1, <2>2, <1>2
<1>8. \A i, j \in 1 .. n - 1 : r[i] = r[j] => i = j
  <2> SUFFICES ASSUME NEW i \in 1 .. n - 1, NEW j \in 1 .. n - 1, r[i] = r[j], i < j
               PROVE  FALSE
    BY <1>2
  <2>1. CASE j <= k
    BY <2>1, <1>2, <1>4, <1>7
  <2>2. CASE j > k /\ i <= k
    BY <2>2, <1>2, <1>4, <1>7
  <2>3. CASE j > k /\ i > k
    BY <2>3, <1>2, <1>4, <1>7
  <2> QED BY <2>1, <2>2, <2>3, <1>2
<1>9. ASSUME NEW i \in 1 .. n - 1 PROVE r[i] \in S /\ r[i] # Head(b)
  <2>1. PICK j \in 1 .. n : r[i] = q[j] /\ j # k + 1
    BY <1>2, <1>7
  <2> QED BY <2>1, <1>4, <1>6
<1>10. ASSUME NEW x \in S, x # Head(b) PROVE \E i \in 1 .. n - 1 : r[i] = x
  <2>1. PICK i \in 1 .. n : q[i] = x
    BY <1>5
  <2>2. i # k + 1
    BY <2>1, <1>6, <1>10
  <2>3. CASE i <= k
    BY <2>1, <2>3, <1>2, <1>7
  <2>4. CASE i > k + 1
    <3>1. i - 1 \in 1 .. n - 1 /\ i - 1 > k /\ (i - 1) + 1 = i
      BY <2>4, <1>2
    <3> QED BY <2>1, <3>1, <1>7
  <2> QED BY <2>2, <2>3, <2>4, <1>2
<1>11. Lists(r, S \ {Head(b)})
  BY <1>3, <1>8, <1>9, <1>10 DEF Lists
<1> QED BY <1>4, <1>6, <1>11 DEF r, b1

\* The first n waiters are signalled: they move behind the woken threads.
LEMMA ListsMoved ==
    ASSUME NEW T, NEW a \in Seq(T), NEW b \in Seq(T), NEW S, Lists(a \o b, S),
           NEW m \in Nat, m <= Len(a)
    PROVE  Lists(SubSeq(a, m + 1, Len(a)) \o (b \o SubSeq(a, 1, m)), S)
<1> DEFINE q == a \o b
           back == SubSeq(a, m + 1, Len(a))
           front == SubSeq(a, 1, m)
           woken == b \o front
           r == back \o woken
           k == Len(a)
           n == Len(q)
<1>1. k \in Nat /\ m <= k /\ \A i \in 1 .. k : a[i] \in T
  BY LenProperties
<1>2. front \in Seq(T) /\ Len(front) = m /\ \A i \in 1 .. m : front[i] = a[i]
  BY <1>1, SubSeqProperties
<1>3. back \in Seq(T) /\ Len(back) = k - m /\ \A i \in 1 .. k - m : back[i] = a[i + m]
  <2>1. \A i \in m + 1 .. k : a[i] \in T
    BY <1>1
  <2>2. /\ back \in Seq(T)
        /\ Len(back) = IF m + 1 <= k THEN k - (m + 1) + 1 ELSE 0
        /\ \A i \in 1 .. k - (m + 1) + 1 : back[i] = a[(m + 1) + i - 1]
    BY <1>1, <2>1, SubSeqProperties
  <2> HIDE DEF back, k
  <2>3. (k - (m + 1) + 1 = k - m) /\ (m + 1 > k => k - m = 0)
    BY <1>1
  <2>4. \A i \in 1 .. k - m : (m + 1) + i - 1 = i + m
    BY <1>1
  <2> QED BY <1>1, <2>2, <2>3, <2>4
<1>4. n \in Nat /\ k <= n /\ Len(b) = n - k
      /\ \A i \in 1 .. n : q[i] = IF i <= k THEN a[i] ELSE b[i - k]
  BY <1>1, Concatenated
<1> HIDE DEF back, front
<1>5. woken \in Seq(T) /\ Len(woken) = (n - k) + m
      /\ \A i \in 1 .. (n - k) + m : woken[i] = IF i <= n - k THEN b[i] ELSE front[i - (n - k)]
  <2>1. /\ woken \in Seq(T) /\ Len(woken) = Len(b) + Len(front)
        /\ \A i \in 1 .. Len(woken) : woken[i] = IF i <= Len(b) THEN b[i] ELSE front[i - Len(b)]
    BY <1>2, Concatenated
  <2> HIDE DEF q, k, n, r, woken
  <2>2. Len(b) + Len(front) = (n - k) + m
    BY <1>2, <1>4
  <2> QED BY <1>4, <2>1, <2>2
<1> HIDE DEF woken
<1>6. Len(r) = n
      /\ \A i \in 1 .. n : r[i] = IF i <= k - m THEN back[i] ELSE woken[i - (k - m)]
  <2>1. /\ Len(r) = Len(back) + Len(woken)
        /\ \A i \in 1 .. Len(r) : r[i] = IF i <= Len(back) THEN back[i] ELSE woken[i - Len(back)]
    BY <1>3, <1>5, Concatenated
  <2> HIDE DEF q, k, n, r
  <2>2. Len(back) + Len(woken) = n
    BY <1>1, <1>3, <1>4, <1>5
  <2> QED BY <1>3, <2>1, <2>2
<1>7. \A i \in 1 .. n : (\A j \in 1 .. n : q[i] = q[j] => i = j) /\ q[i] \in S
  BY DEF Lists
<1>8. \A x \in S : \E i \in 1 .. n : q[i] = x
  BY DEF Lists
<1>9. m <= k
  OBVIOUS
<1> HIDE DEF q, k, n, r
<1>10. \A i \in 1 .. n :
         /\ i <= n - m => i + m \in 1 .. n /\ r[i] = q[i + m]
         /\ i > n - m => i - (n - m) \in 1 .. n /\ r[i] = q[i - (n - m)]
  <2> TAKE i \in 1 .. n
  <2>1. CASE i <= k - m
    <3>1. i + m \in 1 .. n /\ i + m <= k /\ i \in 1 .. k - m /\ i <= n - m
      BY <2>1, <1>1, <1>4, <1>9
    <3>2. r[i] = back[i] /\ back[i] = a[i + m] /\ q[i + m] = a[i + m]
      BY <2>1, <3>1, <1>3, <1>4, <1>6
    <3>3. ~(i > n - m)
      BY <3>1, <1>1, <1>4
    <3> QED BY <3>1, <3>2, <3>3
  <2>2. CASE i > k - m /\ i <= n - m
    <3>1. /\ i + m \in 1 .. n /\ ~(i + m <= k) /\ ~(i <= k - m)
          /\ i - (k - m) \in 1 .. (n - k) + m /\ i - (k - m) <= n - k
          /\ i - (k - m) = (i + m) - k
      BY <2>2, <1>1, <1>4, <1>9
    <3>2. r[i] = b[i - (k - m)] /\ q[i + m] = b[(i + m) - k]
      BY <3>1, <1>4, <1>5, <1>6
    <3> QED BY <2>2, <3>1, <3>2, <1>1, <1>4
  <2>3. CASE i > n - m
    <3>1. /\ i - (n - m) \in 1 .. n /\ i - (n - m) <= k /\ ~(i <= k - m)
          /\ i - (k - m) \in 1 .. (n - k) + m /\ ~(i - (k - m) <= n - k)
          /\ (i - (k - m)) - (n - k) = i - (n - m)
          /\ i - (n - m) \in 1 .. m
      BY <2>3, <1>1, <1>4, <1>9
    <3>2. r[i] = front[(i - (k - m)) - (n - k)] /\ q[i - (n - m)] = a[i - (n - m)]
      BY <3>1, <1>4, <1>5, <1>6
    <3> QED BY <2>3, <3>1, <3>2, <1>1, <1>2, <1>4
  <2> QED BY <2>1, <2>2, <2>3, <1>1, <1>4
<1>11. \A i, j \in 1 .. n : r[i] = r[j] => i = j
  <2> SUFFICES ASSUME NEW i \in 1 .. n, NEW j \in 1 .. n, r[i] = r[j], i < j
               PROVE  FALSE
    BY <1>4
  <2>1. CASE j <= n - m
    BY <2>1, <1>4, <1>7, <1>10
  <2>2. CASE j > n - m /\ i <= n - m
    BY <2>2, <1>4, <1>7, <1>9, <1>10
  <2>3. CASE i > n - m
    BY <2>3, <1>4, <1>7, <1>10
  <2> QED BY <2>1, <2>2, <2>3, <1>4
<1>12. ASSUME NEW i \in 1 .. n PROVE r[i] \in S
  BY <1>4, <1>7, <1>10
<1>13. ASSUME NEW x \in S PROVE \E i \in 1 .. n : r[i] = x
  <2>1. PICK i \in 1 .. n : q[i] = x
    BY <1>8
  <2>2. CASE i <= m
    <3>1. /\ i + (n - m) \in 1 .. n /\ i + (n - m) > n - m
          /\ (i + (n - m)) - (n - m) = i
      BY <2>2, <1>4, <1>9, <1>1
    <3> QED BY <2>1, <3>1, <1>10
  <2>3. CASE i > m
    <3>1. i - m \in 1 .. n /\ i - m <= n - m /\ (i - m) + m = i
      BY <2>3, <1>4
    <3> QED BY <2>1, <3>1, <1>10
  <2> QED BY <2>2, <2>3, <1>4
<1>14. Lists(r, S)
  <2>1. Len(r) = n
    BY <1>6
  <2>2. {r[i] : i \in 1 .. n} = S
    BY <1>12, <1>13
  <2> QED BY <2>1, <2>2, <1>11 DEF Lists
<1> QED BY <1>14 DEF r, woken, back, front

\* The threads that are blocked on a condition variable
CondWaiters(c) == {t \in Threads : blocked_by[t] = BlockedOn("Condition", c)}

CondIdle(c) == conds[c].waiting = << >> /\ conds[c].waking = << >>

\* The inductive invariant of the queues: they list the blocked threads, and a
\* condition variable that is not initialised has none.
QueueInv ==
    \A c \in Conds :
        /\ Lists(conds[c].waiting \o conds[c].waking, CondWaiters(c))
        /\ ~conds[c].live => CondIdle(c)

\* The queues of condition variables in one formula
LEMMA QueuesListWaiters == QueueInv => CondQueuesExact
BY DEF QueueInv, CondQueuesExact, Lists, CondWaiters

\* A step that changes no condition variable and what blocks a thread only from
\* and to other things.
LEMMA QueuesSame ==
    ASSUME QueueInv, UNCHANGED conds,
           \A t \in Threads, c \in Conds :
               blocked_by'[t] = BlockedOn("Condition", c)
               <=> blocked_by[t] = BlockedOn("Condition", c)
    PROVE  QueueInv'
<1>1. \A c \in Conds : CondWaiters(c)' = CondWaiters(c)
  BY DEF CondWaiters
<1> QED BY <1>1 DEF QueueInv, CondIdle

\* The same for a thread i that was not blocked on a condition variable and is
\* not afterwards.
LEMMA QueuesElsewhere ==
    ASSUME TypeOK, QueueInv, UNCHANGED conds, NEW i \in Threads, NEW b,
           blocked_by[i].by # "Condition", b.by # "Condition",
           blocked_by' = [blocked_by EXCEPT ![i] = b]
    PROVE  QueueInv'
<1>1. \A t \in Threads : blocked_by'[t] = IF t = i THEN b ELSE blocked_by[t]
  BY DEF TypeOK
<1>2. \A c : BlockedOn("Condition", c).by = "Condition"
  BY DEF BlockedOn
<1> QED BY <1>1, <1>2, QueuesSame

\* The running thread is not blocked on anything.
LEMMA RunnerWaitsNowhere ==
    ASSUME TypeOK, SchedInv, phase \in {"guest", "host"}
    PROVE  current_thread \in Threads /\ blocked_by[current_thread].by # "Condition"
BY DEF TypeOK, SchedInv, RunsOnlyUnblocked, NotBlocked

\* A step of the running thread that blocks it on something else
LEMMA QueuesBlock ==
    ASSUME TypeOK, SchedInv, QueueInv, UNCHANGED conds, phase \in {"guest", "host"},
           NEW b, b.by # "Condition", BlockCurrent(b)
    PROVE  QueueInv'
BY RunnerWaitsNowhere, QueuesElsewhere DEF BlockCurrent

\* The queues after a call or step on the condition variable c alone
LEMMA QueuesOfOne ==
    ASSUME QueueInv, NEW c \in Conds,
           \A d \in Conds \ {c} : conds'[d] = conds[d] /\ CondWaiters(d)' = CondWaiters(d),
           Lists(conds'[c].waiting \o conds'[c].waking, CondWaiters(c)'),
           ~conds'[c].live => conds'[c].waiting = << >> /\ conds'[c].waking = << >>
    PROVE  QueueInv'
BY DEF QueueInv, CondIdle

\* Signalling and broadcasting move waiters without losing or doubling one.
LEMMA QueuesMoved ==
    ASSUME TypeOK, QueueInv, NEW c \in Conds, NEW n \in Nat,
           n <= Len(conds[c].waiting), conds[c].live,
           conds' = moved_to_waking(c, n), UNCHANGED blocked_by
    PROVE  QueueInv'
<1> DEFINE w == conds[c].waiting
           k == conds[c].waking
           back == SubSeq(w, n + 1, Len(w))
           front == SubSeq(w, 1, n)
           woken == k \o front
<1>1. conds \in [Conds -> Cond] /\ conds[c] \in Cond
      /\ w \in Seq(Threads) /\ k \in Seq(Threads)
  BY DEF TypeOK, Cond
<1>2. Lists(w \o k, CondWaiters(c)) /\ \A d \in Conds : CondWaiters(d)' = CondWaiters(d)
  BY DEF QueueInv, CondWaiters
<1>3. Lists(back \o woken, CondWaiters(c))
  BY <1>1, <1>2, ListsMoved
<1>4. conds' = [conds EXCEPT ![c] = [conds[c] EXCEPT !.waiting = back, !.waking = woken]]
  BY DEF moved_to_waking
<1> HIDE DEF back, woken
<1>5. /\ conds'[c] = [conds[c] EXCEPT !.waiting = back, !.waking = woken]
      /\ \A d \in Conds \ {c} : conds'[d] = conds[d]
  BY <1>1, <1>4
<1>6. conds'[c].waiting = back /\ conds'[c].waking = woken /\ conds'[c].live = conds[c].live
  BY <1>1, <1>5 DEF Cond
<1> QED BY <1>2, <1>3, <1>5, <1>6, QueuesOfOne

\* A thread that waits is listed.
LEMMA QueuesWait ==
    ASSUME TypeOK, SchedInv, QueueInv, NEW c \in Conds, NEW h \in Handles,
           pthread_cond_wait(c, h)
    PROVE  QueueInv'
<1> DEFINE t == current_thread
           w == conds[c].waiting
           k == conds[c].waking
           m == handles[h].id
           w1 == Append(w, t)
<1>1. conds \in [Conds -> Cond] /\ conds[c] \in Cond /\ t \in Threads
      /\ w \in Seq(Threads) /\ k \in Seq(Threads)
  BY DEF TypeOK, Cond
<1>2. blocked_by[t].by # "Condition"
  BY RunnerWaitsNowhere DEF pthread_cond_wait, Running
<1>3. t \notin CondWaiters(c) /\ Lists(w \o k, CondWaiters(c))
  BY <1>2 DEF CondWaiters, BlockedOn, QueueInv
<1>4. Lists(w1 \o k, CondWaiters(c) \cup {t})
  BY <1>1, <1>3, ListsWaiter
<1>5. conds' = [conds EXCEPT ![c].curr_mutex = m, ![c].waiting = w1]
      /\ conds[c].live
  BY DEF pthread_cond_wait
<1> HIDE DEF w1, m
<1>6. /\ conds'[c].waiting = w1 /\ conds'[c].waking = k /\ conds'[c].live
      /\ \A d \in Conds \ {c} : conds'[d] = conds[d]
  BY <1>1, <1>5 DEF Cond
<1>7. \A u \in Threads : blocked_by'[u] = IF u = t THEN BlockedOn("Condition", c) ELSE blocked_by[u]
  BY DEF pthread_cond_wait, BlockCurrent, TypeOK
<1>8. CondWaiters(c)' = CondWaiters(c) \cup {t}
  BY <1>1, <1>7 DEF CondWaiters
<1>9. \A d \in Conds \ {c} : CondWaiters(d)' = CondWaiters(d)
  BY <1>1, <1>2, <1>7 DEF CondWaiters, BlockedOn
<1> QED BY <1>4, <1>6, <1>8, <1>9, QueuesOfOne

\* The scan wakes the head of a queue and takes it off.
LEMMA QueuesScan ==
    ASSUME TypeOK, SchedInv, QueueInv, ScanCondition,
           NEW t \in Threads, t = candidate, NEW c \in Conds, c = blocked_by[t].on
    PROVE  QueueInv'
<1> DEFINE w == conds[c].waiting
           k == conds[c].waking
           k1 == Tail(k)
<1>1. blocked_by[t].by = "Condition"
  BY DEF ScanCondition
<1>2. CASE ~cond_wakes(c, t)
  BY <1>2, QueuesSame DEF ScanCondition
<1>3. CASE cond_wakes(c, t)
  <2>1. conds \in [Conds -> Cond] /\ conds[c] \in Cond
        /\ w \in Seq(Threads) /\ k \in Seq(Threads)
    BY <1>1 DEF TypeOK, Cond
  <2>2. k # << >> /\ Head(k) = t
    BY <1>3 DEF cond_wakes
  <2>3. Lists(w \o k, CondWaiters(c))
    BY <1>1 DEF QueueInv
  <2>4. Lists(w \o k1, CondWaiters(c) \ {t})
    BY <2>1, <2>2, <2>3, ListsWoken
  <2>5. conds[c].live
    BY <1>1, <2>2 DEF QueueInv, CondIdle
  <2>6. /\ conds' = [conds EXCEPT ![c].waking = k1]
        /\ blocked_by' = [blocked_by EXCEPT ![t] = NotBlocked]
    BY <1>3 DEF ScanCondition
  <2> HIDE DEF k1
  <2>7. blocked_by[t] = BlockedOn("Condition", c)
    BY <1>1 DEF TypeOK, ThreadBlock, BlockedOn
  <2>8. \A u \in Threads : blocked_by'[u] = IF u = t THEN NotBlocked ELSE blocked_by[u]
    BY <1>1, <2>6 DEF TypeOK
  <2>9. /\ conds'[c].waiting = w /\ conds'[c].waking = k1 /\ conds'[c].live
        /\ \A d \in Conds \ {c} : conds'[d] = conds[d]
    BY <1>1, <2>1, <2>5, <2>6 DEF Cond
  <2>10. \A d : NotBlocked # BlockedOn("Condition", d)
    BY DEF NotBlocked, BlockedOn
  <2>11. CondWaiters(c)' = CondWaiters(c) \ {t}
    BY <2>8, <2>10 DEF CondWaiters
  <2>12. \A d \in Conds \ {c} : BlockedOn("Condition", d) # BlockedOn("Condition", c)
    BY DEF BlockedOn
  <2>13. \A d \in Conds \ {c} : CondWaiters(d)' = CondWaiters(d)
    BY <2>7, <2>8, <2>10, <2>12 DEF CondWaiters
  <2> QED BY <2>4, <2>9, <2>11, <2>13, QueuesOfOne
<1> QED BY <1>2, <1>3

\* Steps of the scan, and the rest of the steps
LEMMA QueuesScanStep ==
    ASSUME TypeOK, SchedInv, QueueInv, ScanStep
    PROVE  QueueInv'
<1> DEFINE t == candidate
<1>1. t \in Threads
  BY CandidateType
<1>2. NotBlocked.by # "Condition"
  BY DEF NotBlocked
<1>3. ASSUME UNCHANGED <<conds, blocked_by>>
      PROVE  QueueInv'
  BY <1>3, QueuesSame
<1>4. ASSUME UNCHANGED conds, blocked_by[t].by # "Condition",
             blocked_by' = [blocked_by EXCEPT ![t] = NotBlocked]
      PROVE  QueueInv'
  BY <1>1, <1>2, <1>4, QueuesElsewhere
<1> HIDE DEF t
<1>5. CASE ScanSkip \/ ScanStillDeferred \/ ScanHostSleep \/ ScanSwitch
  BY <1>3, <1>5 DEF ScanSkip, ScanStillDeferred, ScanHostSleep, ScanSwitch, objectVars
<1>6. CASE ScanSemaphoreGone \/ ScanRelockPanics \/ ScanDeadlock
  BY <1>3, <1>6 DEF ScanSemaphoreGone, ScanRelockPanics, ScanDeadlock, Panic
<1>7. CASE ScanNotBlocked
  BY <1>4, <1>7 DEF ScanNotBlocked, PickAndBreak, objectVars, t
<1>8. CASE ScanSleeping
  BY <1>3, <1>4, <1>8 DEF ScanSleeping, PickAndBreak, objectVars, t
<1>9. CASE ScanMutex
  BY <1>3, <1>4, <1>9 DEF ScanMutex, objectVars, t
<1>10. CASE ScanSemaphore
  BY <1>3, <1>4, <1>10 DEF ScanSemaphore, PickAndBreak, t
<1>11. CASE ScanJoining
  BY <1>3, <1>4, <1>11 DEF ScanJoining, PickAndBreak, objectVars, t
<1>12. CASE ScanDeferredReturn
  BY <1>4, <1>12 DEF ScanDeferredReturn, objectVars, t
<1>13. CASE ScanCondition
  <2>1. blocked_by[t].on \in Conds
    BY <1>1, <1>13 DEF ScanCondition, TypeOK, BlockedOnKnown, t
  <2>2. \E u \in Threads : u = t
    BY <1>1
  <2>3. \E c \in Conds : c = blocked_by[t].on
    BY <2>1
  <2> QED BY <1>13, <2>2, <2>3, QueuesScan DEF t
<1> QED BY <1>5, <1>6, <1>7, <1>8, <1>9, <1>10, <1>11, <1>12, <1>13 DEF ScanStep

\* The scheduler's steps keep the queues exact.
LEMMA QueuesRunStep ==
    ASSUME TypeOK, SchedInv, QueueInv, HostStep \/ GuestStep
    PROVE  QueueInv'
<1>1. \A x : /\ BlockedOn("Sleeping", x).by # "Condition"
             /\ BlockedOn("DeferredReturn", x).by # "Condition"
  BY DEF BlockedOn
<1>2. CASE HostSleeps \/ TailSleep \/ DeferReturn
  BY <1>1, <1>2, QueuesBlock DEF HostSleeps, TailSleep, DeferReturn, Running, objectVars
<1>3. ASSUME UNCHANGED <<conds, blocked_by>>
      PROVE  QueueInv'
  BY <1>3, QueuesSame
<1>4. CASE HostCallsGuest \/ HostReturns \/ GuestCall \/ ReturnToHost
  BY <1>3, <1>4 DEF HostCallsGuest, HostReturns, GuestCall, ReturnToHost, objectVars
<1>5. CASE Preempt \/ ThreadExit \/ MainThreadExit
  BY <1>3, <1>5 DEF Preempt, ThreadExit, MainThreadExit, Panic, objectVars
<1> QED BY <1>2, <1>4, <1>5 DEF HostStep, GuestStep

\* Initialising or destroying a condition variable without waiters
LEMMA QueuesReset ==
    ASSUME TypeOK, QueueInv, NEW c \in Conds, CondIdle(c), NEW r,
           r.waiting = << >>, r.waking = << >>,
           conds' = [conds EXCEPT ![c] = r], UNCHANGED blocked_by
    PROVE  QueueInv'
<1>1. conds'[c] = r /\ \A d \in Conds \ {c} : conds'[d] = conds[d]
  BY DEF TypeOK
<1>2. \A d \in Conds : CondWaiters(d)' = CondWaiters(d)
  BY DEF CondWaiters
<1>3. Lists(conds[c].waiting \o conds[c].waking, CondWaiters(c))
  BY DEF QueueInv
<1>4. Lists(conds'[c].waiting \o conds'[c].waking, CondWaiters(c))
  BY <1>1, <1>3 DEF CondIdle
<1> QED BY <1>1, <1>2, <1>4, QueuesOfOne

\* So does every call of the pthread library,
LEMMA QueuesLibraryCall ==
    ASSUME TypeOK, SchedInv, QueueInv, LibraryCall
    PROVE  QueueInv'
<1> USE DEF Running, Panic
<1>1. \A x : /\ BlockedOn("Mutex", x).by # "Condition"
             /\ BlockedOn("Semaphore", x).by # "Condition"
             /\ BlockedOn("Joining", x).by # "Condition"
  BY DEF BlockedOn
<1>2. ASSUME UNCHANGED <<conds, blocked_by>>
      PROVE  QueueInv'
  BY <1>2, QueuesSame
<1>3. ASSUME NEW h \in Handles,
             \/ pthread_mutex_init(h) \/ pthread_mutex_trylock(h)
             \/ pthread_mutex_unlock(h) \/ pthread_mutex_misuse(h)
             \/ pthread_mutex_destroy(h)
      PROVE  QueueInv'
  BY <1>2, <1>3 DEF pthread_mutex_init, pthread_mutex_trylock,
     pthread_mutex_unlock, pthread_mutex_misuse, pthread_mutex_destroy
<1>4. ASSUME NEW h \in Handles, pthread_mutex_lock(h)
      PROVE  QueueInv'
  <2>1. CASE lock_outcome(TableFor(h), MutexOf(h), current_thread) = "blocks"
    BY <1>1, <1>4, <2>1, QueuesBlock DEF pthread_mutex_lock
  <2>2. CASE lock_outcome(TableFor(h), MutexOf(h), current_thread) # "blocks"
    BY <1>2, <1>4, <2>2 DEF pthread_mutex_lock
  <2> QED BY <2>1, <2>2
<1>5. ASSUME NEW c \in Conds, pthread_cond_init(c)
      PROVE  QueueInv'
  <2> DEFINE r == [NoCond EXCEPT !.live = TRUE]
  <2>1. r.waiting = << >> /\ r.waking = << >>
    BY DEF NoCond
  <2>2. CondIdle(c) /\ conds' = [conds EXCEPT ![c] = r] /\ UNCHANGED blocked_by
    BY <1>5 DEF pthread_cond_init, QueueInv
  <2> HIDE DEF r
  <2> QED BY <2>1, <2>2, QueuesReset
<1>6. ASSUME NEW c \in Conds, pthread_cond_destroy(c)
      PROVE  QueueInv'
  <2>1. CASE cond_is_idle(c)
    <3>1. NoCond.waiting = << >> /\ NoCond.waking = << >>
      BY DEF NoCond
    <3> QED BY <1>6, <2>1, <3>1, QueuesReset DEF pthread_cond_destroy, cond_is_idle, CondIdle
  <2>2. CASE ~cond_is_idle(c)
    BY <1>2, <1>6, <2>2 DEF pthread_cond_destroy
  <2> QED BY <2>1, <2>2
<1>7. ASSUME NEW c \in Conds, pthread_cond_signal(c) \/ pthread_cond_broadcast(c)
      PROVE  QueueInv'
  <2>1. conds[c].waiting \in Seq(Threads) /\ conds[c].waiting # << >>
    BY <1>7 DEF TypeOK, Cond, pthread_cond_signal, pthread_cond_broadcast
  <2>2. Len(conds[c].waiting) \in Nat /\ 1 <= Len(conds[c].waiting)
    BY <2>1, FrontLast
  <2>3. CASE pthread_cond_signal(c)
    BY <2>2, <2>3, QueuesMoved DEF pthread_cond_signal
  <2>4. CASE pthread_cond_broadcast(c)
    BY <2>2, <2>4, QueuesMoved DEF pthread_cond_broadcast
  <2> QED BY <1>7, <2>3, <2>4
<1>8. ASSUME NEW c \in Conds, NEW h \in Handles,
             pthread_cond_wait(c, h) \/ pthread_cond_misuse(c, h)
      PROVE  QueueInv'
  BY <1>2, <1>8, QueuesWait DEF pthread_cond_misuse
<1>9. ASSUME NEW s \in Sems,
             sem_init(s) \/ sem_destroy(s) \/ sem_post(s) \/ sem_misuse(s)
      PROVE  QueueInv'
  BY <1>2, <1>9 DEF sem_init, sem_destroy, sem_post, sem_misuse
<1>10. ASSUME NEW s \in Sems, sem_wait(s)
       PROVE  QueueInv'
  <2>1. CASE sems[s].value > 0
    BY <1>2, <1>10, <2>1 DEF sem_wait
  <2>2. CASE ~(sems[s].value > 0)
    BY <1>1, <1>10, <2>2, QueuesBlock DEF sem_wait
  <2> QED BY <2>1, <2>2
<1>11. CASE pthread_create \/ pthread_join_main
  BY <1>2, <1>11 DEF pthread_create, pthread_join_main, objectVars
<1>12. ASSUME NEW t \in Threads, pthread_join(t)
       PROVE  QueueInv'
  BY <1>1, <1>12, QueuesBlock DEF pthread_join, objectVars
<1> QED BY <1>3, <1>4, <1>5, <1>6, <1>7, <1>8, <1>9, <1>10, <1>11, <1>12 DEF LibraryCall

\* and so every step of the program,
LEMMA QueuesNext ==
    ASSUME TypeOK, SchedInv, QueueInv, [Next]_vars
    PROVE  QueueInv'
<1>1. CASE LibraryCall
  BY <1>1, QueuesLibraryCall
<1>2. CASE EnvironmentStep
  <2>1. CASE \E t \in Threads : Tick(t)
    BY <2>1, QueuesSame DEF Tick, objectVars
  <2> QED BY <1>2, <2>1, QueuesScanStep, QueuesRunStep DEF EnvironmentStep
<1>3. CASE Terminated \/ UNCHANGED vars
  BY <1>3, QueuesSame DEF Terminated, vars, envVars
<1> QED BY <1>1, <1>2, <1>3 DEF Next

\* whose first state has no waiters at all.
LEMMA QueuesInit == Init => QueueInv
<1> SUFFICES ASSUME Init, NEW c \in Conds
             PROVE  /\ Lists(conds[c].waiting \o conds[c].waking, CondWaiters(c))
                    /\ ~conds[c].live => CondIdle(c)
  BY DEF QueueInv
<1>1. conds[c].waiting = << >> /\ conds[c].waking = << >>
  BY DEF Init, EnvInit, NoCond
<1>2. CondWaiters(c) = {}
  BY DEF Init, EnvInit, CondWaiters, NotBlocked, BlockedOn
<1>3. << >> \o << >> \in Seq(Threads) /\ Len(<< >> \o << >>) = 0
  BY Concatenated, EmptySeq
<1>4. Lists(<< >> \o << >>, {})
  BY <1>3 DEF Lists
<1> QED BY <1>1, <1>2, <1>4 DEF CondIdle

\* A thread blocked in pthread_cond_wait is in exactly one of the two queues of
\* its condition variable, once, and nobody else is: whatever waits, signals,
\* broadcasts, destructions and wake-ups interleave, no wake-up is lost or
\* given twice.
THEOREM NoWakeupLost == Spec => []CondQueuesExact
<1>1. TypeInv /\ SchedInv /\ QueueInv /\ [Next]_vars => QueueInv'
  BY QueuesNext DEF TypeInv
<1> QED BY <1>1, QueuesInit, QueuesListWaiters, SpecInv, PTL DEF Spec

----------------------------------------------------------------------------
(* Wake-ups are earned *)

\* What a step may do to the threads blocked on semaphores and in joins
Earned ==
    /\ \A s \in Sems, t \in Threads :
         blocked_by[t] = BlockedOn("Semaphore", s) /\ blocked_by'[t] = NotBlocked
         => /\ sems'[s].value = sems[s].value - 1
            /\ \A u \in Threads \ {t} : blocked_by'[u] = blocked_by[u]
    /\ \A t, u \in Threads :
         blocked_by[t] = BlockedOn("Joining", u) /\ blocked_by'[t] = NotBlocked
         => ~active[u]

\* A step that wakes nobody
LEMMA EarnedSame ==
    ASSUME UNCHANGED blocked_by
    PROVE  Earned
BY DEF Earned, BlockedOn, NotBlocked

\* A step that changes what blocks a thread i that waits for something else
LEMMA EarnedElsewhere ==
    ASSUME TypeOK, NEW i \in Threads, blocked_by[i].by \notin {"Semaphore", "Joining"},
           NEW b, blocked_by' = [blocked_by EXCEPT ![i] = b]
    PROVE  Earned
<1>1. \A t \in Threads \ {i} : blocked_by'[t] = blocked_by[t]
  BY DEF TypeOK
<1> QED BY <1>1 DEF Earned, BlockedOn, NotBlocked

\* The running thread blocks itself.
LEMMA EarnedBlock ==
    ASSUME TypeOK, SchedInv, phase \in {"guest", "host"}, NEW b, BlockCurrent(b)
    PROVE  Earned
<1>1. current_thread \in Threads
      /\ blocked_by[current_thread].by \notin {"Semaphore", "Joining"}
  BY DEF TypeOK, SchedInv, RunsOnlyUnblocked, NotBlocked
<1> QED BY <1>1, EarnedElsewhere DEF BlockCurrent

\* The scan takes one unit for the one waiter it wakes.
LEMMA EarnedUnit ==
    ASSUME TypeOK, ScanSemaphore, NEW t \in Threads, t = candidate,
           NEW s \in Sems, s = blocked_by[t].on
    PROVE  Earned
<1>1. CASE ~sem_available(s)
  BY <1>1, EarnedSame DEF ScanSemaphore
<1>2. CASE sem_available(s)
  <2>1. /\ blocked_by' = [blocked_by EXCEPT ![t] = NotBlocked]
        /\ sems' = [sems EXCEPT ![s].value = @ - 1]
        /\ blocked_by[t].by = "Semaphore"
    BY <1>2 DEF ScanSemaphore, PickAndBreak, sem_taken
  <2>2. \A u \in Threads \ {t} : blocked_by'[u] = blocked_by[u]
    BY <2>1 DEF TypeOK
  <2>3. sems'[s].value = sems[s].value - 1
    BY <2>1 DEF TypeOK, Sem
  <2>4. \A r : blocked_by[t] = BlockedOn("Semaphore", r) => r = s
    BY DEF BlockedOn
  <2>5. \A r : blocked_by[t] # BlockedOn("Joining", r)
    BY <2>1 DEF BlockedOn
  <2>6. \A r : BlockedOn("Semaphore", r) # NotBlocked /\ BlockedOn("Joining", r) # NotBlocked
    BY DEF BlockedOn, NotBlocked
  <2> QED BY <2>2, <2>3, <2>4, <2>5, <2>6 DEF Earned
<1> QED BY <1>1, <1>2

\* The scan lets a join return once the thread joined is no longer active.
LEMMA EarnedJoin ==
    ASSUME TypeOK, ScanJoining, NEW t \in Threads, t = candidate
    PROVE  Earned
<1>1. CASE ~join_completes(blocked_by[t].on)
  BY <1>1, EarnedSame DEF ScanJoining
<1>2. CASE join_completes(blocked_by[t].on)
  <2>1. /\ blocked_by' = [blocked_by EXCEPT ![t] = NotBlocked]
        /\ ~active[blocked_by[t].on]
        /\ blocked_by[t].by = "Joining"
    BY <1>2 DEF ScanJoining, PickAndBreak, join_completes
  <2>2. \A u \in Threads \ {t} : blocked_by'[u] = blocked_by[u]
    BY <2>1 DEF TypeOK
  <2>3. \A r : blocked_by[t] = BlockedOn("Joining", r) => r = blocked_by[t].on
    BY DEF BlockedOn
  <2>4. \A r : blocked_by[t] # BlockedOn("Semaphore", r)
    BY <2>1 DEF BlockedOn
  <2>5. \A r : BlockedOn("Semaphore", r) # NotBlocked /\ BlockedOn("Joining", r) # NotBlocked
    BY DEF BlockedOn, NotBlocked
  <2> QED BY <2>1, <2>2, <2>3, <2>4, <2>5 DEF Earned
<1> QED BY <1>1, <1>2

\* Threads that the scan wakes have earned it.
LEMMA EarnedScanStep ==
    ASSUME TypeOK, SchedInv, ScanStep
    PROVE  Earned
<1> DEFINE t == candidate
<1>1. t \in Threads
  BY CandidateType
<1>2. ASSUME UNCHANGED blocked_by
      PROVE  Earned
  BY <1>2, EarnedSame
<1>3. ASSUME blocked_by[t].by \notin {"Semaphore", "Joining"},
             blocked_by' = [blocked_by EXCEPT ![t] = NotBlocked]
      PROVE  Earned
  BY <1>1, <1>3, EarnedElsewhere
<1> HIDE DEF t
<1>4. CASE ScanSkip \/ ScanStillDeferred \/ ScanHostSleep \/ ScanSwitch
  BY <1>2, <1>4 DEF ScanSkip, ScanStillDeferred, ScanHostSleep, ScanSwitch
<1>5. CASE ScanSemaphoreGone \/ ScanRelockPanics \/ ScanDeadlock
  BY <1>2, <1>5 DEF ScanSemaphoreGone, ScanRelockPanics, ScanDeadlock, Panic
<1>6. CASE ScanNotBlocked
  BY <1>3, <1>6 DEF ScanNotBlocked, PickAndBreak, t
<1>7. CASE ScanSleeping
  BY <1>2, <1>3, <1>7 DEF ScanSleeping, PickAndBreak, t
<1>8. CASE ScanMutex
  BY <1>2, <1>3, <1>8 DEF ScanMutex, t
<1>9. CASE ScanCondition
  BY <1>2, <1>3, <1>9 DEF ScanCondition, t
<1>10. CASE ScanDeferredReturn
  BY <1>3, <1>10 DEF ScanDeferredReturn, t
<1>11. \E u \in Threads : u = t
  BY <1>1
<1>12. CASE ScanSemaphore
  <2>1. blocked_by[t].on \in Sems
    BY <1>1, <1>12 DEF ScanSemaphore, TypeOK, BlockedOnKnown, t
  <2>2. \E s \in Sems : s = blocked_by[t].on
    BY <2>1
  <2> QED BY <1>11, <1>12, <2>2, EarnedUnit DEF t
<1>13. CASE ScanJoining
  BY <1>11, <1>13, EarnedJoin DEF t
<1> QED BY <1>4, <1>5, <1>6, <1>7, <1>8, <1>9, <1>10, <1>12, <1>13 DEF ScanStep

\* A call wakes only threads that it signals.
LEMMA EarnedLibraryCall ==
    ASSUME TypeOK, SchedInv, LibraryCall
    PROVE  Earned
<1> USE DEF Running, Panic
<1>1. ASSUME UNCHANGED blocked_by
      PROVE  Earned
  BY <1>1, EarnedSame
<1>2. ASSUME NEW h \in Handles,
             \/ pthread_mutex_init(h) \/ pthread_mutex_trylock(h)
             \/ pthread_mutex_unlock(h) \/ pthread_mutex_misuse(h)
             \/ pthread_mutex_destroy(h)
      PROVE  Earned
  BY <1>1, <1>2 DEF pthread_mutex_init, pthread_mutex_trylock,
     pthread_mutex_unlock, pthread_mutex_misuse, pthread_mutex_destroy
<1>3. ASSUME NEW h \in Handles, pthread_mutex_lock(h)
      PROVE  Earned
  BY <1>1, <1>3, EarnedBlock DEF pthread_mutex_lock
<1>4. ASSUME NEW c \in Conds,
             \/ pthread_cond_init(c) \/ pthread_cond_signal(c)
             \/ pthread_cond_broadcast(c) \/ pthread_cond_destroy(c)
      PROVE  Earned
  BY <1>1, <1>4 DEF pthread_cond_init, pthread_cond_signal,
     pthread_cond_broadcast, pthread_cond_destroy
<1>5. ASSUME NEW c \in Conds, NEW h \in Handles,
             pthread_cond_wait(c, h) \/ pthread_cond_misuse(c, h)
      PROVE  Earned
  BY <1>1, <1>5, EarnedBlock DEF pthread_cond_wait, pthread_cond_misuse
<1>6. ASSUME NEW s \in Sems,
             sem_init(s) \/ sem_destroy(s) \/ sem_post(s) \/ sem_misuse(s) \/ sem_wait(s)
      PROVE  Earned
  BY <1>1, <1>6, EarnedBlock DEF sem_init, sem_destroy, sem_post, sem_misuse, sem_wait
<1>7. CASE pthread_create \/ pthread_join_main
  BY <1>1, <1>7 DEF pthread_create, pthread_join_main
<1>8. ASSUME NEW t \in Threads, pthread_join(t)
      PROVE  Earned
  BY <1>8, EarnedBlock DEF pthread_join
<1> QED BY <1>2, <1>3, <1>4, <1>5, <1>6, <1>7, <1>8 DEF LibraryCall

\* Every wake-up is earned.
LEMMA EarnedNext ==
    ASSUME TypeOK, SchedInv, [Next]_vars
    PROVE  Earned
<1>1. CASE LibraryCall
  BY <1>1, EarnedLibraryCall
<1>2. CASE HostStep \/ GuestStep
  <2>1. CASE HostSleeps \/ TailSleep \/ DeferReturn
    BY <2>1, EarnedBlock DEF HostSleeps, TailSleep, DeferReturn, Running
  <2>2. CASE HostCallsGuest \/ HostReturns \/ GuestCall \/ ReturnToHost
    BY <2>2, EarnedSame DEF HostCallsGuest, HostReturns, GuestCall, ReturnToHost
  <2>3. CASE Preempt \/ ThreadExit \/ MainThreadExit
    BY <2>3, EarnedSame DEF Preempt, ThreadExit, MainThreadExit, Panic
  <2> QED BY <1>2, <2>1, <2>2, <2>3 DEF HostStep, GuestStep
<1>3. CASE \E t \in Threads : Tick(t)
  BY <1>3, EarnedSame DEF Tick
<1>4. CASE Terminated \/ UNCHANGED vars
  BY <1>4, EarnedSame DEF Terminated, vars, envVars
<1> QED BY <1>1, <1>2, <1>3, <1>4, EarnedScanStep DEF Next, EnvironmentStep

\* A wake-up is owed to its cause: a woken semaphore waiter has taken exactly
\* one unit and wakes alone, and no join returns before the thread joined has
\* finished (run_inner's cases of ThreadBlock::Semaphore and ::Joining).
THEOREM WakesEarned == Spec => WakesAreEarned
<1>1. TypeInv /\ SchedInv /\ [Next]_vars => [Earned]_vars
  BY EarnedNext DEF TypeInv
<1>2. Earned <=>
       /\ \A s \in Sems, t \in Threads :
            blocked_by[t] = BlockedOn("Semaphore", s) /\ blocked_by'[t] = NotBlocked
            => /\ sems'[s].value = sems[s].value - 1
               /\ \A u \in Threads \ {t} : blocked_by'[u] = blocked_by[u]
       /\ \A t, u \in Threads :
            blocked_by[t] = BlockedOn("Joining", u) /\ blocked_by'[t] = NotBlocked
            => ~active[u]
  BY DEF Earned
<1> QED BY <1>1, <1>2, SpecInv, PTL DEF Spec, WakesAreEarned
=============================================================================
