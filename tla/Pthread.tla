------------------------------ MODULE Pthread ------------------------------
(***************************************************************************)
(* The blocking part of the guest's C library on top of the scheduler:     *)
(* pthread mutexes, condition variables, threads and joins                 *)
(* (libc/pthread), unnamed semaphores (libc/semaphore.rs).                 *)
(*                                                                         *)
(* Every one of these is a host function that does not call guest code, so *)
(* it is one atomic action of the current thread; if it blocked the        *)
(* thread, the scheduler scans next.  Calls that only return an error      *)
(* number and change nothing are not written out.                          *)
(***************************************************************************)
EXTENDS Environment

CONSTANTS
    Handles,        \* the pthread_mutex_t variables of the guest
    InitTypes,      \* mutex types the guest asks for in pthread_mutex_init
    MaxSem          \* bound on the value of a semaphore

ASSUME GuestAssumption ==
    InitTypes \subseteq MutexType /\ MaxSem \in Nat

VARIABLES
    handles,        \* guest memory: magic number and mutex_id of each handle
    joined_by,      \* ThreadHostObject::joined_by
    detached,       \* ThreadHostObject::attr.detachstate
    holds           \* what the guest may rely on: holds[t][m] is the number
                    \* of lock calls on m that returned (or will return) 0 to
                    \* t less the unlock calls that did.  History variable.

guestVars == <<handles, joined_by, detached, holds>>
vars == <<envVars, guestVars>>

\* MAGIC_MUTEX_STATIC, MAGIC_MUTEX, and anything else
Handle == [magic : {"static", "valid", "zero"}, id : MutexId \cup {NoMutex}]
Wiped == [magic |-> "zero", id |-> NoMutex]

Init ==
    /\ EnvInit
    /\ handles \in [Handles -> {Wiped, [magic |-> "static", id |-> NoMutex]}]
    /\ joined_by = [t \in Threads |-> NoThread]
    /\ detached = [t \in Threads |-> FALSE]
    /\ holds = [t \in Threads |-> [m \in MutexId |-> 0]]

----------------------------------------------------------------------------
(* libc/pthread/mutex.rs *)

(***************************************************************************)
(* check_or_register_mutex: a handle with the static initializer gets a    *)
(* mutex of the default type first, a wiped one is refused with EINVAL.    *)
(* MutexOf, TableFor and CountFor are the mutex id in the handle, the      *)
(* mutex table and mutex_count after the check.                            *)
(***************************************************************************)
accepted(h) ==
    \/ handles[h].magic = "valid"
    \/ handles[h].magic = "static" /\ mutex_count < MaxMutexes

MutexOf(h) == IF handles[h].magic = "static" THEN mutex_count ELSE handles[h].id

TableFor(h) ==
    IF handles[h].magic = "static"
    THEN init_mutex(mutexes, mutex_count, "NORMAL") ELSE mutexes

CountFor(h) ==
    IF handles[h].magic = "static" THEN mutex_count + 1 ELSE mutex_count

check_or_register_mutex(h) ==
    /\ accepted(h)
    /\ mutex_count' = CountFor(h)
    /\ handles' = [handles EXCEPT ![h] = [magic |-> "valid", id |-> MutexOf(h)]]

pthread_mutex_init(h) ==
    /\ Running
    /\ mutex_count < MaxMutexes
    /\ \E type \in InitTypes :
         mutexes' = init_mutex(mutexes, mutex_count, type)
    /\ mutex_count' = mutex_count + 1
    /\ handles' = [handles EXCEPT ![h] = [magic |-> "valid", id |-> mutex_count]]
    /\ UNCHANGED <<threadVars, blocked_by, in_host_function, due, stack,
                   schedVars, panic, conds, sems, joined_by, detached, holds>>

\* pthread_mutex_lock: the calls that return 0, at once or after blocking
pthread_mutex_lock(h) ==
    /\ Running
    /\ check_or_register_mutex(h)
    /\ LET m == MutexOf(h)
           t == current_thread
           M == TableFor(h)
           outcome == lock_outcome(M, m, t)
       IN  /\ outcome \in {"acquires", "recurses", "blocks"}
           /\ holds[t][m] < MaxRecursion
           /\ mutexes' = lock_mutex(M, m, t)
           /\ holds' = [holds EXCEPT ![t][m] = @ + 1]
           /\ IF outcome = "blocks" THEN BlockCurrent(BlockedOn("Mutex", m))
                                    ELSE Continue /\ UNCHANGED blocked_by
    /\ UNCHANGED <<threadVars, in_host_function, due, stack, panic, conds, sems,
                   joined_by, detached>>

\* pthread_mutex_trylock on an unlocked mutex; on a locked one it is EBUSY
\* whoever holds it.
pthread_mutex_trylock(h) ==
    /\ Running
    /\ check_or_register_mutex(h)
    /\ ~mutex_is_locked(TableFor(h), MutexOf(h))
    /\ lock_outcome(TableFor(h), MutexOf(h), current_thread) = "acquires"
    /\ holds[current_thread][MutexOf(h)] < MaxRecursion
    /\ mutexes' = lock_mutex(TableFor(h), MutexOf(h), current_thread)
    /\ holds' = [holds EXCEPT ![current_thread][MutexOf(h)] = @ + 1]
    /\ UNCHANGED <<threadVars, blocked_by, in_host_function, due, stack,
                   schedVars, panic, conds, sems, joined_by, detached>>

\* pthread_mutex_unlock: the calls that return 0
pthread_mutex_unlock(h) ==
    /\ Running
    /\ handles[h].magic = "valid"
    /\ unlock_outcome(mutexes, handles[h].id, current_thread) = "unlocks"
    /\ mutexes' = unlock_mutex(mutexes, handles[h].id, current_thread)
    /\ holds' = [holds EXCEPT ![current_thread][handles[h].id] = @ - 1]
    /\ UNCHANGED <<threadVars, blocked_by, in_host_function, due, stack,
                   schedVars, panic, mutex_count, conds, sems, handles,
                   joined_by, detached>>

\* The misuses of a NORMAL mutex that the code answers with a panic: locking
\* it twice, unlocking a mutex that is free or held by another thread.  A
\* static handle is registered first and then is a free NORMAL mutex.
pthread_mutex_misuse(h) ==
    /\ Running
    /\ accepted(h)
    /\ \/ lock_outcome(TableFor(h), MutexOf(h), current_thread) = "panics"
       \/ unlock_outcome(TableFor(h), MutexOf(h), current_thread) = "panics"
    /\ Panic("misuse")
    /\ UNCHANGED guestVars

wipe_handle(h) == handles' = [handles EXCEPT ![h] = Wiped]

\* The handle is wiped whether or not destroy_mutex succeeds.
pthread_mutex_destroy(h) ==
    /\ Running
    /\ accepted(h)
    /\ mutexes' = destroy_mutex(TableFor(h), MutexOf(h))
    /\ mutex_count' = CountFor(h)
    /\ wipe_handle(h)
    /\ UNCHANGED <<threadVars, blocked_by, in_host_function, due, stack,
                   schedVars, panic, conds, sems, joined_by, detached, holds>>

----------------------------------------------------------------------------
(* libc/pthread/cond.rs *)

\* A condition variable is initialised once until it is destroyed.
pthread_cond_init(c) ==
    /\ Running
    /\ ~conds[c].live
    /\ conds' = [conds EXCEPT ![c] = [NoCond EXCEPT !.live = TRUE]]
    /\ UNCHANGED <<threadVars, blocked_by, in_host_function, due, stack,
                   schedVars, panic, mutexes, mutex_count, sems, guestVars>>

\* The mutex must be the one of the current waiters, or there are none.
cond_mutex_agrees(c, m) ==
    \/ conds[c].curr_mutex = m
    \/ conds[c].waking = << >> /\ conds[c].waiting = << >>

pthread_cond_wait(c, h) ==
    /\ Running
    /\ handles[h].magic = "valid"
    /\ unlock_outcome(mutexes, handles[h].id, current_thread) = "unlocks"
    /\ conds[c].live
    /\ cond_mutex_agrees(c, handles[h].id)
    /\ mutexes' = unlock_mutex(mutexes, handles[h].id, current_thread)
    /\ conds' = [conds EXCEPT ![c].curr_mutex = handles[h].id,
                              ![c].waiting = Append(@, current_thread)]
    /\ BlockCurrent(BlockedOn("Condition", c))
    /\ UNCHANGED <<threadVars, in_host_function, due, stack, panic, mutex_count,
                   sems, guestVars>>

\* The asserts and lookups of the condition variable calls that fail.
pthread_cond_misuse(c, h) ==
    /\ Running
    /\ \/ ~conds[c].live
       \/ handles[h].magic = "zero"
       \/ handles[h].magic = "valid"
          /\ \/ unlock_outcome(mutexes, handles[h].id, current_thread) # "unlocks"
             \/ ~cond_mutex_agrees(c, handles[h].id)
    /\ Panic("misuse")
    /\ UNCHANGED guestVars

\* A plausible slip: the signalled thread is forgotten.
moved_to_waking_lost(c, n) ==
    [conds EXCEPT ![c].waiting = SubSeq(@, n + 1, Len(@))]

\* The first n waiters move to the queue of woken threads.
moved_to_waking(c, n) ==
    LET q == conds[c]
    IN  [conds EXCEPT ![c] =
            [q EXCEPT !.waiting = SubSeq(q.waiting, n + 1, Len(q.waiting)),
                      !.waking = q.waking \o SubSeq(q.waiting, 1, n)]]

pthread_cond_signal(c) ==
    /\ Running
    /\ conds[c].live
    /\ conds[c].waiting # << >>
    /\ conds' = moved_to_waking(c, 1)
    /\ UNCHANGED <<threadVars, blocked_by, in_host_function, due, stack,
                   schedVars, panic, mutexes, mutex_count, sems, guestVars>>

pthread_cond_broadcast(c) ==
    /\ Running
    /\ conds[c].live
    /\ conds[c].waiting # << >>
    /\ conds' = moved_to_waking(c, Len(conds[c].waiting))
    /\ UNCHANGED <<threadVars, blocked_by, in_host_function, due, stack,
                   schedVars, panic, mutexes, mutex_count, sems, guestVars>>

\* Destroying a condition variable that has waiters is an assertion failure.
cond_is_idle(c) == conds[c].waiting = << >> /\ conds[c].waking = << >>

pthread_cond_destroy(c) ==
    /\ Running
    /\ conds[c].live
    /\ IF cond_is_idle(c)
       THEN /\ conds' = [conds EXCEPT ![c] = NoCond]
            /\ UNCHANGED <<threadVars, blocked_by, in_host_function, due, stack,
                           schedVars, panic, mutexes, mutex_count, sems>>
       ELSE Panic("misuse")
    /\ UNCHANGED guestVars

----------------------------------------------------------------------------
(* libc/semaphore.rs, unnamed semaphores *)

sem_init(s) ==
    /\ Running
    /\ ~sems[s].open
    /\ \E value \in 0 .. MaxSem :
         sems' = [sems EXCEPT ![s] = [open |-> TRUE, value |-> value]]
    /\ UNCHANGED <<threadVars, blocked_by, in_host_function, due, stack,
                   schedVars, panic, mutexes, mutex_count, conds, guestVars>>

sem_destroy(s) ==
    /\ Running
    /\ sems[s].open
    /\ sems' = [sems EXCEPT ![s] = NoSem]
    /\ UNCHANGED <<threadVars, blocked_by, in_host_function, due, stack,
                   schedVars, panic, mutexes, mutex_count, conds, guestVars>>

\* sem_increment
sem_post(s) ==
    /\ Running
    /\ sems[s].open
    /\ sems[s].value < MaxSem
    /\ sems' = [sems EXCEPT ![s].value = @ + 1]
    /\ UNCHANGED <<threadVars, blocked_by, in_host_function, due, stack,
                   schedVars, panic, mutexes, mutex_count, conds, guestVars>>

\* sem_wait and a successful sem_trywait: sem_decrement
sem_wait(s) ==
    /\ Running
    /\ sems[s].open
    /\ IF sems[s].value > 0
       THEN /\ sems' = [sems EXCEPT ![s].value = @ - 1]
            /\ Continue
            /\ UNCHANGED blocked_by
       ELSE /\ BlockCurrent(BlockedOn("Semaphore", s))
            /\ UNCHANGED sems
    /\ UNCHANGED <<threadVars, in_host_function, due, stack, panic,
                   mutexes, mutex_count, conds, guestVars>>

\* sem_post, sem_wait and sem_trywait look the semaphore up and unwrap.
sem_misuse(s) ==
    /\ Running
    /\ ~sems[s].open
    /\ Panic("misuse")
    /\ UNCHANGED guestVars

----------------------------------------------------------------------------
(* libc/pthread/thread.rs *)

pthread_create ==
    /\ Running
    /\ nthreads < MaxThreads
    /\ new_thread
    /\ \E d \in BOOLEAN :
         /\ d => "join" \in Uses
         /\ detached' = [detached EXCEPT ![nthreads] = d]
    /\ UNCHANGED <<blocked_by, in_host_function, due, stack, schedVars, panic,
                   objectVars, handles, joined_by, holds>>

\* The check for cycles of two threads: is the joinee recorded as the thread
\* that joins the caller?
join_would_deadlock(joinee) == joined_by[current_thread] = joinee

\* pthread_join: the calls that block (the others return EDEADLK or EINVAL).
pthread_join(joinee) ==
    /\ Running
    /\ "join" \in Uses
    /\ joinee \in 1 .. nthreads - 1
    /\ joinee # current_thread
    /\ ~join_would_deadlock(joinee)
    /\ ~detached[joinee]
    /\ joined_by' = [joined_by EXCEPT ![joinee] = current_thread]
    /\ BlockCurrent(BlockedOn("Joining", joinee))
    /\ UNCHANGED <<threadVars, in_host_function, due, stack, panic, objectVars,
                   handles, detached, holds>>

\* Joining the main thread fails an assertion.
pthread_join_main ==
    /\ Running
    /\ "join" \in Uses
    /\ Panic("misuse")
    /\ UNCHANGED guestVars

----------------------------------------------------------------------------
Terminated == panic # "none" /\ UNCHANGED vars

LibraryCall ==
    \/ \E h \in Handles :
         \/ pthread_mutex_init(h) \/ pthread_mutex_lock(h)
         \/ pthread_mutex_trylock(h) \/ pthread_mutex_unlock(h)
         \/ pthread_mutex_misuse(h) \/ pthread_mutex_destroy(h)
    \/ \E c \in Conds :
         \/ pthread_cond_init(c) \/ pthread_cond_signal(c)
         \/ pthread_cond_broadcast(c) \/ pthread_cond_destroy(c)
         \/ \E h \in Handles : pthread_cond_wait(c, h) \/ pthread_cond_misuse(c, h)
    \/ \E s \in Sems :
         \/ sem_init(s) \/ sem_destroy(s) \/ sem_post(s) \/ sem_wait(s)
         \/ sem_misuse(s)
    \/ pthread_create \/ pthread_join_main
    \/ \E t \in Threads : pthread_join(t)

EnvironmentStep ==
    /\ \/ ScanStep \/ HostStep \/ GuestStep
       \/ \E t \in Threads : Tick(t)
    /\ UNCHANGED guestVars

Next == LibraryCall \/ EnvironmentStep \/ Terminated

Spec == Init /\ [][Next]_vars

----------------------------------------------------------------------------
(***************************************************************************)
(* Fairness: the host process keeps running, so the scan and the host      *)
(* functions make progress, time passes, and a woken nap returns.  Every   *)
(* round of run_inner gives the CPU 100_000 ticks which no library call    *)
(* refills, so guest code that keeps executing runs out of them.           *)
(***************************************************************************)
NapReturns == Napping(current_thread) /\ (ReturnToHost \/ DeferReturn)

Fairness ==
    /\ WF_vars(ScanStep /\ UNCHANGED guestVars)
    /\ WF_vars(HostStep /\ UNCHANGED guestVars)
    /\ WF_vars(NapReturns /\ UNCHANGED guestVars)
    /\ SF_vars(Preempt /\ UNCHANGED guestVars)
    /\ \A t \in Threads : WF_vars(Tick(t) /\ UNCHANGED guestVars)

FairSpec == Spec /\ Fairness

----------------------------------------------------------------------------
(* Properties *)

\* What a thread is blocked on exists as an object of the right kind.
BlockedOnKnown(b) ==
    /\ b.by = "Mutex" => b.on \in MutexId
    /\ b.by = "Semaphore" => b.on \in Sems
    /\ b.by = "Condition" => b.on \in Conds
    /\ b.by = "Joining" => b.on \in Threads

\* Every variable has the type of the field it models, what blocks a thread
\* is an object of the right kind, and a valid handle names a mutex.
TypeOK ==
    /\ nthreads \in 1 .. MaxThreads
    /\ current_thread \in Threads
    /\ active \in [Threads -> BOOLEAN]
    /\ blocked_by \in [Threads -> ThreadBlock]
    /\ \A t \in Threads : BlockedOnKnown(blocked_by[t])
    /\ in_host_function \in [Threads -> BOOLEAN]
    /\ context \in [Threads -> BOOLEAN]
    /\ due \subseteq Threads
    /\ stack \in Seq(Frame) /\ Len(stack) \in 1 .. MaxDepth
    /\ phase \in {"guest", "host", "scan"}
    /\ scan \in Scan
    /\ panic \in Panics
    /\ mutexes \in [MutexId -> Mutex]
    /\ mutex_count \in 0 .. MaxMutexes
    /\ conds \in [Conds -> Cond]
    /\ sems \in [Sems -> Sem]
    /\ handles \in [Handles -> Handle]
    /\ \A h \in Handles : handles[h].magic = "valid" => handles[h].id \in MutexId
    /\ joined_by \in [Threads -> Threads \cup {NoThread}]
    /\ detached \in [Threads -> BOOLEAN]
    /\ holds \in [Threads -> [MutexId -> Int]]

\* Thread t has locked m and has not unlocked it, and is not waiting to get
\* it (back).
Claims(t, m) ==
    /\ holds[t][m] > 0
    /\ blocked_by[t] # BlockedOn("Mutex", m)
    /\ blocked_by[t].by # "Condition"

\* No two threads have ever locked the same mutex at once, over every way a
\* lock can be obtained: at once, recursively, by trylock, by being woken.
MutualExclusion ==
    panic = "none" => \A t, u \in Threads, m \in MutexId :
        Claims(t, m) /\ Claims(u, m) => t = u

\* A thread that executes after its lock call returned owns the mutex in the
\* table, to the depth of its lock calls: the wake-up took it on behalf of
\* the right thread.
OwnerIsLocker ==
    panic = "none" /\ phase # "scan" => \A t \in Threads, m \in MutexId :
        Claims(t, m) => mutexes[m].owner = t /\ mutexes[m].count = holds[t][m]

\* A mutex has one holder at a time, the one the table names, at the depth of
\* its calls: however a lock was obtained and whoever was woken for it.
LocksOwned == MutualExclusion /\ OwnerIsLocker

\* waiting_count, "so that the mutex isn't destroyed", counts the threads that
\* are blocked in a lock call, the one being relocked included.
WaitingCountExact ==
    \A m \in MutexId :
        mutexes[m].waiting_count =
            Cardinality({t \in Threads : blocked_by[t] = BlockedOn("Mutex", m)})
            + (IF scan.relock = m THEN 1 ELSE 0)

\* The scheduler never fails in its own bookkeeping, whatever the guest does.
NoInternalPanic == panic # "internal"

\* Thread t waits for mutex m: it is blocked in a lock call, or the scan has
\* just chosen it and has yet to relock m on its behalf.
Waits(t, m) ==
    \/ blocked_by[t] = BlockedOn("Mutex", m)
    \/ scan.pick = t /\ scan.relock = m

\* The inductive invariant behind MutualExclusion and OwnerIsLocker when there
\* are no condition variables: the table agrees with what each thread was
\* told, a thread in between waits with one lock call outstanding, and a
\* mutex that is about to be relocked is free.
LockInv ==
    /\ \A t \in Threads, m \in MutexId :
         /\ mutexes[m].owner = t => holds[t][m] = mutexes[m].count /\ ~Waits(t, m)
         /\ mutexes[m].owner # t => holds[t][m] = IF Waits(t, m) THEN 1 ELSE 0
    /\ \A m \in MutexId : m >= mutex_count =>
         mutexes[m].owner = NoThread /\ \A t \in Threads : ~Waits(t, m)
    /\ \A h \in Handles : handles[h].magic = "valid" => handles[h].id < mutex_count
    /\ scan.relock # NoMutex =>
         /\ phase = "scan" /\ scan.k = nthreads /\ scan.pick # NoThread
         /\ mutexes[scan.relock].owner = NoThread
    /\ \A t \in Threads : blocked_by[t].by # "Condition"

\* What the waiting count adds to it: while anyone waits, the mutex is live.
WaitInv ==
    /\ WaitingCountExact
    /\ \A m \in MutexId : mutexes[m].waiting_count # 0 => mutexes[m].live
    /\ NoInternalPanic

\* A thread blocked on a condition variable is in exactly one of its queues,
\* once, until it is woken: no wake-up is lost or given twice.
CondQueuesExact ==
    \A c \in Conds :
        LET q == conds[c].waiting \o conds[c].waking
        IN  /\ \A i, j \in 1 .. Len(q) : q[i] = q[j] => i = j
            /\ {q[i] : i \in 1 .. Len(q)} =
                   {t \in Threads : blocked_by[t] = BlockedOn("Condition", c)}

\* Nothing can unblock t any more.
Stuck(t) ==
    LET b == blocked_by[t]
    IN  CASE b.by = "Mutex" -> mutex_is_locked(mutexes, b.on)
          [] b.by = "Semaphore" -> sems[b.on].value = 0
          [] b.by = "Condition" -> ~cond_wakes(b.on, t)
          [] b.by = "Joining" -> active[b.on]
          [] b.by = "DeferredReturn" -> t # Top.thread
          [] OTHER -> FALSE

\* "No active threads, program has deadlocked!" is only said when it is so:
\* what the scan saw of the earlier candidates still holds at its end.
DeadlockIsReal ==
    panic = "deadlock" => \A t \in Threads : active[t] => Stuck(t)

\* A wake-up is owed to its cause: a woken semaphore waiter has taken exactly
\* one unit, a unit wakes at most one waiter, and nobody returns from a join
\* before the thread joined has finished.
WakesAreEarned ==
    [][/\ \A s \in Sems, t \in Threads :
            blocked_by[t] = BlockedOn("Semaphore", s) /\ blocked_by'[t] = NotBlocked
            => /\ sems'[s].value = sems[s].value - 1
               /\ \A u \in Threads \ {t} : blocked_by'[u] = blocked_by[u]
       /\ \A t, u \in Threads :
            blocked_by[t] = BlockedOn("Joining", u) /\ blocked_by'[t] = NotBlocked
            => ~active[u]]_vars

(* Liveness, unless the guest makes an error the emulator answers by stopping *)

\* A thread that is not blocked gets to run, however the others behave.
RunnableRuns ==
    \A t \in Threads :
        (active[t] /\ blocked_by[t] = NotBlocked)
            ~> (panic = "misuse" \/ current_thread = t)

\* A sleeping thread wakes up: neither a busy nor an idle emulator, nor its
\* deadlock panic, leaves it asleep.
SleeperWakes ==
    \A t \in Threads :
        (blocked_by[t].by = "Sleeping")
            ~> (panic = "misuse" \/ blocked_by[t].by # "Sleeping")

\* A join on a thread that has finished returns, and is not taken for a
\* deadlock.
JoinReturns ==
    \A t, u \in Threads :
        (blocked_by[t] = BlockedOn("Joining", u) /\ ~active[u])
            ~> (panic = "misuse" \/ blocked_by[t].by # "Joining")

\* A unit posted to a semaphore does not stay unused beside a waiter.
PostedUnitIsTaken ==
    \A s \in Sems, t \in Threads :
        (sems[s].value > 0 /\ blocked_by[t] = BlockedOn("Semaphore", s))
            ~> (\/ panic = "misuse" \/ sems[s].value = 0
                \/ blocked_by[t] # BlockedOn("Semaphore", s))

\* Every thread that can go on does: scheduling starves no runnable thread,
\* and no wake-up is missed, be it of a sleeper, of a joiner or by a post.
ThreadsGoOn == RunnableRuns /\ SleeperWakes /\ JoinReturns /\ PostedUnitIsTaken
=============================================================================
