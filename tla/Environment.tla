---------------------------- MODULE Environment ----------------------------
(***************************************************************************)
(* The thread scheduler of environment.rs.                                 *)
(*                                                                         *)
(* All guest threads are run by one host thread.  Environment::run_inner   *)
(* lets the current guest thread execute until it yields, then scans the   *)
(* thread list for the next one.  A host function called by the guest may  *)
(* call back into guest code, which runs a nested run_inner: the host call *)
(* stack is shared by all guest threads, so a callback can only return     *)
(* when its thread is on top of that stack (DeferredReturn otherwise).     *)
(*                                                                         *)
(* What is left abstract: guest instructions (a guest thread makes any     *)
(* library call at any time), the deadline of a sleeping thread (the set   *)
(* `due' holds the threads whose deadline has passed), return values and   *)
(* stacks, which are set where `active' is cleared and read only after it, *)
(* the window's event polling and the debugger.  The `waiting' set of a    *)
(* semaphore is never read by the code and is left out too.                *)
(***************************************************************************)
EXTENDS Mutex, Sequences, FiniteSets

CONSTANTS
    Conds,          \* condition variables of the guest, a set of naturals
    Sems,           \* semaphores of the guest, a set of naturals
    MaxDepth,       \* bound on the host call stack
    Uses            \* which of "sleep" and "join" the guest program uses

ASSUME ObjectsAssumption ==
    /\ Conds \subseteq Nat /\ Sems \subseteq Nat
    /\ MaxDepth \in Nat \ {0}
    /\ Uses \subseteq {"sleep", "join"}

VARIABLES
    nthreads,           \* threads.len()
    current_thread,
    active,             \* per thread: Thread::active
    blocked_by,         \* per thread: Thread::blocked_by
    in_host_function,   \* per thread: Thread::in_host_function
    context,            \* per thread: Thread::context.is_some()
    due,                \* sleeping threads whose deadline has passed
    stack,              \* host call stack, innermost frame last
    phase,              \* what the innermost frame is doing
    scan,               \* locals of run_inner's search for a thread
    panic,              \* "none", or why the emulator has stopped
    mutexes, mutex_count,
    conds,              \* libc_state.pthread.cond.condition_variables
    sems                \* libc_state.semaphore.open_semaphores

threadVars == <<nthreads, active, context, current_thread>>
schedVars == <<phase, scan>>
objectVars == <<mutexes, mutex_count, conds, sems>>
envVars == <<nthreads, current_thread, active, blocked_by, in_host_function,
             context, due, stack, phase, scan, panic,
             mutexes, mutex_count, conds, sems>>

----------------------------------------------------------------------------
(* State *)

\* ThreadBlock: what blocks a thread, and the object it is blocked on.
BlockKind == {"NotBlocked", "Sleeping", "Mutex", "Semaphore", "Condition",
              "Joining", "DeferredReturn"}
ThreadBlock == [by : BlockKind, on : Nat]
NotBlocked == [by |-> "NotBlocked", on |-> 0]
BlockedOn(kind, x) == [by |-> kind, on |-> x]

(***************************************************************************)
(* A frame of the host call stack: a run_inner activation ("inner") with   *)
(* its initial_thread, or a host function called by a guest thread         *)
(* ("host").  `was' is the was_in_host_function local of run_call and of   *)
(* handle_cpu_state.  `nap' marks the activation that a sleep inside a     *)
(* host function runs: when its thread wakes up, all it does is return.    *)
(***************************************************************************)
Frame == [f : {"inner", "host"}, thread : Threads, was : BOOLEAN, nap : BOOLEAN]
InnerFrame(t, was, nap) == [f |-> "inner", thread |-> t, was |-> was, nap |-> nap]
HostFrame(t, was) == [f |-> "host", thread |-> t, was |-> was, nap |-> FALSE]
Top == stack[Len(stack)]
Popped == SubSeq(stack, 1, Len(stack) - 1)

\* The callbacks of thread t that are in progress (the root activation is none).
Callbacks(t) ==
    {i \in 2 .. Len(stack) : stack[i].f = "inner" /\ stack[i].thread = t}

\* The innermost callback of t is only a sleep waiting to return.
Napping(t) ==
    \E i \in Callbacks(t) : stack[i].nap /\ \A j \in Callbacks(t) : j <= i

\* suitable_thread, mutex_to_relock, next_awakening.is_some(), loop counter
Scan == [k : Nat, pick : Threads \cup {NoThread},
         relock : MutexId \cup {NoMutex}, nap : BOOLEAN]
ScanStart == [k |-> 0, pick |-> NoThread, relock |-> NoMutex, nap |-> FALSE]

Cond == [live : BOOLEAN, waiting : Seq(Threads), waking : Seq(Threads),
         curr_mutex : MutexId \cup {NoMutex}]
NoCond == [live |-> FALSE, waiting |-> << >>, waking |-> << >>,
           curr_mutex |-> NoMutex]
Sem == [open : BOOLEAN, value : Nat]
NoSem == [open |-> FALSE, value |-> 0]

Panics == {"none", "misuse", "internal", "deadlock"}

----------------------------------------------------------------------------
(* Environment::new: one thread, executing, on the root run_inner *)

EnvInit ==
    /\ nthreads = 1
    /\ current_thread = 0
    /\ active = [t \in Threads |-> t = 0]
    /\ blocked_by = [t \in Threads |-> NotBlocked]
    /\ in_host_function = [t \in Threads |-> FALSE]
    /\ context = [t \in Threads |-> FALSE]
    /\ due = {}
    /\ stack = <<InnerFrame(0, FALSE, FALSE)>>
    /\ phase = "guest"
    /\ scan = ScanStart
    /\ panic = "none"
    /\ mutexes = [m \in MutexId |-> Absent]
    /\ mutex_count = 0
    /\ conds = [c \in Conds |-> NoCond]
    /\ sems = [s \in Sems |-> NoSem]

----------------------------------------------------------------------------
(* Steps of the current thread in guest code *)

\* The current thread is executing guest code and may call the library.
Running == panic = "none" /\ phase = "guest" /\ ~Napping(current_thread)

Panic(why) ==
    /\ panic' = why
    /\ UNCHANGED <<nthreads, current_thread, active, blocked_by, in_host_function,
                   context, due, stack, phase, scan,
                   mutexes, mutex_count, conds, sems>>

\* ThreadNextAction::Continue and ::Yield
Continue == UNCHANGED schedVars
Yield == phase' = "scan" /\ scan' = ScanStart

\* A host function that leaves the current thread blocked: handle_cpu_state
\* sees that on return and yields.
BlockCurrent(b) ==
    /\ blocked_by' = [blocked_by EXCEPT ![current_thread] = b]
    /\ Yield

\* The ticks run out.
Preempt ==
    /\ Running
    /\ Yield
    /\ UNCHANGED <<threadVars, blocked_by, in_host_function, due, stack, panic,
                   objectVars>>

\* new_thread: the switch to the new thread and back, to set up its
\* registers, leaves its state in a context and the creator executing.
new_thread ==
    /\ nthreads' = nthreads + 1
    /\ active' = [active EXCEPT ![nthreads] = TRUE]
    /\ context' = [context EXCEPT ![nthreads] = TRUE]
    /\ UNCHANGED current_thread

\* SVC_THREAD_EXIT: the start routine has returned.
ThreadExit ==
    /\ Running
    /\ current_thread # 0
    /\ Callbacks(current_thread) = {}
    /\ active' = [active EXCEPT ![current_thread] = FALSE]
    /\ Yield
    /\ UNCHANGED <<nthreads, current_thread, context, blocked_by,
                   in_host_function, due, stack, panic, objectVars>>

\* The main thread is not in a start routine.
MainThreadExit ==
    /\ Running
    /\ current_thread = 0
    /\ Callbacks(0) = {}
    /\ Panic("misuse")

\* Environment::sleep as a tail call (usleep, nanosleep, [NSThread sleep..])
TailSleep ==
    /\ Running
    /\ "sleep" \in Uses
    /\ BlockCurrent(BlockedOn("Sleeping", 0))
    /\ due' = due \ {current_thread}
    /\ UNCHANGED <<threadVars, in_host_function, stack, panic, objectVars>>

\* A guest thread calls a host function that will call guest code back.
GuestCall ==
    /\ Running
    /\ Len(stack) + 2 <= MaxDepth
    /\ stack' = Append(stack, HostFrame(current_thread,
                                        in_host_function[current_thread]))
    /\ in_host_function' = [in_host_function EXCEPT ![current_thread] = TRUE]
    /\ phase' = "host"
    /\ UNCHANGED <<threadVars, blocked_by, due, scan, panic, objectVars>>

\* A plausible slip: run_call forgets that its thread is leaving host code.
run_call_still_in_host(nap) ==
    stack' = Append(stack, InnerFrame(current_thread,
                                      in_host_function[current_thread], nap))
    /\ in_host_function' = in_host_function

\* run_call up to its call of run_inner(false)
run_call(nap) ==
    /\ stack' = Append(stack, InnerFrame(current_thread,
                                         in_host_function[current_thread], nap))
    /\ in_host_function' = [in_host_function EXCEPT ![current_thread] = FALSE]

\* The host function calls guest code (abi::CallFromHost).
HostCallsGuest ==
    /\ panic = "none" /\ phase = "host"
    /\ Len(stack) < MaxDepth
    /\ run_call(FALSE)
    /\ phase' = "guest"
    /\ UNCHANGED <<threadVars, blocked_by, due, scan, panic, objectVars>>

\* Environment::sleep inside a host function (the run loop, frame limiting):
\* run_inner starts with a blocked thread, so it scans at once.
HostSleeps ==
    /\ panic = "none" /\ phase = "host"
    /\ "sleep" \in Uses
    /\ Len(stack) < MaxDepth
    /\ run_call(TRUE)
    /\ BlockCurrent(BlockedOn("Sleeping", 0))
    /\ due' = due \ {current_thread}
    /\ UNCHANGED <<threadVars, panic, objectVars>>

\* The host function returns to the guest code that called it.
HostReturns ==
    /\ panic = "none" /\ phase = "host"
    /\ in_host_function' = [in_host_function EXCEPT ![current_thread] = Top.was]
    /\ stack' = Popped
    /\ phase' = "guest"
    /\ UNCHANGED <<threadVars, blocked_by, due, scan, panic, objectVars>>

\* SVC_RETURN_TO_HOST on a thread that is not on top of the call stack
return_is_deferred == Top.thread # current_thread

\* run_inner returns to run_call, which returns to the host function.
PopActivation(t) ==
    /\ stack' = Popped
    /\ in_host_function' = [in_host_function EXCEPT ![t] = Top.was]
    /\ phase' = "host"

\* SVC_RETURN_TO_HOST: the guest code a host function called has finished.
ReturnToHost ==
    /\ panic = "none" /\ phase = "guest"
    /\ Callbacks(current_thread) # {}
    /\ ~return_is_deferred
    /\ PopActivation(current_thread)
    /\ UNCHANGED <<threadVars, blocked_by, due, scan, panic, objectVars>>

DeferReturn ==
    /\ panic = "none" /\ phase = "guest"
    /\ Callbacks(current_thread) # {}
    /\ return_is_deferred
    /\ BlockCurrent(BlockedOn("DeferredReturn", 0))
    /\ UNCHANGED <<threadVars, in_host_function, due, stack, panic, objectVars>>

----------------------------------------------------------------------------
(***************************************************************************)
(* The scan of run_inner.  One action examines one candidate, in the order *)
(* current_thread + 1, current_thread + 2, ... modulo threads.len();       *)
(* `break' sets scan.k to nthreads, which ends the loop.                   *)
(***************************************************************************)
\* A plausible slip: the search starts with the thread that just yielded.
candidate_from_current == (current_thread + scan.k) % nthreads

candidate == (current_thread + 1 + scan.k) % nthreads

eligible(i) == active[i] /\ ~in_host_function[i]

Scanning == panic = "none" /\ phase = "scan" /\ scan.k < nthreads

NextCandidate == scan' = [scan EXCEPT !.k = @ + 1]

\* The candidate is the one to run: suitable_thread = Some(i); break.
PickAndBreak(i) ==
    /\ blocked_by' = [blocked_by EXCEPT ![i] = NotBlocked]
    /\ scan' = [scan EXCEPT !.k = nthreads, !.pick = i]

ScanSkip ==
    /\ Scanning
    /\ ~eligible(candidate)
    /\ NextCandidate
    /\ UNCHANGED <<threadVars, blocked_by, in_host_function, due, stack, phase,
                   panic, objectVars>>

ScanNotBlocked ==
    /\ Scanning
    /\ eligible(candidate)
    /\ blocked_by[candidate].by = "NotBlocked"
    /\ PickAndBreak(candidate)
    /\ UNCHANGED <<threadVars, in_host_function, due, stack, phase, panic,
                   objectVars>>

\* next_awakening becomes Some deadline.
sleeper_noted == [scan EXCEPT !.k = @ + 1, !.nap = TRUE]

ScanSleeping ==
    /\ Scanning
    /\ eligible(candidate)
    /\ blocked_by[candidate].by = "Sleeping"
    /\ IF candidate \in due
       THEN PickAndBreak(candidate) /\ due' = due \ {candidate}
       ELSE /\ scan' = sleeper_noted
            /\ UNCHANGED <<blocked_by, due>>
    /\ UNCHANGED <<threadVars, in_host_function, stack, phase, panic, objectVars>>

mutex_wakes(m) == ~mutex_is_locked(mutexes, m)

ScanMutex ==
    /\ Scanning
    /\ eligible(candidate)
    /\ blocked_by[candidate].by = "Mutex"
    /\ LET m == blocked_by[candidate].on
       IN  IF mutex_wakes(m)
           THEN /\ blocked_by' = [blocked_by EXCEPT ![candidate] = NotBlocked]
                /\ scan' = [scan EXCEPT !.k = nthreads, !.pick = candidate,
                                        !.relock = m]
           ELSE NextCandidate /\ UNCHANGED blocked_by
    /\ UNCHANGED <<threadVars, in_host_function, due, stack, phase, panic,
                   objectVars>>

\* A plausible slip: a semaphore wakes its waiter without being decremented.
sem_taken_not(s) == sems

sem_taken(s) == [sems EXCEPT ![s].value = @ - 1]

sem_available(s) == sems[s].value > 0

ScanSemaphore ==
    /\ Scanning
    /\ eligible(candidate)
    /\ blocked_by[candidate].by = "Semaphore"
    /\ LET s == blocked_by[candidate].on
       IN  /\ sems[s].open
           /\ IF sem_available(s)
              THEN PickAndBreak(candidate) /\ sems' = sem_taken(s)
              ELSE NextCandidate /\ UNCHANGED <<blocked_by, sems>>
    /\ UNCHANGED <<threadVars, in_host_function, due, stack, phase, panic,
                   mutexes, mutex_count, conds>>

\* The semaphore was destroyed under its waiter: the map lookup fails.
ScanSemaphoreGone ==
    /\ Scanning
    /\ eligible(candidate)
    /\ blocked_by[candidate].by = "Semaphore"
    /\ ~sems[blocked_by[candidate].on].open
    /\ Panic("misuse")

\* The candidate heads the queue of woken threads and could take the mutex.
cond_wakes(c, i) ==
    /\ conds[c].waking # << >>
    /\ Head(conds[c].waking) = i
    /\ ~mutex_is_locked(mutexes, conds[c].curr_mutex)

\* Unlike every other case, a woken waiter does not end the loop: a later
\* candidate may replace it in scan.pick while scan.relock stays.
ScanCondition ==
    /\ Scanning
    /\ eligible(candidate)
    /\ blocked_by[candidate].by = "Condition"
    /\ LET c == blocked_by[candidate].on
       IN  IF cond_wakes(c, candidate)
           THEN /\ conds' = [conds EXCEPT ![c].waking = Tail(@)]
                /\ blocked_by' = [blocked_by EXCEPT ![candidate] = NotBlocked]
                /\ scan' = [scan EXCEPT !.k = @ + 1, !.pick = candidate,
                                        !.relock = conds[c].curr_mutex]
           ELSE NextCandidate /\ UNCHANGED <<conds, blocked_by>>
    /\ UNCHANGED <<threadVars, in_host_function, due, stack, phase, panic,
                   mutexes, mutex_count, sems>>

\* A plausible slip: it is the joining thread that must have finished.
join_completes_with_joiner(joinee) == ~active[candidate]

join_completes(joinee) == ~active[joinee]

ScanJoining ==
    /\ Scanning
    /\ eligible(candidate)
    /\ blocked_by[candidate].by = "Joining"
    /\ IF join_completes(blocked_by[candidate].on)
       THEN PickAndBreak(candidate)
       ELSE NextCandidate /\ UNCHANGED blocked_by
    /\ UNCHANGED <<threadVars, in_host_function, due, stack, phase, panic,
                   objectVars>>

switch_thread(new) ==
    /\ context' = [context EXCEPT ![new] = FALSE, ![current_thread] = TRUE]
    /\ current_thread' = new

\* The candidate's deferred return is possible now: run_inner returns from
\* inside the scan.
ScanDeferredReturn ==
    /\ Scanning
    /\ eligible(candidate)
    /\ blocked_by[candidate].by = "DeferredReturn"
    /\ candidate = Top.thread
    /\ blocked_by' = [blocked_by EXCEPT ![candidate] = NotBlocked]
    /\ switch_thread(candidate)
    /\ PopActivation(candidate)
    /\ scan' = ScanStart
    /\ UNCHANGED <<nthreads, active, due, panic, objectVars>>

ScanStillDeferred ==
    /\ Scanning
    /\ eligible(candidate)
    /\ blocked_by[candidate].by = "DeferredReturn"
    /\ candidate # Top.thread
    /\ NextCandidate
    /\ UNCHANGED <<threadVars, blocked_by, in_host_function, due, stack, phase,
                   panic, objectVars>>

----------------------------------------------------------------------------
(* The end of the scan *)

ScanDone == panic = "none" /\ phase = "scan" /\ scan.k = nthreads

\* switch_thread asserts that it is given another thread.
switch_if_other(new) ==
    IF new # current_thread THEN switch_thread(new)
                            ELSE UNCHANGED <<context, current_thread>>

\* A plausible slip: the woken thread runs without taking its mutex.
relock_never(new) == mutexes' = mutexes

relock(new) ==
    IF scan.relock = NoMutex
    THEN UNCHANGED mutexes
    ELSE mutexes' = relock_unblocked_mutex(mutexes, scan.relock, new)

ScanSwitch ==
    /\ ScanDone
    /\ scan.pick # NoThread
    /\ scan.relock # NoMutex =>
         lock_outcome(mutexes, scan.relock, scan.pick) = "acquires"
    /\ switch_if_other(scan.pick)
    /\ relock(scan.pick)
    /\ phase' = "guest"
    /\ scan' = ScanStart
    /\ UNCHANGED <<nthreads, active, blocked_by, in_host_function, due, stack,
                   panic, mutex_count, conds, sems>>

\* The mutex to relock has been destroyed: relock_unblocked_mutex unwraps None.
ScanRelockPanics ==
    /\ ScanDone
    /\ scan.pick # NoThread
    /\ scan.relock # NoMutex
    /\ relock_panics(mutexes, scan.relock, scan.pick)
    /\ Panic("internal")

\* Every thread is blocked and one is asleep: sleep on the host, scan again.
ScanHostSleep ==
    /\ ScanDone
    /\ scan.pick = NoThread
    /\ scan.nap
    /\ scan' = ScanStart
    /\ UNCHANGED <<threadVars, blocked_by, in_host_function, due, stack, phase,
                   panic, objectVars>>

ScanDeadlock ==
    /\ ScanDone
    /\ scan.pick = NoThread
    /\ ~scan.nap
    /\ Panic("deadlock")

\* Time passes: the deadline of a sleeping thread is reached.
Tick(t) ==
    /\ panic = "none"
    /\ blocked_by[t].by = "Sleeping"
    /\ t \notin due
    /\ due' = due \cup {t}
    /\ UNCHANGED <<threadVars, blocked_by, in_host_function, stack, phase, scan,
                   panic, objectVars>>

----------------------------------------------------------------------------
\* run_inner's search for the next thread, one loop iteration or exit
ScanStep ==
    \/ ScanSkip \/ ScanNotBlocked \/ ScanSleeping \/ ScanMutex
    \/ ScanSemaphore \/ ScanSemaphoreGone \/ ScanCondition \/ ScanJoining
    \/ ScanDeferredReturn \/ ScanStillDeferred
    \/ ScanSwitch \/ ScanRelockPanics \/ ScanHostSleep \/ ScanDeadlock

HostStep == HostCallsGuest \/ HostSleeps \/ HostReturns

GuestStep ==
    \/ Preempt \/ ThreadExit \/ MainThreadExit \/ TailSleep
    \/ GuestCall \/ ReturnToHost \/ DeferReturn

----------------------------------------------------------------------------
(* Invariants of the scheduler *)

\* Whatever the interleaving of switches, creations and nested calls, the
\* executing thread and it alone has no saved CPU context: "there should
\* always be (threads.len() - 1) contexts in existence" (struct Thread).
OneContextMissing ==
    \A t \in Threads : context[t] <=> t < nthreads /\ t # current_thread

\* The in_host_function flag is true of the thread whose host function is
\* executing and of no other, although every call saves and restores it on
\* whatever thread is current then: so no thread is ever left out of a scan.
HostFlagExact ==
    \A t \in Threads :
        in_host_function[t] <=> phase = "host" /\ t = current_thread

\* Guest and host code only ever execute on a thread that is alive and not
\* blocked: a wake-up, a deferred return or a nested call never resumes a
\* thread that is waiting for something or has exited.
RunsOnlyUnblocked ==
    phase \in {"guest", "host"} =>
        active[current_thread] /\ blocked_by[current_thread] = NotBlocked

\* The emulator executes exactly one thread: the one whose context is out, that
\* may run, and whose flag alone says whether its host function does.
ExecutionExact == OneContextMissing /\ HostFlagExact /\ RunsOnlyUnblocked

\* The host call stack alternates run_inner activations and host functions,
\* each activation belongs to the thread of the host function that made it,
\* and the saved flags are the ones a return has to restore.
StackShape ==
    /\ Len(stack) >= 1 /\ stack[1] = InnerFrame(0, FALSE, FALSE)
    /\ \A i \in 1 .. Len(stack) - 1 :
         \/ stack[i].f = "inner" /\ stack[i + 1].f = "host"
         \/ /\ stack[i].f = "host" /\ stack[i + 1].f = "inner"
            /\ stack[i + 1].thread = stack[i].thread
    /\ \A i \in 2 .. Len(stack) : stack[i].was <=> stack[i].f = "inner"
    /\ phase = "host" <=> Top.f = "host"
    /\ phase = "host" => Top.thread = current_thread

\* A thread that waits to return from a callback has one to return from, and
\* a thread with callbacks in progress has not exited.
DeferredHasCallback ==
    \A t \in Threads :
        /\ blocked_by[t].by = "DeferredReturn" => Callbacks(t) # {}
        /\ Callbacks(t) # {} => active[t]

\* The scan never returns to a callback of the thread that is already
\* executing: the assertion of switch_thread holds.
NoSelfSwitch ==
    phase = "scan" /\ blocked_by[current_thread].by = "DeferredReturn" =>
        Top.thread # current_thread

\* Only threads that exist are alive, and the thread a scan has chosen is
\* alive and unblocked when the scan ends.
PickIsRunnable ==
    /\ \A t \in Threads : active[t] => t < nthreads
    /\ current_thread < nthreads
    /\ phase = "scan" /\ scan.pick # NoThread =>
         active[scan.pick] /\ blocked_by[scan.pick] = NotBlocked

\* The inductive invariant of the scheduler
SchedInv ==
    /\ OneContextMissing
    /\ HostFlagExact
    /\ RunsOnlyUnblocked
    /\ StackShape
    /\ DeferredHasCallback
    /\ NoSelfSwitch
    /\ PickIsRunnable
=============================================================================
