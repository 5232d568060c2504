--------------------------- MODULE PthreadProofs ---------------------------
(***************************************************************************)
(* What TLAPS proves of the scheduler and the thread library for every     *)
(* number of threads, mutexes, condition variables and semaphores.         *)
(***************************************************************************)
EXTENDS Pthread, SequenceTheorems, TLAPS

----------------------------------------------------------------------------
(* The mutex table *)

\* Each operator on the mutex table returns a mutex table.
LEMMA MutexTableType ==
    ASSUME NEW M \in [MutexId -> Mutex], NEW m \in MutexId, NEW t \in Threads,
           NEW type \in MutexType
    PROVE  /\ init_mutex(M, m, type) \in [MutexId -> Mutex]
           /\ destroy_mutex(M, m) \in [MutexId -> Mutex]
           /\ lock_mutex(M, m, t) \in [MutexId -> Mutex]
           /\ relock_unblocked_mutex(M, m, t) \in [MutexId -> Mutex]
<1>1. Absent \in Mutex
  BY DEF Absent, Mutex, MutexType, NoThread
<1>2. init_mutex(M, m, type) \in [MutexId -> Mutex]
  BY <1>1 DEF init_mutex, Absent, Mutex
<1>3. destroy_mutex(M, m) \in [MutexId -> Mutex]
  BY <1>1 DEF destroy_mutex
<1>4. lock_mutex(M, m, t) \in [MutexId -> Mutex]
  <2>1. M[m] \in Mutex
    OBVIOUS
  <2>2. [M EXCEPT ![m].owner = t, ![m].count = 1] \in [MutexId -> Mutex]
    BY <2>1 DEF Mutex
  <2>3. [M EXCEPT ![m].count = @ + 1] \in [MutexId -> Mutex]
    BY <2>1 DEF Mutex
  <2>4. [M EXCEPT ![m].waiting_count = @ + 1] \in [MutexId -> Mutex]
    BY <2>1 DEF Mutex
  <2>5. QED
    BY <2>2, <2>3, <2>4 DEF lock_mutex
<1>5. relock_unblocked_mutex(M, m, t) \in [MutexId -> Mutex]
  <2> DEFINE L == lock_mutex(M, m, t)
  <2>1. L[m] \in Mutex
    BY <1>4
  <2>2. L[m].waiting_count > 0 =>
          [L EXCEPT ![m].waiting_count = @ - 1] \in [MutexId -> Mutex]
    BY <1>4, <2>1 DEF Mutex
  <2>3. QED
    BY <1>4, <2>2 DEF relock_unblocked_mutex
<1>6. QED
  BY <1>2, <1>3, <1>4, <1>5

\* An unlock that succeeds on a mutex that is held at least once returns a
\* mutex table; it is never called with a count of zero (HeldIsCounted).
LEMMA UnlockType ==
    ASSUME NEW M \in [MutexId -> Mutex], NEW m \in MutexId, NEW t \in Threads,
           M[m].owner # NoThread => M[m].count >= 1
    PROVE  unlock_mutex(M, m, t) \in [MutexId -> Mutex]
<1>1. M[m] \in Mutex
  OBVIOUS
<1>2. [M EXCEPT ![m].owner = NoThread, ![m].count = 0] \in [MutexId -> Mutex]
  BY <1>1 DEF Mutex
<1>3. unlock_outcome(M, m, t) = "unlocks" => M[m].owner = t
  BY DEF unlock_outcome
<1>4. t # NoThread
  BY BoundsAssumption DEF Threads, NoThread
<1>5. unlock_outcome(M, m, t) = "unlocks" =>
        [M EXCEPT ![m].count = @ - 1] \in [MutexId -> Mutex]
  BY <1>1, <1>3, <1>4 DEF Mutex
<1>6. QED
  BY <1>2, <1>5 DEF unlock_mutex

----------------------------------------------------------------------------
(* The scheduler *)

schedulerVars == <<nthreads, current_thread, active, blocked_by,
                   in_host_function, context, stack, phase, scan>>

\* The callbacks in progress are determined by the stack.
LEMMA CallbacksUnchanged ==
    ASSUME UNCHANGED stack
    PROVE  \A t : Callbacks(t)' = Callbacks(t)
BY DEF Callbacks

\* A step that leaves the scheduler's variables alone preserves its invariant.
LEMMA SchedUnchanged ==
    ASSUME SchedInv, UNCHANGED schedulerVars
    PROVE  SchedInv'
BY DEF SchedInv, schedulerVars, OneContextMissing, HostFlagExact,
       RunsOnlyUnblocked, StackShape, DeferredHasCallback, NoSelfSwitch,
       PickIsRunnable, Top, Callbacks

\* So does a library call that blocks the current thread.
LEMMA SchedBlock ==
    ASSUME TypeOK, SchedInv, phase = "guest",
           NEW b, b.by # "DeferredReturn",
           BlockCurrent(b),
           UNCHANGED <<threadVars, in_host_function, stack>>
    PROVE  SchedInv'
<1> USE DEF SchedInv, TypeOK, threadVars, BlockCurrent, Yield, ScanStart
<1>1. OneContextMissing'
  BY DEF OneContextMissing
<1>2. HostFlagExact'
  BY DEF HostFlagExact
<1>3. RunsOnlyUnblocked'
  BY DEF RunsOnlyUnblocked
<1>4. StackShape'
  BY DEF StackShape, Top
<1>5. DeferredHasCallback'
  BY CallbacksUnchanged DEF DeferredHasCallback
<1>6. NoSelfSwitch'
  BY DEF NoSelfSwitch
<1>7. PickIsRunnable'
  BY DEF PickIsRunnable
<1>8. QED
  BY <1>1, <1>2, <1>3, <1>4, <1>5, <1>6, <1>7

\* Pushing a frame on the host call stack
LEMMA PushFrame ==
    ASSUME TypeOK, NEW fr \in Frame, stack' = Append(stack, fr)
    PROVE  /\ stack' \in Seq(Frame)
           /\ Len(stack') = Len(stack) + 1
           /\ \A i \in 1 .. Len(stack) : stack'[i] = stack[i]
           /\ Top' = fr
BY DEF TypeOK, Top

\* The innermost frame is a frame.
LEMMA TopType ==
    ASSUME TypeOK
    PROVE  Top \in Frame
BY DEF TypeOK, Top

\* The call stack keeps its shape when a frame of the other kind is pushed.
LEMMA PushedShape ==
    ASSUME TypeOK, StackShape, NEW fr \in Frame,
           Len(stack') = Len(stack) + 1,
           \A i \in 1 .. Len(stack) : stack'[i] = stack[i],
           Top' = fr,
           fr.f # stack[Len(stack)].f,
           fr.f = "inner" => fr.thread = stack[Len(stack)].thread,
           fr.was <=> fr.f = "inner",
           phase' = "host" <=> fr.f = "host",
           phase' = "host" => fr.thread = current_thread'
    PROVE  StackShape'
<1>1. Len(stack) \in Nat /\ Len(stack) >= 1 /\ stack'[Len(stack) + 1] = fr
  BY DEF TypeOK, Top
<1>2. stack'[1] = InnerFrame(0, FALSE, FALSE)
  <2>1. 1 \in 1 .. Len(stack)
    BY <1>1
  <2>2. QED
    BY <2>1 DEF StackShape
<1>3. stack[Len(stack)].f \in {"inner", "host"} /\ fr.f \in {"inner", "host"}
  BY TopType DEF Top, Frame
<1>4. ASSUME NEW i \in 1 .. Len(stack') - 1
      PROVE  \/ stack'[i].f = "inner" /\ stack'[i + 1].f = "host"
             \/ /\ stack'[i].f = "host" /\ stack'[i + 1].f = "inner"
                /\ stack'[i + 1].thread = stack'[i].thread
  <2>1. CASE i = Len(stack)
    BY <1>1, <1>3, <2>1
  <2>2. CASE i \in 1 .. Len(stack) - 1
    <3>1. stack'[i] = stack[i] /\ stack'[i + 1] = stack[i + 1]
      BY <1>1, <2>2
    <3>2. QED
      BY <2>2, <3>1 DEF StackShape
  <2>3. QED
    BY <1>1, <2>1, <2>2
<1>5. ASSUME NEW i \in 2 .. Len(stack')
      PROVE  stack'[i].was <=> stack'[i].f = "inner"
  <2>1. CASE i = Len(stack) + 1
    BY <1>1, <2>1
  <2>2. CASE i \in 2 .. Len(stack)
    BY <1>1, <2>2 DEF StackShape
  <2>3. QED
    BY <1>1, <2>1, <2>2
<1>6. QED
  BY <1>1, <1>2, <1>4, <1>5 DEF StackShape

\* Popping a frame off the host call stack
LEMMA PopFrame ==
    ASSUME TypeOK, Len(stack) >= 2, stack' = Popped
    PROVE  /\ stack' \in Seq(Frame)
           /\ Len(stack') = Len(stack) - 1
           /\ \A i \in 1 .. Len(stack) - 1 : stack'[i] = stack[i]
           /\ Top' = stack[Len(stack) - 1]
<1>1. stack \in Seq(Frame) /\ Len(stack) \in Nat
  BY DEF TypeOK
<1>2. /\ SubSeq(stack, 1, Len(stack) - 1) \in Seq(Frame)
      /\ Len(SubSeq(stack, 1, Len(stack) - 1)) = Len(stack) - 1
      /\ \A i \in 1 .. Len(stack) - 1 :
            SubSeq(stack, 1, Len(stack) - 1)[i] = stack[i]
  BY <1>1
<1>3. QED
  BY <1>1, <1>2 DEF Popped, Top

\* The scheduler's invariant is preserved when a host function is entered.
LEMMA SchedGuestCall ==
    ASSUME TypeOK, SchedInv, GuestCall
    PROVE  SchedInv'
<1> USE DEF GuestCall, Running, threadVars
<1> DEFINE fr == HostFrame(current_thread, in_host_function[current_thread])
<1>1. fr \in Frame /\ fr.f = "host" /\ fr.thread = current_thread /\ fr.was = FALSE
  BY DEF TypeOK, HostFrame, Frame, SchedInv, HostFlagExact
<1>2. /\ Len(stack') = Len(stack) + 1 /\ Len(stack) \in Nat
      /\ \A i \in 1 .. Len(stack) : stack'[i] = stack[i]
      /\ Top' = fr /\ stack'[Len(stack) + 1] = fr
  BY <1>1, PushFrame DEF TypeOK, Top
<1>3. \A t : Callbacks(t)' = Callbacks(t)
  BY <1>1, <1>2 DEF Callbacks
<1>4. OneContextMissing'
  BY DEF SchedInv, OneContextMissing
<1>5. HostFlagExact'
  BY DEF SchedInv, HostFlagExact, TypeOK
<1>6. RunsOnlyUnblocked'
  BY DEF SchedInv, RunsOnlyUnblocked
<1>7. StackShape'
  <2>1. stack[Len(stack)].f = "inner"
    BY TopType DEF SchedInv, StackShape, Top, Frame
  <2>2. QED
    BY <1>1, <1>2, <2>1, PushedShape DEF SchedInv
<1>8. DeferredHasCallback'
  BY <1>3 DEF SchedInv, DeferredHasCallback
<1>9. NoSelfSwitch'
  BY DEF NoSelfSwitch
<1>10. PickIsRunnable'
  BY DEF SchedInv, PickIsRunnable
<1>11. QED
  BY <1>4, <1>5, <1>6, <1>7, <1>8, <1>9, <1>10 DEF SchedInv

\* It is preserved when a host function calls guest code or goes to sleep.
LEMMA SchedRunCall ==
    ASSUME TypeOK, SchedInv, phase = "host", NEW nap \in BOOLEAN, run_call(nap),
           UNCHANGED threadVars,
           \/ phase' = "guest" /\ UNCHANGED <<blocked_by, scan>>
           \/ BlockCurrent(BlockedOn("Sleeping", 0))
    PROVE  SchedInv'
<1> USE DEF run_call, threadVars
<1> DEFINE fr == InnerFrame(current_thread, in_host_function[current_thread], nap)
<1>1. fr \in Frame /\ fr.f = "inner" /\ fr.thread = current_thread /\ fr.was = TRUE
  BY DEF TypeOK, InnerFrame, Frame, SchedInv, HostFlagExact
<1>2. /\ Len(stack') = Len(stack) + 1 /\ Len(stack) \in Nat
      /\ \A i \in 1 .. Len(stack) : stack'[i] = stack[i]
      /\ Top' = fr /\ stack'[Len(stack) + 1] = fr
  BY <1>1, PushFrame DEF TypeOK, Top
<1>3. \A t : Callbacks(t) \subseteq Callbacks(t)'
  BY <1>2 DEF Callbacks
<1>4. \A t : t # current_thread => Callbacks(t)' = Callbacks(t)
  BY <1>1, <1>2 DEF Callbacks
<1>5. \/ phase' = "guest" /\ blocked_by' = blocked_by /\ scan' = scan
      \/ /\ phase' = "scan" /\ scan' = ScanStart
         /\ blocked_by' = [blocked_by EXCEPT ![current_thread] = BlockedOn("Sleeping", 0)]
  BY DEF BlockCurrent, Yield
<1>6. phase' \in {"guest", "scan"}
  BY <1>5
<1>7. OneContextMissing'
  BY DEF SchedInv, OneContextMissing
<1>8. HostFlagExact'
  BY <1>6 DEF SchedInv, HostFlagExact, TypeOK
<1>9. RunsOnlyUnblocked'
  BY <1>5 DEF SchedInv, RunsOnlyUnblocked
<1>10. StackShape'
  <2>1. stack[Len(stack)].f = "host" /\ stack[Len(stack)].thread = current_thread
    BY DEF SchedInv, StackShape, Top
  <2>2. QED
    BY <1>1, <1>2, <1>6, <2>1, PushedShape DEF SchedInv
<1>11. DeferredHasCallback'
  <2> SUFFICES ASSUME NEW t \in Threads
               PROVE  /\ blocked_by'[t].by = "DeferredReturn" => Callbacks(t)' # {}
                      /\ Callbacks(t)' # {} => active[t]
    BY DEF DeferredHasCallback
  <2>1. blocked_by'[t].by = "DeferredReturn" => blocked_by[t].by = "DeferredReturn"
    <3>1. CASE blocked_by' = blocked_by
      BY <3>1
    <3>2. CASE blocked_by' = [blocked_by EXCEPT ![current_thread] = BlockedOn("Sleeping", 0)]
      BY <3>2 DEF TypeOK, BlockedOn
    <3>3. QED
      BY <1>5, <3>1, <3>2
  <2>2. active[current_thread]
    BY DEF SchedInv, RunsOnlyUnblocked
  <2>3. QED
    BY <1>3, <1>4, <2>1, <2>2 DEF SchedInv, DeferredHasCallback
<1>12. NoSelfSwitch'
  BY <1>5 DEF NoSelfSwitch, TypeOK, BlockedOn
<1>13. PickIsRunnable'
  BY <1>5 DEF SchedInv, PickIsRunnable, ScanStart
<1>14. QED
  BY <1>7, <1>8, <1>9, <1>10, <1>11, <1>12, <1>13 DEF SchedInv

\* The call stack keeps its shape when its innermost frame is popped, if the
\* phase is the one of the frame below.
LEMMA PoppedShape ==
    ASSUME TypeOK, StackShape, Len(stack) >= 2, stack' = Popped,
           phase' = "host" <=> Top.f = "inner",
           phase' = "host" => current_thread' = Top.thread
    PROVE  StackShape'
<1>1. /\ Len(stack) \in Nat /\ Len(stack') = Len(stack) - 1
      /\ \A i \in 1 .. Len(stack) - 1 : stack'[i] = stack[i]
      /\ Top' = stack[Len(stack) - 1]
  BY PopFrame DEF TypeOK
<1>2. Len(stack) - 1 \in 1 .. Len(stack) - 1 /\ (Len(stack) - 1) + 1 = Len(stack)
  BY <1>1
<1>3. \/ Top'.f = "inner" /\ Top.f = "host"
      \/ Top'.f = "host" /\ Top.f = "inner" /\ Top.thread = Top'.thread
  BY <1>1, <1>2 DEF StackShape, Top
<1>4. stack'[1] = InnerFrame(0, FALSE, FALSE) /\ Len(stack') >= 1
  <2>1. 1 \in 1 .. Len(stack) - 1
    BY <1>1
  <2>2. stack'[1] = stack[1]
    BY <1>1, <2>1
  <2>3. QED
    BY <1>1, <2>2 DEF StackShape
<1>5. ASSUME NEW i \in 1 .. Len(stack') - 1
      PROVE  \/ stack'[i].f = "inner" /\ stack'[i + 1].f = "host"
             \/ /\ stack'[i].f = "host" /\ stack'[i + 1].f = "inner"
                /\ stack'[i + 1].thread = stack'[i].thread
  <2>1. i \in 1 .. Len(stack) - 1 /\ i + 1 \in 1 .. Len(stack) - 1
    BY <1>1
  <2>2. stack'[i] = stack[i] /\ stack'[i + 1] = stack[i + 1]
    BY <1>1, <2>1
  <2>3. QED
    BY <2>1, <2>2 DEF StackShape
<1>6. ASSUME NEW i \in 2 .. Len(stack')
      PROVE  stack'[i].was <=> stack'[i].f = "inner"
  <2>1. i \in 1 .. Len(stack) - 1 /\ i \in 2 .. Len(stack)
    BY <1>1
  <2>2. QED
    BY <1>1, <2>1 DEF StackShape
<1>7. QED
  BY <1>3, <1>4, <1>5, <1>6 DEF StackShape

\* Popping an activation of thread t leaves the callbacks of the others.
LEMMA PoppedCallbacks ==
    ASSUME TypeOK, Len(stack) >= 2, stack' = Popped
    PROVE  /\ \A t : Callbacks(t)' \subseteq Callbacks(t)
           /\ \A t : Top.f # "inner" \/ Top.thread # t => Callbacks(t)' = Callbacks(t)
<1>1. /\ Len(stack) \in Nat /\ Len(stack') = Len(stack) - 1
      /\ \A i \in 1 .. Len(stack) - 1 : stack'[i] = stack[i]
  BY PopFrame DEF TypeOK
<1>2. QED
  BY <1>1 DEF Callbacks, Top

\* A thread with a callback in progress is not alone on the stack.
LEMMA CallbackDepth ==
    ASSUME TypeOK, NEW t, Callbacks(t) # {}
    PROVE  Len(stack) >= 2
BY DEF Callbacks, TypeOK

\* A host function returns to guest code.
LEMMA SchedHostReturns ==
    ASSUME TypeOK, SchedInv, HostReturns
    PROVE  SchedInv'
<1> USE DEF HostReturns, threadVars
<1>1. Top.f = "host" /\ Top.thread = current_thread
  BY DEF SchedInv, StackShape
<1>2. Len(stack) \in Nat /\ Len(stack) >= 2 /\ Len(stack) \in 2 .. Len(stack)
  <2>1. Len(stack) \in Nat /\ Len(stack) >= 1
    BY DEF TypeOK
  <2>2. Len(stack) # 1
    BY <1>1 DEF SchedInv, StackShape, Top, InnerFrame
  <2>3. \A n \in Nat : n >= 1 /\ n # 1 => n >= 2 /\ n \in 2 .. n
    OBVIOUS
  <2>4. QED
    BY <2>1, <2>2, <2>3
<1>3. Top.was = FALSE
  <2>1. Top.was <=> Top.f = "inner"
    BY <1>2 DEF SchedInv, StackShape, Top
  <2>2. QED
    BY <1>1, <2>1, TopType DEF Frame
<1>4. \A t : Callbacks(t)' = Callbacks(t)
  BY <1>1, <1>2, PoppedCallbacks
<1>5. OneContextMissing'
  BY DEF SchedInv, OneContextMissing
<1>6. HostFlagExact'
  BY <1>3 DEF SchedInv, HostFlagExact, TypeOK
<1>7. RunsOnlyUnblocked'
  BY DEF SchedInv, RunsOnlyUnblocked
<1>8. StackShape'
  BY <1>1, <1>2, PoppedShape DEF SchedInv
<1>9. DeferredHasCallback'
  BY <1>4 DEF SchedInv, DeferredHasCallback
<1>10. NoSelfSwitch' /\ PickIsRunnable'
  BY DEF SchedInv, NoSelfSwitch, PickIsRunnable
<1>11. QED
  BY <1>5, <1>6, <1>7, <1>8, <1>9, <1>10 DEF SchedInv

\* The innermost activation belongs to t and returns: t goes on in the host
\* function that made the call.
LEMMA SchedPopActivation ==
    ASSUME TypeOK, SchedInv, phase \in {"guest", "scan"},
           NEW t \in Threads, t = Top.thread, Callbacks(t) # {}, active[t],
           PopActivation(t), current_thread' = t,
           blocked_by' = [blocked_by EXCEPT ![t] = NotBlocked],
           UNCHANGED <<nthreads, active>>, OneContextMissing'
    PROVE  SchedInv'
<1> USE DEF PopActivation
<1>1. Len(stack) \in Nat /\ Len(stack) >= 2 /\ Len(stack) \in 2 .. Len(stack)
  BY CallbackDepth DEF TypeOK
<1>2. Top.f = "inner"
  BY TopType DEF SchedInv, StackShape, Frame
<1>3. Top.was = TRUE
  <2>1. Top.was <=> Top.f = "inner"
    BY <1>1 DEF SchedInv, StackShape, Top
  <2>2. QED
    BY <1>2, <2>1, TopType DEF Frame
<1>4. HostFlagExact'
  BY <1>3 DEF SchedInv, HostFlagExact, TypeOK
<1>5. RunsOnlyUnblocked'
  BY DEF RunsOnlyUnblocked, TypeOK
<1>6. StackShape'
  BY <1>1, <1>2, PoppedShape DEF SchedInv
<1>7. DeferredHasCallback'
  <2> SUFFICES ASSUME NEW u \in Threads
               PROVE  /\ blocked_by'[u].by = "DeferredReturn" => Callbacks(u)' # {}
                      /\ Callbacks(u)' # {} => active[u]
    BY DEF DeferredHasCallback
  <2>1. CASE u = t
    BY <2>1 DEF TypeOK, NotBlocked
  <2>2. CASE u # t
    <3>1. Callbacks(u)' = Callbacks(u) /\ blocked_by'[u] = blocked_by[u]
      BY <1>1, <2>2, PoppedCallbacks DEF TypeOK
    <3>2. QED
      BY <3>1 DEF SchedInv, DeferredHasCallback
  <2>3. QED
    BY <2>1, <2>2
<1>8. NoSelfSwitch'
  BY DEF NoSelfSwitch
<1>9. PickIsRunnable'
  <2>1. \A u \in Threads : active[u] => u < nthreads
    BY DEF SchedInv, PickIsRunnable
  <2>2. QED
    BY <2>1 DEF PickIsRunnable
<1>10. QED
  BY <1>4, <1>5, <1>6, <1>7, <1>8, <1>9 DEF SchedInv

\* The candidate of the scan is an existing thread.
LEMMA CandidateType ==
    ASSUME TypeOK
    PROVE  candidate \in Threads /\ candidate < nthreads
<1>1. nthreads \in 1 .. MaxThreads /\ current_thread \in Nat /\ scan.k \in Nat
  BY BoundsAssumption DEF TypeOK, Scan, Threads
<1>2. \A n \in Nat \ {0}, x \in Nat : x % n \in 0 .. n - 1
  OBVIOUS
<1>3. nthreads \in Nat \ {0} /\ current_thread + 1 + scan.k \in Nat
  BY <1>1
<1>4. (current_thread + 1 + scan.k) % nthreads \in 0 .. nthreads - 1
  BY <1>2, <1>3
<1>5. candidate \in 0 .. nthreads - 1
  BY <1>4 DEF candidate
<1>6. QED
  BY <1>1, <1>5, BoundsAssumption DEF Threads

\* A scan step that at most unblocks the candidate it picks, or that leaves
\* the threads alone, preserves the scheduler's invariant.
LEMMA SchedPick ==
    ASSUME TypeOK, SchedInv, phase = "scan", phase' = "scan",
           NEW i \in Threads, active[i],
           blocked_by' = [blocked_by EXCEPT ![i] = NotBlocked],
           scan'.pick = i,
           UNCHANGED <<threadVars, in_host_function, stack>>
    PROVE  SchedInv'
<1> USE DEF threadVars
<1>1. \A t \in Threads : blocked_by'[t] = IF t = i THEN NotBlocked ELSE blocked_by[t]
  BY DEF TypeOK
<1>2. NotBlocked.by # "DeferredReturn"
  BY DEF NotBlocked
<1>3. OneContextMissing' /\ HostFlagExact' /\ RunsOnlyUnblocked'
  BY DEF SchedInv, OneContextMissing, HostFlagExact, RunsOnlyUnblocked
<1>4. StackShape'
  BY DEF SchedInv, StackShape, Top
<1>5. DeferredHasCallback'
  BY <1>1, <1>2, CallbacksUnchanged DEF SchedInv, DeferredHasCallback
<1>6. NoSelfSwitch'
  BY <1>1, <1>2 DEF SchedInv, NoSelfSwitch, TypeOK, Top
<1>7. PickIsRunnable'
  BY <1>1 DEF SchedInv, PickIsRunnable
<1>8. QED
  BY <1>3, <1>4, <1>5, <1>6, <1>7 DEF SchedInv

\* A scan step that passes over a candidate preserves it too.
LEMMA SchedPass ==
    ASSUME TypeOK, SchedInv, phase = "scan", phase' = "scan",
           scan'.pick \in {scan.pick, NoThread},
           UNCHANGED <<threadVars, blocked_by, in_host_function, stack>>
    PROVE  SchedInv'
<1> USE DEF threadVars
<1>1. OneContextMissing' /\ HostFlagExact' /\ RunsOnlyUnblocked'
  BY DEF SchedInv, OneContextMissing, HostFlagExact, RunsOnlyUnblocked
<1>2. StackShape'
  BY DEF SchedInv, StackShape, Top
<1>3. DeferredHasCallback'
  BY CallbacksUnchanged DEF SchedInv, DeferredHasCallback
<1>4. NoSelfSwitch'
  BY DEF SchedInv, NoSelfSwitch, Top
<1>5. PickIsRunnable'
  BY DEF SchedInv, PickIsRunnable
<1>6. QED
  BY <1>1, <1>2, <1>3, <1>4, <1>5 DEF SchedInv

\* Switching to another existing thread moves the missing context to it.
LEMMA SwitchContexts ==
    ASSUME TypeOK, OneContextMissing, current_thread < nthreads,
           NEW new \in Threads, new < nthreads,
           new # current_thread, switch_thread(new), UNCHANGED nthreads
    PROVE  OneContextMissing'
<1> SUFFICES ASSUME NEW t \in Threads
             PROVE  context'[t] <=> t < nthreads /\ t # new
  BY DEF OneContextMissing, switch_thread
<1>1. context'[t] = IF t = current_thread THEN TRUE
                    ELSE IF t = new THEN FALSE ELSE context[t]
  BY DEF TypeOK, switch_thread
<1>2. context[t] <=> t < nthreads /\ t # current_thread
  BY DEF OneContextMissing
<1>3. QED
  BY <1>1, <1>2

\* The scan's deferred return: the thread switched to is another one.
LEMMA SchedScanDeferredReturn ==
    ASSUME TypeOK, SchedInv, ScanDeferredReturn
    PROVE  SchedInv'
<1> USE DEF ScanDeferredReturn, Scanning, eligible
<1>1. candidate \in Threads /\ candidate < nthreads
  BY CandidateType
<1>2. candidate # current_thread
  BY DEF SchedInv, NoSelfSwitch
<1>3. OneContextMissing'
  BY <1>1, <1>2, SwitchContexts DEF SchedInv, PickIsRunnable
<1>4. Callbacks(candidate) # {}
  BY <1>1 DEF SchedInv, DeferredHasCallback
<1>5. QED
  BY <1>1, <1>3, <1>4, SchedPopActivation DEF switch_thread

\* The end of a scan: the picked thread executes.
LEMMA SchedScanSwitch ==
    ASSUME TypeOK, SchedInv, ScanSwitch
    PROVE  SchedInv'
<1> USE DEF ScanSwitch, ScanDone
<1>1. /\ scan.pick \in Threads /\ scan.pick < nthreads
      /\ active[scan.pick] /\ blocked_by[scan.pick] = NotBlocked
  BY DEF TypeOK, Scan, SchedInv, PickIsRunnable
<1>2. current_thread' = scan.pick
  BY DEF switch_if_other, switch_thread
<1>3. OneContextMissing'
  <2>1. CASE scan.pick # current_thread
    BY <1>1, <2>1, SwitchContexts DEF SchedInv, PickIsRunnable, switch_if_other
  <2>2. CASE scan.pick = current_thread
    BY <2>2 DEF SchedInv, OneContextMissing, switch_if_other
  <2>3. QED
    BY <2>1, <2>2
<1>4. HostFlagExact' /\ RunsOnlyUnblocked' /\ NoSelfSwitch'
  BY <1>1, <1>2 DEF SchedInv, HostFlagExact, RunsOnlyUnblocked, NoSelfSwitch
<1>5. StackShape'
  BY DEF SchedInv, StackShape, Top
<1>6. DeferredHasCallback'
  BY CallbacksUnchanged DEF SchedInv, DeferredHasCallback
<1>7. PickIsRunnable'
  BY <1>1, <1>2 DEF SchedInv, PickIsRunnable
<1>8. QED
  BY <1>3, <1>4, <1>5, <1>6, <1>7 DEF SchedInv

\* The current thread yields: its ticks are used up, its start routine has
\* returned, or it has to wait for its turn to return from a callback.
LEMMA SchedYield ==
    ASSUME TypeOK, SchedInv, Preempt \/ ThreadExit \/ DeferReturn
    PROVE  SchedInv'
<1> USE DEF threadVars
<1>1. CASE Preempt
  <2> USE <1>1 DEF Preempt, Running, Yield, ScanStart
  <2>1. OneContextMissing' /\ HostFlagExact' /\ RunsOnlyUnblocked' /\ PickIsRunnable'
    BY DEF SchedInv, OneContextMissing, HostFlagExact, RunsOnlyUnblocked,
           PickIsRunnable
  <2>2. StackShape'
    BY DEF SchedInv, StackShape, Top
  <2>3. DeferredHasCallback'
    BY CallbacksUnchanged DEF SchedInv, DeferredHasCallback
  <2>4. NoSelfSwitch'
    BY DEF SchedInv, NoSelfSwitch, RunsOnlyUnblocked, NotBlocked
  <2>5. QED
    BY <2>1, <2>2, <2>3, <2>4 DEF SchedInv
<1>2. CASE ThreadExit
  <2> USE <1>2 DEF ThreadExit, Running, Yield, ScanStart
  <2>1. \A t \in Threads : active'[t] = IF t = current_thread THEN FALSE ELSE active[t]
    BY DEF TypeOK
  <2>2. OneContextMissing' /\ HostFlagExact' /\ RunsOnlyUnblocked'
    BY DEF SchedInv, OneContextMissing, HostFlagExact, RunsOnlyUnblocked
  <2>3. StackShape'
    BY DEF SchedInv, StackShape, Top
  <2>4. DeferredHasCallback'
    BY <2>1, CallbacksUnchanged DEF SchedInv, DeferredHasCallback
  <2>5. NoSelfSwitch'
    BY DEF SchedInv, NoSelfSwitch, RunsOnlyUnblocked, NotBlocked
  <2>6. PickIsRunnable'
    BY <2>1 DEF SchedInv, PickIsRunnable
  <2>7. QED
    BY <2>2, <2>3, <2>4, <2>5, <2>6 DEF SchedInv
<1>3. CASE DeferReturn
  <2> USE <1>3 DEF DeferReturn, return_is_deferred, BlockCurrent, Yield, ScanStart
  <2>1. OneContextMissing' /\ HostFlagExact' /\ RunsOnlyUnblocked' /\ PickIsRunnable'
    BY DEF SchedInv, OneContextMissing, HostFlagExact, RunsOnlyUnblocked,
           PickIsRunnable
  <2>2. StackShape'
    BY DEF SchedInv, StackShape, Top
  <2>3. DeferredHasCallback'
    <3>1. \A t \in Threads : t # current_thread => blocked_by'[t] = blocked_by[t]
      BY DEF TypeOK
    <3>2. QED
      BY <3>1, CallbacksUnchanged DEF SchedInv, DeferredHasCallback
  <2>4. NoSelfSwitch'
    BY DEF NoSelfSwitch, Top
  <2>5. QED
    BY <2>1, <2>2, <2>3, <2>4 DEF SchedInv
<1>4. QED
  BY <1>1, <1>2, <1>3

\* A new thread is created by the current one.
LEMMA SchedNewThread ==
    ASSUME TypeOK, SchedInv, phase = "guest", nthreads < MaxThreads, new_thread,
           UNCHANGED <<blocked_by, in_host_function, stack, phase, scan>>
    PROVE  SchedInv'
<1> USE DEF new_thread
<1>1. nthreads \in Threads /\ nthreads \in Nat
  BY BoundsAssumption DEF TypeOK, Threads
<1>2. \A t \in Threads : /\ context'[t] = IF t = nthreads THEN TRUE ELSE context[t]
                         /\ active'[t] = IF t = nthreads THEN TRUE ELSE active[t]
  BY DEF TypeOK
<1>3. current_thread < nthreads /\ current_thread # nthreads
  BY <1>1 DEF SchedInv, PickIsRunnable, TypeOK, Threads
<1>4. OneContextMissing'
  <2> SUFFICES ASSUME NEW t \in Threads
               PROVE  context'[t] <=> t < nthreads + 1 /\ t # current_thread
    BY DEF OneContextMissing
  <2>1. t < nthreads + 1 <=> t < nthreads \/ t = nthreads
    BY <1>1 DEF Threads
  <2>2. context[t] <=> t < nthreads /\ t # current_thread
    BY DEF SchedInv, OneContextMissing
  <2>3. QED
    BY <1>2, <1>3, <2>1, <2>2
<1>5. HostFlagExact'
  BY DEF SchedInv, HostFlagExact
<1>6. RunsOnlyUnblocked'
  BY <1>2, <1>3 DEF SchedInv, RunsOnlyUnblocked, TypeOK
<1>7. StackShape'
  BY DEF SchedInv, StackShape, Top
<1>8. DeferredHasCallback'
  BY <1>2, CallbacksUnchanged DEF SchedInv, DeferredHasCallback
<1>9. NoSelfSwitch'
  BY DEF NoSelfSwitch
<1>10. PickIsRunnable'
  <2>1. \A t \in Threads : active'[t] => t < nthreads + 1
    BY <1>1, <1>2 DEF SchedInv, PickIsRunnable, Threads
  <2>2. current_thread' < nthreads'
    BY <1>1, <1>3 DEF TypeOK, Threads
  <2>3. QED
    BY <2>1, <2>2 DEF PickIsRunnable
<1>11. QED
  BY <1>4, <1>5, <1>6, <1>7, <1>8, <1>9, <1>10 DEF SchedInv

\* One iteration of the scan preserves the scheduler's invariant.
LEMMA SchedScanStep ==
    ASSUME TypeOK, SchedInv, ScanStep
    PROVE  SchedInv'
<1> USE DEF threadVars
<1>1. candidate \in Threads
  BY CandidateType
<1>2. scan \in Scan
  BY DEF TypeOK
<1>3. CASE ScanSkip \/ ScanStillDeferred
  BY <1>2, <1>3, SchedPass DEF ScanSkip, ScanStillDeferred, Scanning,
     NextCandidate, Scan
<1>4. CASE ScanNotBlocked
  BY <1>1, <1>2, <1>4, SchedPick DEF ScanNotBlocked, Scanning, PickAndBreak,
     eligible, Scan
<1>5. CASE ScanSleeping
  <2>1. CASE candidate \in due
    BY <1>1, <1>2, <1>5, <2>1, SchedPick DEF ScanSleeping, Scanning,
       PickAndBreak, eligible, Scan
  <2>2. CASE candidate \notin due
    BY <1>2, <1>5, <2>2, SchedPass DEF ScanSleeping, Scanning, sleeper_noted, Scan
  <2>3. QED
    BY <2>1, <2>2
<1>6. CASE ScanMutex
  <2>1. CASE mutex_wakes(blocked_by[candidate].on)
    BY <1>1, <1>2, <1>6, <2>1, SchedPick DEF ScanMutex, Scanning, eligible, Scan
  <2>2. CASE ~mutex_wakes(blocked_by[candidate].on)
    BY <1>2, <1>6, <2>2, SchedPass DEF ScanMutex, Scanning, NextCandidate, Scan
  <2>3. QED
    BY <2>1, <2>2
<1>7. CASE ScanSemaphore
  <2>1. CASE sem_available(blocked_by[candidate].on)
    BY <1>1, <1>2, <1>7, <2>1, SchedPick DEF ScanSemaphore, Scanning,
       PickAndBreak, eligible, Scan
  <2>2. CASE ~sem_available(blocked_by[candidate].on)
    BY <1>2, <1>7, <2>2, SchedPass DEF ScanSemaphore, Scanning, NextCandidate, Scan
  <2>3. QED
    BY <2>1, <2>2
<1>8. CASE ScanCondition
  <2>1. CASE cond_wakes(blocked_by[candidate].on, candidate)
    BY <1>1, <1>2, <1>8, <2>1, SchedPick DEF ScanCondition, Scanning, eligible, Scan
  <2>2. CASE ~cond_wakes(blocked_by[candidate].on, candidate)
    BY <1>2, <1>8, <2>2, SchedPass DEF ScanCondition, Scanning, NextCandidate, Scan
  <2>3. QED
    BY <2>1, <2>2
<1>9. CASE ScanJoining
  <2>1. CASE join_completes(blocked_by[candidate].on)
    BY <1>1, <1>2, <1>9, <2>1, SchedPick DEF ScanJoining, Scanning,
       PickAndBreak, eligible, Scan
  <2>2. CASE ~join_completes(blocked_by[candidate].on)
    BY <1>2, <1>9, <2>2, SchedPass DEF ScanJoining, Scanning, NextCandidate, Scan
  <2>3. QED
    BY <2>1, <2>2
<1>10. CASE ScanDeferredReturn
  BY <1>10, SchedScanDeferredReturn
<1>11. CASE ScanSwitch
  BY <1>11, SchedScanSwitch
<1>12. CASE ScanHostSleep
  BY <1>2, <1>12, SchedPass DEF ScanHostSleep, ScanDone, ScanStart, Scan
<1>13. CASE ScanSemaphoreGone \/ ScanRelockPanics \/ ScanDeadlock
  BY <1>13, SchedUnchanged DEF ScanSemaphoreGone, ScanRelockPanics,
     ScanDeadlock, Panic, schedulerVars
<1>14. QED
  BY <1>3, <1>4, <1>5, <1>6, <1>7, <1>8, <1>9, <1>10, <1>11, <1>12, <1>13
     DEF ScanStep

\* Steps of host functions and of guest code outside the thread library
LEMMA SchedHostGuestStep ==
    ASSUME TypeOK, SchedInv, HostStep \/ GuestStep
    PROVE  SchedInv'
<1>1. CASE HostCallsGuest
  BY <1>1, SchedRunCall DEF HostCallsGuest
<1>2. CASE HostSleeps
  BY <1>2, SchedRunCall DEF HostSleeps
<1>3. CASE HostReturns
  BY <1>3, SchedHostReturns
<1>4. CASE Preempt \/ ThreadExit \/ DeferReturn
  BY <1>4, SchedYield
<1>5. CASE MainThreadExit
  BY <1>5, SchedUnchanged DEF MainThreadExit, Panic, schedulerVars
<1>6. CASE TailSleep
  <2>1. BlockedOn("Sleeping", 0).by # "DeferredReturn"
    BY DEF BlockedOn
  <2>2. QED
    BY <1>6, <2>1, SchedBlock DEF TailSleep, Running
<1>7. CASE GuestCall
  BY <1>7, SchedGuestCall
<1>8. CASE ReturnToHost
  <2> USE <1>8 DEF ReturnToHost, return_is_deferred, threadVars
  <2>1. current_thread \in Threads /\ active[current_thread]
    BY DEF TypeOK, SchedInv, RunsOnlyUnblocked
  <2>2. blocked_by' = [blocked_by EXCEPT ![current_thread] = NotBlocked]
    BY DEF TypeOK, SchedInv, RunsOnlyUnblocked
  <2>3. OneContextMissing'
    BY DEF SchedInv, OneContextMissing
  <2>4. QED
    BY <2>1, <2>2, <2>3, SchedPopActivation
<1>9. QED
  BY <1>1, <1>2, <1>3, <1>4, <1>5, <1>6, <1>7, <1>8 DEF HostStep, GuestStep

\* Library calls
LEMMA SchedLibraryCall ==
    ASSUME TypeOK, SchedInv, LibraryCall
    PROVE  SchedInv'
<1> USE DEF Running, schedVars, threadVars, Continue, Panic, schedulerVars
<1>1. \A x : /\ BlockedOn("Mutex", x).by # "DeferredReturn"
             /\ BlockedOn("Condition", x).by # "DeferredReturn"
             /\ BlockedOn("Semaphore", x).by # "DeferredReturn"
             /\ BlockedOn("Joining", x).by # "DeferredReturn"
  BY DEF BlockedOn
<1>2. ASSUME NEW h \in Handles,
             \/ pthread_mutex_init(h) \/ pthread_mutex_trylock(h)
             \/ pthread_mutex_unlock(h) \/ pthread_mutex_misuse(h)
             \/ pthread_mutex_destroy(h)
      PROVE  SchedInv'
  BY <1>2, SchedUnchanged DEF pthread_mutex_init, pthread_mutex_trylock,
     pthread_mutex_unlock, pthread_mutex_misuse, pthread_mutex_destroy
<1>3. ASSUME NEW h \in Handles, pthread_mutex_lock(h)
      PROVE  SchedInv'
  <2>1. CASE lock_outcome(TableFor(h), MutexOf(h), current_thread) = "blocks"
    BY <1>1, <1>3, <2>1, SchedBlock DEF pthread_mutex_lock
  <2>2. CASE lock_outcome(TableFor(h), MutexOf(h), current_thread) # "blocks"
    BY <1>3, <2>2, SchedUnchanged DEF pthread_mutex_lock
  <2>3. QED
    BY <2>1, <2>2
<1>4. ASSUME NEW c \in Conds,
             \/ pthread_cond_init(c) \/ pthread_cond_signal(c)
             \/ pthread_cond_broadcast(c) \/ pthread_cond_destroy(c)
      PROVE  SchedInv'
  BY <1>4, SchedUnchanged DEF pthread_cond_init, pthread_cond_signal,
     pthread_cond_broadcast, pthread_cond_destroy
<1>5. ASSUME NEW c \in Conds, NEW h \in Handles, pthread_cond_wait(c, h)
      PROVE  SchedInv'
  BY <1>1, <1>5, SchedBlock DEF pthread_cond_wait
<1>6. ASSUME NEW c \in Conds, NEW h \in Handles, pthread_cond_misuse(c, h)
      PROVE  SchedInv'
  BY <1>6, SchedUnchanged DEF pthread_cond_misuse
<1>7. ASSUME NEW s \in Sems,
             sem_init(s) \/ sem_destroy(s) \/ sem_post(s) \/ sem_misuse(s)
      PROVE  SchedInv'
  BY <1>7, SchedUnchanged DEF sem_init, sem_destroy, sem_post, sem_misuse
<1>8. ASSUME NEW s \in Sems, sem_wait(s)
      PROVE  SchedInv'
  <2>1. CASE sems[s].value > 0
    BY <1>8, <2>1, SchedUnchanged DEF sem_wait
  <2>2. CASE ~(sems[s].value > 0)
    BY <1>1, <1>8, <2>2, SchedBlock DEF sem_wait
  <2>3. QED
    BY <2>1, <2>2
<1>9. CASE pthread_create
  BY <1>9, SchedNewThread DEF pthread_create
<1>10. CASE pthread_join_main
  BY <1>10, SchedUnchanged DEF pthread_join_main
<1>11. ASSUME NEW t \in Threads, pthread_join(t)
       PROVE  SchedInv'
  BY <1>1, <1>11, SchedBlock DEF pthread_join
<1>12. QED
  BY <1>2, <1>3, <1>4, <1>5, <1>6, <1>7, <1>8, <1>9, <1>10, <1>11 DEF LibraryCall

\* Every step preserves the scheduler's invariant.
LEMMA SchedNext ==
    ASSUME TypeOK, SchedInv, [Next]_vars
    PROVE  SchedInv'
<1>1. CASE LibraryCall
  BY <1>1, SchedLibraryCall
<1>2. CASE EnvironmentStep
  <2>1. CASE \E t \in Threads : Tick(t)
    BY <2>1, SchedUnchanged DEF Tick, threadVars, schedulerVars
  <2>2. QED
    BY <1>2, <2>1, SchedScanStep, SchedHostGuestStep DEF EnvironmentStep
<1>3. CASE Terminated \/ UNCHANGED vars
  BY <1>3, SchedUnchanged DEF Terminated, vars, envVars, schedulerVars
<1>4. QED
  BY <1>1, <1>2, <1>3 DEF Next

----------------------------------------------------------------------------
(* Types *)

\* The operators on the mutex table keep owners and counts in step.
LEMMA HeldIsCountedKept ==
    ASSUME NEW M \in [MutexId -> Mutex], NEW m \in MutexId, NEW t \in Threads,
           NEW type \in MutexType, HeldIsCounted(M)
    PROVE  /\ HeldIsCounted(init_mutex(M, m, type))
           /\ HeldIsCounted(destroy_mutex(M, m))
           /\ HeldIsCounted(lock_mutex(M, m, t))
           /\ HeldIsCounted(unlock_mutex(M, m, t))
           /\ HeldIsCounted(relock_unblocked_mutex(M, m, t))
<1>1. t # NoThread
  BY BoundsAssumption DEF Threads, NoThread
<1>2. Absent.owner = NoThread /\ Absent.count = 0
  BY DEF Absent
<1>3. HeldIsCounted(init_mutex(M, m, type))
  BY DEF HeldIsCounted, init_mutex, Absent
<1>4. HeldIsCounted(destroy_mutex(M, m))
  BY <1>2 DEF HeldIsCounted, destroy_mutex
<1>5. HeldIsCounted(lock_mutex(M, m, t))
  <2>1. CASE lock_outcome(M, m, t) = "acquires"
    <3>1. M[m].live
      BY <2>1 DEF lock_outcome, self_lock_outcome
    <3>2. lock_mutex(M, m, t) = [M EXCEPT ![m].owner = t, ![m].count = 1]
      BY <2>1 DEF lock_mutex
    <3>3. QED
      BY <1>1, <3>1, <3>2 DEF HeldIsCounted, Mutex
  <2>2. CASE lock_outcome(M, m, t) = "recurses"
    <3>1. M[m].live /\ M[m].owner = t
      BY <2>2 DEF lock_outcome
    <3>2. lock_mutex(M, m, t) = [M EXCEPT ![m].count = @ + 1]
      BY <2>2 DEF lock_mutex
    <3>3. M[m].count >= 1 /\ M[m].count \in Nat /\ M[m] \in Mutex
      BY <1>1, <3>1 DEF HeldIsCounted, Mutex
    <3>4. QED
      BY <1>1, <3>1, <3>2, <3>3 DEF HeldIsCounted, Mutex
  <2>3. CASE lock_outcome(M, m, t) = "blocks"
    <3>1. lock_mutex(M, m, t) = [M EXCEPT ![m].waiting_count = @ + 1]
      BY <2>3 DEF lock_mutex
    <3>2. QED
      BY <3>1 DEF HeldIsCounted, Mutex
  <2>4. CASE lock_outcome(M, m, t) \notin {"acquires", "recurses", "blocks"}
    BY <2>4 DEF lock_mutex
  <2>5. QED
    BY <2>1, <2>2, <2>3, <2>4
<1>6. HeldIsCounted(unlock_mutex(M, m, t))
  <2>1. CASE unlock_outcome(M, m, t) = "unlocks" /\ M[m].count = 1
    BY <2>1 DEF unlock_mutex, HeldIsCounted, Mutex
  <2>2. CASE unlock_outcome(M, m, t) = "unlocks" /\ M[m].count # 1
    <3>1. M[m].owner = t
      BY <2>2 DEF unlock_outcome
    <3>2. M[m].count >= 1 /\ M[m].count \in Nat /\ M[m] \in Mutex /\ M[m].live
      BY <1>1, <3>1 DEF HeldIsCounted, Mutex
    <3>3. unlock_mutex(M, m, t) = [M EXCEPT ![m].count = @ - 1]
      BY <2>2 DEF unlock_mutex
    <3>4. QED
      BY <1>1, <2>2, <3>1, <3>2, <3>3 DEF HeldIsCounted, Mutex
  <2>3. CASE unlock_outcome(M, m, t) # "unlocks"
    BY <2>3 DEF unlock_mutex
  <2>4. QED
    BY <2>1, <2>2, <2>3
<1>7. HeldIsCounted(relock_unblocked_mutex(M, m, t))
  <2> DEFINE L == lock_mutex(M, m, t)
  <2>1. L \in [MutexId -> Mutex]
    BY MutexTableType
  <2>2. HeldIsCounted([L EXCEPT ![m].waiting_count = @ - 1])
    <3> HIDE DEF L
    <3>1. QED
      BY <1>5, <2>1 DEF HeldIsCounted, Mutex, L
  <2>3. QED
    BY <1>5, <2>2 DEF relock_unblocked_mutex
<1>8. QED
  BY <1>3, <1>4, <1>5, <1>6, <1>7

TypeInv == TypeOK /\ HeldIsCounted(mutexes)

\* The values a step may store have the right types.
LEMMA ValueTypes ==
    /\ NotBlocked \in ThreadBlock /\ BlockedOnKnown(NotBlocked)
    /\ \A x \in Nat : /\ BlockedOn("Sleeping", x) \in ThreadBlock
                      /\ BlockedOnKnown(BlockedOn("Sleeping", x))
                      /\ BlockedOn("DeferredReturn", x) \in ThreadBlock
                      /\ BlockedOnKnown(BlockedOn("DeferredReturn", x))
    /\ \A m \in MutexId : /\ BlockedOn("Mutex", m) \in ThreadBlock
                          /\ BlockedOnKnown(BlockedOn("Mutex", m))
    /\ \A s \in Sems : /\ BlockedOn("Semaphore", s) \in ThreadBlock
                       /\ BlockedOnKnown(BlockedOn("Semaphore", s))
    /\ \A c \in Conds : /\ BlockedOn("Condition", c) \in ThreadBlock
                        /\ BlockedOnKnown(BlockedOn("Condition", c))
    /\ \A t \in Threads : /\ BlockedOn("Joining", t) \in ThreadBlock
                          /\ BlockedOnKnown(BlockedOn("Joining", t))
    /\ ScanStart \in Scan
    /\ NoCond \in Cond /\ NoSem \in Sem /\ Absent \in Mutex /\ Wiped \in Handle
BY BoundsAssumption, ObjectsAssumption
   DEF NotBlocked, ThreadBlock, BlockKind, BlockedOnKnown, BlockedOn, MutexId,
       Threads, ScanStart, Scan, NoCond, Cond, NoSem, Sem, Absent, Mutex,
       MutexType, Wiped, Handle

\* Updating what blocks a thread keeps the type of blocked_by.
LEMMA BlockedByType ==
    ASSUME TypeOK, NEW t \in Threads, NEW b \in ThreadBlock, BlockedOnKnown(b),
           blocked_by' = [blocked_by EXCEPT ![t] = b]
    PROVE  /\ blocked_by' \in [Threads -> ThreadBlock]
           /\ \A u \in Threads : BlockedOnKnown(blocked_by'[u])
BY DEF TypeOK

\* A scan step changes the scan's locals, may unblock a thread, and may
\* change the sleepers, the semaphores and the condition variables.
LEMMA TypeScanParts ==
    ASSUME TypeInv, scan' \in Scan,
           \/ UNCHANGED blocked_by
           \/ \E i \in Threads : blocked_by' = [blocked_by EXCEPT ![i] = NotBlocked],
           due' \in SUBSET Threads, sems' \in [Sems -> Sem], conds' \in [Conds -> Cond],
           UNCHANGED <<threadVars, in_host_function, stack, phase, panic,
                       mutexes, mutex_count, guestVars>>
    PROVE  TypeInv'
<1> USE DEF TypeInv, threadVars, guestVars
<1>1. /\ blocked_by' \in [Threads -> ThreadBlock]
      /\ \A u \in Threads : BlockedOnKnown(blocked_by'[u])
  <2>1. CASE UNCHANGED blocked_by
    BY <2>1 DEF TypeOK
  <2>2. CASE \E i \in Threads : blocked_by' = [blocked_by EXCEPT ![i] = NotBlocked]
    BY <2>2, ValueTypes, BlockedByType
  <2>3. QED
    BY <2>1, <2>2
<1>2. QED
  BY <1>1 DEF TypeOK

\* The locals of the scan keep their types.
LEMMA ScanTypes ==
    ASSUME TypeOK, NEW i \in Threads
    PROVE  /\ ScanStart \in Scan
           /\ [scan EXCEPT !.k = @ + 1] \in Scan
           /\ [scan EXCEPT !.k = @ + 1, !.nap = TRUE] \in Scan
           /\ [scan EXCEPT !.k = nthreads, !.pick = i] \in Scan
           /\ \A m \in MutexId \cup {NoMutex} :
                /\ [scan EXCEPT !.k = nthreads, !.pick = i, !.relock = m] \in Scan
                /\ [scan EXCEPT !.k = @ + 1, !.pick = i, !.relock = m] \in Scan
<1>1. scan \in Scan /\ nthreads \in Nat
  BY DEF TypeOK
<1>2. ScanStart \in Scan
  BY ValueTypes
<1>3. [scan EXCEPT !.k = @ + 1] \in Scan
  BY <1>1 DEF Scan
<1>4. [scan EXCEPT !.k = @ + 1, !.nap = TRUE] \in Scan
  <2>1. scan.k + 1 \in Nat
    BY <1>1 DEF Scan
  <2>2. \A k \in Nat : [scan EXCEPT !.k = k, !.nap = TRUE] \in Scan
    BY <1>1 DEF Scan
  <2>3. QED
    BY <2>1, <2>2
<1>5. [scan EXCEPT !.k = nthreads, !.pick = i] \in Scan
  BY <1>1 DEF Scan
<1>6. ASSUME NEW m \in MutexId \cup {NoMutex}
      PROVE  [scan EXCEPT !.k = nthreads, !.pick = i, !.relock = m] \in Scan
  BY <1>1 DEF Scan
<1>7. ASSUME NEW m \in MutexId \cup {NoMutex}
      PROVE  [scan EXCEPT !.k = @ + 1, !.pick = i, !.relock = m] \in Scan
  <2>1. scan.k + 1 \in Nat
    BY <1>1 DEF Scan
  <2>2. \A k \in Nat : [scan EXCEPT !.k = k, !.pick = i, !.relock = m] \in Scan
    BY <1>1 DEF Scan
  <2>3. QED
    BY <2>1, <2>2
<1>8. QED
  BY <1>2, <1>3, <1>4, <1>5, <1>6, <1>7

\* An iteration of the scan preserves the types.
LEMMA TypeScanStep ==
    ASSUME TypeInv, SchedInv, ScanStep, UNCHANGED guestVars
    PROVE  TypeInv'
<1> USE DEF Scanning, ScanDone, objectVars
<1>1. candidate \in Threads
  BY CandidateType DEF TypeInv
<1>2. /\ due \in SUBSET Threads /\ due \ {candidate} \in SUBSET Threads
      /\ sems \in [Sems -> Sem] /\ conds \in [Conds -> Cond]
  BY DEF TypeInv, TypeOK
<1>3. /\ ScanStart \in Scan
      /\ [scan EXCEPT !.k = @ + 1] \in Scan
      /\ sleeper_noted \in Scan
      /\ [scan EXCEPT !.k = nthreads, !.pick = candidate] \in Scan
  BY <1>1, ScanTypes DEF TypeInv, sleeper_noted
<1>4. BlockedOnKnown(blocked_by[candidate])
  BY <1>1 DEF TypeInv, TypeOK
<1>5. CASE ScanSkip \/ ScanStillDeferred
  BY <1>2, <1>3, <1>5, TypeScanParts DEF ScanSkip, ScanStillDeferred, NextCandidate
<1>6. CASE ScanNotBlocked
  BY <1>1, <1>2, <1>3, <1>6, TypeScanParts DEF ScanNotBlocked, PickAndBreak
<1>7. CASE ScanSleeping
  BY <1>1, <1>2, <1>3, <1>7, TypeScanParts DEF ScanSleeping, PickAndBreak
<1>8. CASE ScanMutex
  <2>1. blocked_by[candidate].on \in MutexId
    BY <1>4, <1>8 DEF ScanMutex, BlockedOnKnown
  <2>2. [scan EXCEPT !.k = nthreads, !.pick = candidate,
                     !.relock = blocked_by[candidate].on] \in Scan
    BY <1>1, <2>1, ScanTypes DEF TypeInv
  <2>3. QED
    BY <1>1, <1>2, <1>3, <1>8, <2>2, TypeScanParts DEF ScanMutex, NextCandidate
<1>9. CASE ScanSemaphore
  <2> DEFINE s == blocked_by[candidate].on
  <2>1. s \in Sems /\ sems[s] \in Sem
    BY <1>2, <1>4, <1>9 DEF ScanSemaphore, BlockedOnKnown
  <2>2. sem_available(s) => sem_taken(s) \in [Sems -> Sem]
    <3>1. sem_available(s) => sems[s].value - 1 \in Nat
      BY <2>1 DEF sem_available, Sem
    <3>2. QED
      BY <1>2, <2>1, <3>1 DEF sem_taken, Sem
  <2>3. QED
    BY <1>1, <1>2, <1>3, <1>9, <2>2, TypeScanParts
       DEF ScanSemaphore, PickAndBreak, NextCandidate
<1>10. CASE ScanCondition
  <2> DEFINE c == blocked_by[candidate].on
  <2>1. c \in Conds /\ conds[c] \in Cond
    BY <1>2, <1>4, <1>10 DEF ScanCondition, BlockedOnKnown
  <2>2. CASE cond_wakes(c, candidate)
    <3>1. conds[c].waking \in Seq(Threads) /\ conds[c].waking # << >>
      BY <2>1, <2>2 DEF cond_wakes, Cond
    <3>2. Tail(conds[c].waking) \in Seq(Threads)
      BY <3>1
    <3>3. [conds[c] EXCEPT !.waking = Tail(@)] \in Cond
      BY <2>1, <3>2 DEF Cond
    <3>4. conds' = [conds EXCEPT ![c] = [conds[c] EXCEPT !.waking = Tail(@)]]
      BY <1>10, <2>2 DEF ScanCondition
    <3>5. conds' \in [Conds -> Cond]
      BY <1>2, <2>1, <3>3, <3>4
    <3>6. scan' \in Scan
      <4>1. scan \in Scan /\ conds[c].curr_mutex \in MutexId \cup {NoMutex}
        BY <2>1 DEF TypeInv, TypeOK, Cond
      <4>2. scan' = [scan EXCEPT !.k = @ + 1, !.pick = candidate,
                                 !.relock = conds[c].curr_mutex]
        BY <1>10, <2>2 DEF ScanCondition
      <4>3. QED
        BY <1>1, <4>1, <4>2, ScanTypes DEF TypeInv
    <3>7. QED
      BY <1>1, <1>2, <1>10, <2>2, <3>5, <3>6, TypeScanParts DEF ScanCondition
  <2>3. CASE ~cond_wakes(c, candidate)
    BY <1>2, <1>3, <1>10, <2>3, TypeScanParts DEF ScanCondition, NextCandidate
  <2>4. QED
    BY <2>2, <2>3
<1>11. CASE ScanJoining
  BY <1>1, <1>2, <1>3, <1>11, TypeScanParts
     DEF ScanJoining, PickAndBreak, NextCandidate
<1>12. CASE ScanDeferredReturn
  <2> USE <1>12 DEF ScanDeferredReturn, switch_thread, PopActivation, TypeInv
  <2>1. Len(stack) >= 2
    BY <1>1, CallbackDepth DEF SchedInv, DeferredHasCallback
  <2>2. stack' \in Seq(Frame) /\ Len(stack') = Len(stack) - 1
    BY <2>1, PopFrame
  <2>3. Len(stack') \in 1 .. MaxDepth
    <3>1. Len(stack) \in 1 .. MaxDepth
      BY DEF TypeOK
    <3>2. \A n \in 1 .. MaxDepth : n >= 2 => n - 1 \in 1 .. MaxDepth
      BY ObjectsAssumption
    <3>3. QED
      BY <2>1, <2>2, <3>1, <3>2
  <2>4. Top.was \in BOOLEAN
    BY TopType DEF Frame
  <2>5. /\ blocked_by' \in [Threads -> ThreadBlock]
        /\ \A u \in Threads : BlockedOnKnown(blocked_by'[u])
    BY <1>1, ValueTypes, BlockedByType
  <2>6. QED
    BY <1>1, <1>3, <2>2, <2>3, <2>4, <2>5 DEF TypeOK, guestVars
<1>13. CASE ScanSwitch
  <2> USE <1>13 DEF ScanSwitch, TypeInv
  <2>1. scan.pick \in Threads /\ (scan.relock # NoMutex => scan.relock \in MutexId)
    BY DEF TypeOK, Scan
  <2>2. mutexes \in [MutexId -> Mutex] /\ "NORMAL" \in MutexType
    BY DEF TypeOK, MutexType
  <2>3. mutexes' \in [MutexId -> Mutex] /\ HeldIsCounted(mutexes')
    <3>1. CASE scan.relock = NoMutex
      BY <2>2, <3>1 DEF relock
    <3>2. CASE scan.relock # NoMutex
      <4>1. mutexes' = relock_unblocked_mutex(mutexes, scan.relock, scan.pick)
        BY <3>2 DEF relock
      <4>2. QED
        BY <2>1, <2>2, <3>2, <4>1, MutexTableType, HeldIsCountedKept
    <3>3. QED
      BY <3>1, <3>2
  <2>4. current_thread' \in Threads /\ context' \in [Threads -> BOOLEAN]
    BY <2>1 DEF switch_if_other, switch_thread, TypeOK
  <2>5. QED
    BY <1>3, <2>3, <2>4 DEF TypeOK, guestVars
<1>14. CASE ScanHostSleep
  BY <1>2, <1>3, <1>14, TypeScanParts DEF ScanHostSleep
<1>15. CASE ScanSemaphoreGone \/ ScanRelockPanics \/ ScanDeadlock
  BY <1>15 DEF ScanSemaphoreGone, ScanRelockPanics, ScanDeadlock, Panic, Panics,
     TypeOK, TypeInv, guestVars
<1>16. QED
  BY <1>5, <1>6, <1>7, <1>8, <1>9, <1>10, <1>11, <1>12, <1>13, <1>14, <1>15
     DEF ScanStep

\* Steps of host functions and of guest code preserve the types.
LEMMA TypeHostGuestStep ==
    ASSUME TypeInv, SchedInv, HostStep \/ GuestStep, UNCHANGED guestVars
    PROVE  TypeInv'
<1> USE DEF TypeInv, threadVars, objectVars, guestVars
<1>1. /\ current_thread \in Threads /\ ScanStart \in Scan
      /\ in_host_function[current_thread] \in BOOLEAN
      /\ Len(stack) \in 1 .. MaxDepth /\ MaxDepth \in Nat
  BY ValueTypes, ObjectsAssumption DEF TypeOK
<1>2. \A b \in ThreadBlock :
        BlockedOnKnown(b) /\ blocked_by' = [blocked_by EXCEPT ![current_thread] = b]
        => /\ blocked_by' \in [Threads -> ThreadBlock]
           /\ \A u \in Threads : BlockedOnKnown(blocked_by'[u])
  BY <1>1, BlockedByType
<1>3. /\ BlockedOn("Sleeping", 0) \in ThreadBlock
      /\ BlockedOnKnown(BlockedOn("Sleeping", 0))
      /\ BlockedOn("DeferredReturn", 0) \in ThreadBlock
      /\ BlockedOnKnown(BlockedOn("DeferredReturn", 0))
  BY ValueTypes
<1>4. ASSUME NEW nap \in BOOLEAN, run_call(nap), Len(stack) < MaxDepth
      PROVE  /\ stack' \in Seq(Frame) /\ Len(stack') \in 1 .. MaxDepth
             /\ in_host_function' \in [Threads -> BOOLEAN]
  <2>1. InnerFrame(current_thread, in_host_function[current_thread], nap) \in Frame
    BY <1>1 DEF InnerFrame, Frame
  <2>2. stack' \in Seq(Frame) /\ Len(stack') = Len(stack) + 1
    BY <1>4, <2>1, PushFrame DEF run_call
  <2>3. QED
    BY <1>1, <1>4, <2>2 DEF run_call, TypeOK
<1>5. ASSUME Len(stack) >= 2, stack' = Popped
      PROVE  /\ stack' \in Seq(Frame) /\ Len(stack') \in 1 .. MaxDepth
             /\ Top.was \in BOOLEAN
  <2>1. stack' \in Seq(Frame) /\ Len(stack') = Len(stack) - 1
    BY <1>5, PopFrame
  <2>2. QED
    BY <1>1, <1>5, <2>1, TopType DEF Frame
<1>6. CASE HostCallsGuest
  BY <1>4, <1>6 DEF HostCallsGuest, TypeOK
<1>7. CASE HostSleeps
  <2>1. /\ blocked_by' \in [Threads -> ThreadBlock]
        /\ \A u \in Threads : BlockedOnKnown(blocked_by'[u])
    BY <1>2, <1>3, <1>7 DEF HostSleeps, BlockCurrent
  <2>2. QED
    BY <1>1, <1>4, <1>7, <2>1 DEF HostSleeps, BlockCurrent, Yield, TypeOK
<1>8. CASE HostReturns
  <2>1. Top.f = "host"
    BY <1>8 DEF HostReturns, SchedInv, StackShape
  <2>2. Len(stack) # 1
    BY <2>1 DEF SchedInv, StackShape, Top, InnerFrame
  <2>3. Len(stack) >= 2
    <3>1. \A n \in 1 .. MaxDepth : n # 1 => n >= 2
      BY ObjectsAssumption
    <3>2. QED
      BY <1>1, <2>2, <3>1
  <2>4. QED
    BY <1>1, <1>5, <1>8, <2>3 DEF HostReturns, TypeOK
<1>9. CASE Preempt
  BY <1>1, <1>9 DEF Preempt, Yield, TypeOK
<1>10. CASE ThreadExit
  BY <1>1, <1>10 DEF ThreadExit, Yield, TypeOK
<1>11. CASE MainThreadExit
  BY <1>11 DEF MainThreadExit, Panic, Panics, TypeOK
<1>12. CASE TailSleep
  <2>1. /\ blocked_by' \in [Threads -> ThreadBlock]
        /\ \A u \in Threads : BlockedOnKnown(blocked_by'[u])
    BY <1>2, <1>3, <1>12 DEF TailSleep, BlockCurrent
  <2>2. QED
    BY <1>1, <1>12, <2>1 DEF TailSleep, BlockCurrent, Yield, TypeOK
<1>13. CASE GuestCall
  <2>1. HostFrame(current_thread, in_host_function[current_thread]) \in Frame
    BY <1>1 DEF HostFrame, Frame
  <2>2. stack' \in Seq(Frame) /\ Len(stack') = Len(stack) + 1
    BY <1>13, <2>1, PushFrame DEF GuestCall
  <2>3. Len(stack') \in 1 .. MaxDepth
    BY <1>1, <1>13, <2>2 DEF GuestCall
  <2>4. QED
    BY <1>1, <1>13, <2>2, <2>3 DEF GuestCall, TypeOK
<1>14. CASE ReturnToHost
  <2>1. Len(stack) >= 2
    BY <1>14, CallbackDepth DEF ReturnToHost
  <2>2. QED
    BY <1>1, <1>5, <1>14, <2>1 DEF ReturnToHost, PopActivation, TypeOK
<1>15. CASE DeferReturn
  <2>1. /\ blocked_by' \in [Threads -> ThreadBlock]
        /\ \A u \in Threads : BlockedOnKnown(blocked_by'[u])
    BY <1>2, <1>3, <1>15 DEF DeferReturn, BlockCurrent
  <2>2. QED
    BY <1>1, <1>15, <2>1 DEF DeferReturn, BlockCurrent, Yield, TypeOK
<1>16. QED
  BY <1>6, <1>7, <1>8, <1>9, <1>10, <1>11, <1>12, <1>13, <1>14, <1>15
     DEF HostStep, GuestStep

\* The mutex a checked handle stands for, and the table with it registered
LEMMA RegisteredType ==
    ASSUME TypeInv, NEW h \in Handles, accepted(h)
    PROVE  /\ MutexOf(h) \in MutexId
           /\ TableFor(h) \in [MutexId -> Mutex] /\ HeldIsCounted(TableFor(h))
           /\ CountFor(h) \in 0 .. MaxMutexes
           /\ [magic |-> "valid", id |-> MutexOf(h)] \in Handle
<1>1. /\ mutexes \in [MutexId -> Mutex] /\ HeldIsCounted(mutexes)
      /\ mutex_count \in 0 .. MaxMutexes /\ MaxMutexes \in Nat
      /\ handles[h] \in Handle
      /\ handles[h].magic = "valid" => handles[h].id \in MutexId
      /\ "NORMAL" \in MutexType /\ 0 \in Threads
  BY BoundsAssumption DEF TypeInv, TypeOK, MutexType, Threads
<1>2. CASE handles[h].magic = "static"
  <2>1. mutex_count \in MutexId /\ mutex_count + 1 \in 0 .. MaxMutexes
    BY <1>1, <1>2 DEF accepted, MutexId
  <2>2. QED
    BY <1>1, <1>2, <2>1, MutexTableType, HeldIsCountedKept
       DEF MutexOf, TableFor, CountFor, Handle
<1>3. CASE handles[h].magic # "static"
  BY <1>1, <1>3 DEF accepted, MutexOf, TableFor, CountFor, Handle
<1>4. QED
  BY <1>2, <1>3
\* A call that changes none of the threads keeps their types, given the types
\* of what it does change.
LEMMA TypeObjectParts ==
    ASSUME TypeInv,
           UNCHANGED <<threadVars, in_host_function, due, stack, panic>>,
           blocked_by' \in [Threads -> ThreadBlock],
           \A u \in Threads : BlockedOnKnown(blocked_by'[u]),
           phase' \in {"guest", "host", "scan"}, scan' \in Scan,
           mutexes' \in [MutexId -> Mutex], HeldIsCounted(mutexes'),
           mutex_count' \in 0 .. MaxMutexes,
           conds' \in [Conds -> Cond], sems' \in [Sems -> Sem],
           handles' \in [Handles -> Handle],
           \A h \in Handles : handles'[h].magic = "valid" => handles'[h].id \in MutexId,
           joined_by' \in [Threads -> Threads \cup {NoThread}],
           detached' \in [Threads -> BOOLEAN],
           holds' \in [Threads -> [MutexId -> Int]]
    PROVE  TypeInv'
BY DEF TypeInv, TypeOK, threadVars

\* Pointing a handle at a mutex, or wiping it, keeps the type of the handles.
LEMMA HandleType ==
    ASSUME TypeOK, NEW h \in Handles, NEW m \in MutexId
    PROVE  /\ LET H == [handles EXCEPT ![h] = [magic |-> "valid", id |-> m]]
              IN  /\ H \in [Handles -> Handle]
                  /\ \A g \in Handles : H[g].magic = "valid" => H[g].id \in MutexId
           /\ LET H == [handles EXCEPT ![h] = Wiped]
              IN  /\ H \in [Handles -> Handle]
                  /\ \A g \in Handles : H[g].magic = "valid" => H[g].id \in MutexId
<1>1. /\ handles \in [Handles -> Handle]
      /\ \A g \in Handles : handles[g].magic = "valid" => handles[g].id \in MutexId
  BY DEF TypeOK
<1>2. [magic |-> "valid", id |-> m] \in Handle /\ Wiped \in Handle
  BY DEF Handle, Wiped
<1>3. Wiped.magic # "valid"
  BY DEF Wiped
<1>4. QED
  BY <1>1, <1>2, <1>3

\* The mutex calls preserve the types.
LEMMA TypeMutexCall ==
    ASSUME TypeInv, NEW h \in Handles,
           \/ pthread_mutex_init(h) \/ pthread_mutex_lock(h)
           \/ pthread_mutex_trylock(h) \/ pthread_mutex_unlock(h)
           \/ pthread_mutex_misuse(h) \/ pthread_mutex_destroy(h)
    PROVE  TypeInv'
<1> DEFINE t == current_thread
<1>1. /\ t \in Threads /\ mutexes \in [MutexId -> Mutex] /\ HeldIsCounted(mutexes)
      /\ mutex_count \in 0 .. MaxMutexes /\ MaxMutexes \in Nat
      /\ conds \in [Conds -> Cond] /\ sems \in [Sems -> Sem]
      /\ blocked_by \in [Threads -> ThreadBlock]
      /\ \A u \in Threads : BlockedOnKnown(blocked_by[u])
      /\ phase \in {"guest", "host", "scan"} /\ scan \in Scan /\ ScanStart \in Scan
      /\ handles \in [Handles -> Handle]
      /\ \A g \in Handles : handles[g].magic = "valid" => handles[g].id \in MutexId
      /\ joined_by \in [Threads -> Threads \cup {NoThread}]
      /\ detached \in [Threads -> BOOLEAN]
      /\ holds \in [Threads -> [MutexId -> Int]]
  BY BoundsAssumption, ValueTypes DEF TypeInv, TypeOK
<1>2. \A m \in MutexId :
        /\ [holds EXCEPT ![t][m] = @ + 1] \in [Threads -> [MutexId -> Int]]
        /\ [holds EXCEPT ![t][m] = @ - 1] \in [Threads -> [MutexId -> Int]]
  BY <1>1
<1>3. CASE pthread_mutex_init(h)
  <2>1. mutex_count \in MutexId /\ mutex_count + 1 \in 0 .. MaxMutexes
    BY <1>1, <1>3 DEF pthread_mutex_init, MutexId
  <2>2. mutexes' \in [MutexId -> Mutex] /\ HeldIsCounted(mutexes')
    BY <1>1, <1>3, <2>1, GuestAssumption, MutexTableType, HeldIsCountedKept
       DEF pthread_mutex_init
  <2>3. /\ handles' \in [Handles -> Handle]
        /\ \A g \in Handles : handles'[g].magic = "valid" => handles'[g].id \in MutexId
    BY <1>3, <2>1, HandleType DEF pthread_mutex_init, TypeInv
  <2>4. QED
    BY <1>1, <1>3, <2>1, <2>2, <2>3, TypeObjectParts
       DEF pthread_mutex_init, schedVars
<1>4. CASE pthread_mutex_lock(h) \/ pthread_mutex_trylock(h)
  <2> DEFINE m == MutexOf(h)
             M == TableFor(h)
  <2>1. check_or_register_mutex(h)
    BY <1>4 DEF pthread_mutex_lock, pthread_mutex_trylock
  <2>2. /\ m \in MutexId
        /\ M \in [MutexId -> Mutex] /\ HeldIsCounted(M)
        /\ CountFor(h) \in 0 .. MaxMutexes
    BY <2>1, RegisteredType DEF check_or_register_mutex
  <2>3. mutexes' \in [MutexId -> Mutex] /\ HeldIsCounted(mutexes')
    <3>1. mutexes' = lock_mutex(M, m, t)
      BY <1>4 DEF pthread_mutex_lock, pthread_mutex_trylock
    <3>2. "NORMAL" \in MutexType
      BY DEF MutexType
    <3>3. QED
      BY <1>1, <2>2, <3>1, <3>2, MutexTableType, HeldIsCountedKept
  <2>4. /\ handles' \in [Handles -> Handle]
        /\ \A g \in Handles : handles'[g].magic = "valid" => handles'[g].id \in MutexId
    BY <2>1, <2>2, HandleType DEF check_or_register_mutex, TypeInv
  <2>5. holds' \in [Threads -> [MutexId -> Int]]
    BY <1>2, <1>4, <2>2 DEF pthread_mutex_lock, pthread_mutex_trylock
  <2>6. /\ blocked_by' \in [Threads -> ThreadBlock]
        /\ \A u \in Threads : BlockedOnKnown(blocked_by'[u])
    <3>1. \/ UNCHANGED blocked_by
          \/ blocked_by' = [blocked_by EXCEPT ![t] = BlockedOn("Mutex", m)]
      BY <1>4 DEF pthread_mutex_lock, pthread_mutex_trylock, BlockCurrent
    <3>2. QED
      BY <1>1, <2>2, <3>1, ValueTypes, BlockedByType DEF TypeInv
  <2>7. phase' \in {"guest", "host", "scan"} /\ scan' \in Scan
    BY <1>1, <1>4
       DEF pthread_mutex_lock, pthread_mutex_trylock, BlockCurrent, Yield,
           Continue, schedVars
  <2>8. QED
    BY <1>1, <1>4, <2>1, <2>2, <2>3, <2>4, <2>5, <2>6, <2>7, TypeObjectParts
       DEF pthread_mutex_lock, pthread_mutex_trylock, check_or_register_mutex
<1>5. CASE pthread_mutex_unlock(h)
  <2>1. handles[h].id \in MutexId
    BY <1>1, <1>5 DEF pthread_mutex_unlock
  <2>2. mutexes' \in [MutexId -> Mutex] /\ HeldIsCounted(mutexes')
    <3>1. "NORMAL" \in MutexType
      BY DEF MutexType
    <3>2. mutexes[handles[h].id].owner # NoThread => mutexes[handles[h].id].count >= 1
      BY <1>1, <2>1 DEF HeldIsCounted
    <3>3. QED
      BY <1>1, <1>5, <2>1, <3>1, <3>2, UnlockType, HeldIsCountedKept
         DEF pthread_mutex_unlock
  <2>3. holds' \in [Threads -> [MutexId -> Int]]
    BY <1>2, <1>5, <2>1 DEF pthread_mutex_unlock
  <2>4. QED
    BY <1>1, <1>5, <2>2, <2>3, TypeObjectParts DEF pthread_mutex_unlock, schedVars
<1>6. CASE pthread_mutex_misuse(h)
  BY <1>6 DEF pthread_mutex_misuse, Panic, Panics, TypeInv, TypeOK, guestVars
<1>7. CASE pthread_mutex_destroy(h)
  <2>1. /\ MutexOf(h) \in MutexId
        /\ TableFor(h) \in [MutexId -> Mutex] /\ HeldIsCounted(TableFor(h))
        /\ CountFor(h) \in 0 .. MaxMutexes
    BY <1>7, RegisteredType DEF pthread_mutex_destroy
  <2>2. mutexes' \in [MutexId -> Mutex] /\ HeldIsCounted(mutexes')
    <3>1. "NORMAL" \in MutexType
      BY DEF MutexType
    <3>2. QED
      BY <1>1, <1>7, <2>1, <3>1, MutexTableType, HeldIsCountedKept
         DEF pthread_mutex_destroy
  <2>3. /\ handles' \in [Handles -> Handle]
        /\ \A g \in Handles : handles'[g].magic = "valid" => handles'[g].id \in MutexId
    BY <1>7, <2>1, HandleType DEF pthread_mutex_destroy, wipe_handle, TypeInv
  <2>4. QED
    BY <1>1, <1>7, <2>1, <2>2, <2>3, TypeObjectParts
       DEF pthread_mutex_destroy, schedVars
<1>8. QED
  BY <1>3, <1>4, <1>5, <1>6, <1>7

\* Moving waiters to the queue of woken threads keeps the queues' types.
LEMMA MovedType ==
    ASSUME conds \in [Conds -> Cond], NEW c \in Conds, NEW n \in Nat,
           n <= Len(conds[c].waiting)
    PROVE  moved_to_waking(c, n) \in [Conds -> Cond]
<1> DEFINE w == conds[c].waiting
           front == SubSeq(w, 1, n)
           back == SubSeq(w, n + 1, Len(w))
<1>1. conds[c] \in Cond /\ w \in Seq(Threads) /\ conds[c].waking \in Seq(Threads)
  BY DEF Cond
<1>2. Len(w) \in Nat /\ \A i \in 1 .. Len(w) : w[i] \in Threads
  BY <1>1
<1>3. front \in Seq(Threads)
  BY <1>1, <1>2, SubSeqProperties
<1>4. back \in Seq(Threads)
  BY <1>1, <1>2, SubSeqProperties
<1>5. conds[c].waking \o front \in Seq(Threads)
  BY <1>1, <1>3, ConcatProperties
<1> DEFINE woken == conds[c].waking \o front
           r == [conds[c] EXCEPT !.waiting = back, !.waking = woken]
<1>6. moved_to_waking(c, n) = [conds EXCEPT ![c] = r]
  BY DEF moved_to_waking
<1>7. back \in Seq(Threads) /\ woken \in Seq(Threads)
  BY <1>4, <1>5
<1> HIDE DEF woken, back
<1>8. r \in Cond
  BY <1>1, <1>7 DEF Cond
<1> HIDE DEF r
<1>9. QED
  BY <1>6, <1>8

\* The condition variable calls preserve the types.
LEMMA TypeCondCall ==
    ASSUME TypeInv, NEW c \in Conds,
           \/ pthread_cond_init(c) \/ pthread_cond_signal(c)
           \/ pthread_cond_broadcast(c) \/ pthread_cond_destroy(c)
           \/ \E h \in Handles : pthread_cond_wait(c, h) \/ pthread_cond_misuse(c, h)
    PROVE  TypeInv'
<1> DEFINE t == current_thread
<1>1. /\ t \in Threads /\ mutexes \in [MutexId -> Mutex] /\ HeldIsCounted(mutexes)
      /\ mutex_count \in 0 .. MaxMutexes
      /\ conds \in [Conds -> Cond] /\ sems \in [Sems -> Sem]
      /\ blocked_by \in [Threads -> ThreadBlock]
      /\ \A u \in Threads : BlockedOnKnown(blocked_by[u])
      /\ phase \in {"guest", "host", "scan"} /\ scan \in Scan /\ ScanStart \in Scan
      /\ handles \in [Handles -> Handle]
      /\ \A g \in Handles : handles[g].magic = "valid" => handles[g].id \in MutexId
      /\ joined_by \in [Threads -> Threads \cup {NoThread}]
      /\ detached \in [Threads -> BOOLEAN]
      /\ holds \in [Threads -> [MutexId -> Int]]
      /\ conds[c] \in Cond /\ NoCond \in Cond
  BY ValueTypes DEF TypeInv, TypeOK
<1>2. ASSUME UNCHANGED <<threadVars, blocked_by, in_host_function, due, stack,
                         schedVars, panic, mutexes, mutex_count, sems, guestVars>>,
             conds' \in [Conds -> Cond]
      PROVE  TypeInv'
  BY <1>1, <1>2, TypeObjectParts DEF schedVars, guestVars
<1>3. CASE pthread_cond_init(c)
  <2>1. [NoCond EXCEPT !.live = TRUE] \in Cond
    BY <1>1 DEF Cond
  <2>2. QED
    BY <1>1, <1>2, <1>3, <2>1 DEF pthread_cond_init
<1>4. CASE pthread_cond_signal(c) \/ pthread_cond_broadcast(c)
  <2>1. conds[c].waiting \in Seq(Threads) /\ conds[c].waiting # << >>
    BY <1>1, <1>4 DEF pthread_cond_signal, pthread_cond_broadcast, Cond
  <2>2. Len(conds[c].waiting) \in Nat /\ 1 <= Len(conds[c].waiting)
    BY <2>1, EmptySeq
  <2>3. conds' = moved_to_waking(c, 1) \/ conds' = moved_to_waking(c, Len(conds[c].waiting))
    BY <1>4 DEF pthread_cond_signal, pthread_cond_broadcast
  <2>4. conds' \in [Conds -> Cond]
    BY <1>1, <2>2, <2>3, MovedType
  <2>5. QED
    BY <1>2, <1>4, <2>4 DEF pthread_cond_signal, pthread_cond_broadcast
<1>5. CASE pthread_cond_destroy(c)
  <2>1. CASE cond_is_idle(c)
    BY <1>1, <1>2, <1>5, <2>1 DEF pthread_cond_destroy
  <2>2. CASE ~cond_is_idle(c)
    BY <1>5, <2>2
       DEF pthread_cond_destroy, Panic, Panics, TypeInv, TypeOK, guestVars
  <2>3. QED
    BY <2>1, <2>2
<1>6. ASSUME NEW h \in Handles, pthread_cond_wait(c, h)
      PROVE  TypeInv'
  <2> DEFINE m == handles[h].id
  <2>1. m \in MutexId
    BY <1>1, <1>6 DEF pthread_cond_wait
  <2>2. mutexes' \in [MutexId -> Mutex] /\ HeldIsCounted(mutexes')
    <3>1. "NORMAL" \in MutexType
      BY DEF MutexType
    <3>2. mutexes[m].owner # NoThread => mutexes[m].count >= 1
      BY <1>1, <2>1 DEF HeldIsCounted
    <3>3. QED
      BY <1>1, <1>6, <2>1, <3>1, <3>2, UnlockType, HeldIsCountedKept
         DEF pthread_cond_wait
  <2>3. conds' \in [Conds -> Cond]
    <3>1. Append(conds[c].waiting, t) \in Seq(Threads)
      BY <1>1, AppendProperties DEF Cond
    <3>2. \A w \in Seq(Threads) :
            [conds EXCEPT ![c].curr_mutex = m, ![c].waiting = w] \in [Conds -> Cond]
      BY <1>1, <2>1 DEF Cond
    <3>3. conds' = [conds EXCEPT ![c].curr_mutex = m,
                                 ![c].waiting = Append(conds[c].waiting, t)]
      BY <1>1, <1>6 DEF pthread_cond_wait
    <3>4. QED
      BY <3>1, <3>2, <3>3
  <2>4. /\ blocked_by' \in [Threads -> ThreadBlock]
        /\ \A u \in Threads : BlockedOnKnown(blocked_by'[u])
    BY <1>1, <1>6, ValueTypes, BlockedByType
       DEF pthread_cond_wait, BlockCurrent, TypeInv
  <2>5. phase' \in {"guest", "host", "scan"} /\ scan' \in Scan
    BY <1>1, <1>6 DEF pthread_cond_wait, BlockCurrent, Yield
  <2>6. QED
    BY <1>1, <1>6, <2>2, <2>3, <2>4, <2>5, TypeObjectParts
       DEF pthread_cond_wait, guestVars
<1>7. ASSUME NEW h \in Handles, pthread_cond_misuse(c, h)
      PROVE  TypeInv'
  BY <1>7 DEF pthread_cond_misuse, Panic, Panics, TypeInv, TypeOK, guestVars
<1>8. QED
  BY <1>3, <1>4, <1>5, <1>6, <1>7

\* The semaphore calls preserve the types.
LEMMA TypeSemCall ==
    ASSUME TypeInv, NEW s \in Sems,
           \/ sem_init(s) \/ sem_destroy(s) \/ sem_post(s) \/ sem_wait(s)
           \/ sem_misuse(s)
    PROVE  TypeInv'
<1>1. /\ current_thread \in Threads /\ mutexes \in [MutexId -> Mutex]
      /\ HeldIsCounted(mutexes) /\ mutex_count \in 0 .. MaxMutexes
      /\ conds \in [Conds -> Cond] /\ sems \in [Sems -> Sem]
      /\ blocked_by \in [Threads -> ThreadBlock]
      /\ \A u \in Threads : BlockedOnKnown(blocked_by[u])
      /\ phase \in {"guest", "host", "scan"} /\ scan \in Scan /\ ScanStart \in Scan
      /\ handles \in [Handles -> Handle]
      /\ \A g \in Handles : handles[g].magic = "valid" => handles[g].id \in MutexId
      /\ joined_by \in [Threads -> Threads \cup {NoThread}]
      /\ detached \in [Threads -> BOOLEAN]
      /\ holds \in [Threads -> [MutexId -> Int]]
      /\ sems[s] \in Sem /\ NoSem \in Sem
  BY ValueTypes DEF TypeInv, TypeOK
<1>2. ASSUME UNCHANGED <<threadVars, in_host_function, due, stack, panic,
                         mutexes, mutex_count, conds, guestVars>>,
             blocked_by' \in [Threads -> ThreadBlock],
             \A u \in Threads : BlockedOnKnown(blocked_by'[u]),
             phase' \in {"guest", "host", "scan"}, scan' \in Scan,
             sems' \in [Sems -> Sem]
      PROVE  TypeInv'
  BY <1>1, <1>2, TypeObjectParts DEF guestVars
<1>3. CASE sem_init(s)
  <2>1. sems' \in [Sems -> Sem]
    BY <1>1, <1>3, GuestAssumption DEF sem_init, Sem
  <2>2. QED
    BY <1>1, <1>2, <1>3, <2>1 DEF sem_init, schedVars
<1>4. CASE sem_destroy(s)
  BY <1>1, <1>2, <1>4 DEF sem_destroy, schedVars
<1>5. CASE sem_post(s)
  <2>1. sems' \in [Sems -> Sem]
    <3>1. sems[s].value + 1 \in Nat
      BY <1>1 DEF Sem
    <3>2. \A v \in Nat : [sems EXCEPT ![s].value = v] \in [Sems -> Sem]
      BY <1>1 DEF Sem
    <3>3. sems' = [sems EXCEPT ![s].value = sems[s].value + 1]
      BY <1>5 DEF sem_post
    <3>4. QED
      BY <3>1, <3>2, <3>3
  <2>2. QED
    BY <1>1, <1>2, <1>5, <2>1 DEF sem_post, schedVars
<1>6. CASE sem_wait(s)
  <2>1. CASE sems[s].value > 0
    <3>1. sems[s].value - 1 \in Nat
      BY <1>1, <2>1 DEF Sem
    <3>2. sems' \in [Sems -> Sem]
      BY <1>1, <1>6, <2>1, <3>1 DEF sem_wait, Sem
    <3>3. QED
      BY <1>1, <1>2, <1>6, <2>1, <3>2 DEF sem_wait, Continue, schedVars
  <2>2. CASE ~(sems[s].value > 0)
    <3>1. /\ blocked_by' \in [Threads -> ThreadBlock]
          /\ \A u \in Threads : BlockedOnKnown(blocked_by'[u])
      BY <1>1, <1>6, <2>2, ValueTypes, BlockedByType
         DEF sem_wait, BlockCurrent, TypeInv
    <3>2. QED
      BY <1>1, <1>2, <1>6, <2>2, <3>1 DEF sem_wait, BlockCurrent, Yield
  <2>3. QED
    BY <2>1, <2>2
<1>7. CASE sem_misuse(s)
  BY <1>7 DEF sem_misuse, Panic, Panics, TypeInv, TypeOK, guestVars
<1>8. QED
  BY <1>3, <1>4, <1>5, <1>6, <1>7

\* The thread calls preserve the types.
LEMMA TypeThreadCall ==
    ASSUME TypeInv,
           \/ pthread_create \/ pthread_join_main
           \/ \E u \in Threads : pthread_join(u)
    PROVE  TypeInv'
<1>1. CASE pthread_create
  <2>1. nthreads \in Threads /\ nthreads + 1 \in 1 .. MaxThreads
    BY <1>1, BoundsAssumption DEF pthread_create, TypeInv, TypeOK, Threads
  <2>2. QED
    BY <1>1, <2>1
       DEF pthread_create, new_thread, TypeInv, TypeOK, schedVars, objectVars
<1>2. CASE pthread_join_main
  BY <1>2 DEF pthread_join_main, Panic, Panics, TypeInv, TypeOK, guestVars
<1>3. ASSUME NEW u \in Threads, pthread_join(u)
      PROVE  TypeInv'
  <2>1. current_thread \in Threads /\ ScanStart \in Scan
    BY ValueTypes DEF TypeInv, TypeOK
  <2>2. /\ blocked_by' \in [Threads -> ThreadBlock]
        /\ \A v \in Threads : BlockedOnKnown(blocked_by'[v])
    BY <1>3, <2>1, ValueTypes, BlockedByType
       DEF pthread_join, BlockCurrent, TypeInv
  <2>3. QED
    BY <1>3, <2>1, <2>2
       DEF pthread_join, BlockCurrent, Yield, TypeInv, TypeOK, threadVars, objectVars
<1>4. QED
  BY <1>1, <1>2, <1>3

\* Every step preserves the types.
LEMMA TypeNext ==
    ASSUME TypeInv, SchedInv, [Next]_vars
    PROVE  TypeInv'
<1>1. CASE LibraryCall
  BY <1>1, TypeMutexCall, TypeCondCall, TypeSemCall, TypeThreadCall DEF LibraryCall
<1>2. CASE EnvironmentStep
  <2>1. ASSUME NEW t \in Threads, Tick(t), UNCHANGED guestVars
        PROVE  TypeInv'
    BY <2>1 DEF Tick, TypeInv, TypeOK, threadVars, objectVars, guestVars
  <2>2. QED
    BY <1>2, <2>1, TypeScanStep, TypeHostGuestStep DEF EnvironmentStep
<1>3. CASE Terminated \/ UNCHANGED vars
  BY <1>3 DEF Terminated, vars, envVars, guestVars, TypeInv, TypeOK
<1>4. QED
  BY <1>1, <1>2, <1>3 DEF Next

----------------------------------------------------------------------------
(* The theorems about the scheduler *)

\* The initial state satisfies the invariant.
LEMMA InitInv == Init => TypeInv /\ SchedInv
<1> SUFFICES ASSUME Init PROVE TypeInv /\ SchedInv
  OBVIOUS
<1>1. 0 \in Threads /\ MaxThreads \in Nat /\ 1 \in 1 .. MaxThreads
      /\ 1 \in 1 .. MaxDepth /\ 0 \in 0 .. MaxMutexes
  BY BoundsAssumption, ObjectsAssumption DEF Threads
<1>2. InnerFrame(0, FALSE, FALSE) \in Frame
  BY <1>1 DEF InnerFrame, Frame
<1>3. stack \in Seq(Frame) /\ Len(stack) = 1 /\ stack[1] = InnerFrame(0, FALSE, FALSE)
  <2>1. stack = <<InnerFrame(0, FALSE, FALSE)>>
    BY DEF Init, EnvInit
  <2>2. \A r \in Frame :
          <<r>> \in Seq(Frame) /\ Len(<<r>>) = 1 /\ <<r>>[1] = r
    OBVIOUS
  <2>3. QED
    BY <1>2, <2>1, <2>2
<1>4. [magic |-> "static", id |-> NoMutex] \in Handle /\ Wiped \in Handle
      /\ Wiped.magic # "valid"
  BY DEF Handle, Wiped
<1>5. handles \in [Handles -> Handle]
      /\ \A h \in Handles : handles[h].magic # "valid"
  <2>1. handles \in [Handles -> {Wiped, [magic |-> "static", id |-> NoMutex]}]
    BY DEF Init
  <2>2. QED
    BY <1>4, <2>1
<1> USE DEF Init, EnvInit
<1>6. TypeOK
  <2>1. /\ mutexes \in [MutexId -> Mutex] /\ conds \in [Conds -> Cond]
        /\ sems \in [Sems -> Sem] /\ scan \in Scan
        /\ blocked_by \in [Threads -> ThreadBlock]
        /\ \A t \in Threads : BlockedOnKnown(blocked_by[t])
    BY ValueTypes
  <2>2. /\ active \in [Threads -> BOOLEAN] /\ in_host_function \in [Threads -> BOOLEAN]
        /\ context \in [Threads -> BOOLEAN] /\ detached \in [Threads -> BOOLEAN]
    OBVIOUS
  <2>3. /\ joined_by \in [Threads -> Threads \cup {NoThread}]
        /\ holds \in [Threads -> [MutexId -> Int]]
        /\ due \subseteq Threads /\ panic \in Panics
        /\ phase \in {"guest", "host", "scan"}
    BY DEF Panics
  <2>4. nthreads \in 1 .. MaxThreads /\ current_thread \in Threads
        /\ mutex_count \in 0 .. MaxMutexes /\ Len(stack) \in 1 .. MaxDepth
    BY <1>1, <1>3
  <2> HIDE DEF Init, EnvInit
  <2>5. QED
    BY <1>3, <1>5, <2>1, <2>2, <2>3, <2>4 DEF TypeOK
<1>7. HeldIsCounted(mutexes)
  BY DEF HeldIsCounted, Absent, NoThread
<1>8. \A t \in Threads : Callbacks(t) = {}
  BY <1>3 DEF Callbacks
<1>9. StackShape
  BY <1>3 DEF StackShape, Top, InnerFrame
<1>10. OneContextMissing
  BY <1>1 DEF OneContextMissing, Threads
<1>11. PickIsRunnable
  <2>1. phase # "scan" /\ 0 < 1
    OBVIOUS
  <2>2. \A t \in Threads : active[t] => t = 0
    OBVIOUS
  <2>3. nthreads = 1 /\ current_thread = 0
    OBVIOUS
  <2> HIDE DEF Init, EnvInit
  <2>4. QED
    BY <2>1, <2>2, <2>3 DEF PickIsRunnable
<1>12. QED
  BY <1>1, <1>6, <1>7, <1>8, <1>9, <1>10, <1>11
     DEF TypeInv, SchedInv, HostFlagExact, RunsOnlyUnblocked, DeferredHasCallback,
         NoSelfSwitch, NotBlocked

\* Every state of the program satisfies the types and the invariant of the
\* scheduler.
LEMMA SpecInv == Spec => [](TypeInv /\ SchedInv)
<1>1. TypeInv /\ SchedInv /\ [Next]_vars => (TypeInv /\ SchedInv)'
  <2>1. TypeInv => TypeOK
    BY DEF TypeInv
  <2>2. QED
    BY <2>1, SchedNext, TypeNext
<1>2. QED
  BY <1>1, InitInv, PTL DEF Spec

\* Every field of the emulator's state keeps its type, whatever the guest
\* calls and however its threads are interleaved.
THEOREM TypeCorrect == Spec => []TypeOK
<1>1. TypeInv => TypeOK
  BY DEF TypeInv
<1>2. QED
  BY <1>1, SpecInv, PTL

\* The executing thread and it alone has no saved CPU context, for any
\* number of threads and any nesting of callbacks: switch_thread never takes
\* a context that is missing nor overwrites one that is not its own.
THEOREM ContextsExact == Spec => []OneContextMissing
<1>1. SchedInv => OneContextMissing
  BY DEF SchedInv
<1>2. QED
  BY <1>1, SpecInv, PTL

\* The in_host_function flag is exact however host functions and callbacks
\* of different threads nest and return (run_call, handle_cpu_state).
THEOREM HostFlagCorrect == Spec => []HostFlagExact
<1>1. SchedInv => HostFlagExact
  BY DEF SchedInv
<1>2. QED
  BY <1>1, SpecInv, PTL

\* No step of run_inner resumes a thread that is blocked or has exited.
THEOREM ResumesOnlyRunnable == Spec => []RunsOnlyUnblocked
<1>1. SchedInv => RunsOnlyUnblocked
  BY DEF SchedInv
<1>2. QED
  BY <1>1, SpecInv, PTL

\* The three together: at every moment exactly one thread executes, and it is
\* one that may (run_inner, run_call, switch_thread).
THEOREM ExecutionCorrect == Spec => []ExecutionExact
  BY ContextsExact, HostFlagCorrect, ResumesOnlyRunnable, PTL DEF ExecutionExact

\* The assertion of switch_thread never fails on a deferred return.
THEOREM SwitchAssertionHolds == Spec => []NoSelfSwitch
<1>1. SchedInv => NoSelfSwitch
  BY DEF SchedInv
<1>2. QED
  BY <1>1, SpecInv, PTL
=============================================================================
