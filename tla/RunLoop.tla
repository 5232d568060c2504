------------------------------ MODULE RunLoop ------------------------------
(***************************************************************************)
(* The main thread's run loop and its timers                               *)
(* (frameworks/foundation/ns_run_loop.rs, ns_timer.rs; CFRunLoopTimer is   *)
(* the same thing under another name).                                     *)
(*                                                                         *)
(* A timer's callback is guest code and may do anything: create, add,      *)
(* fire and invalidate timers, itself included, and run the run loop       *)
(* again.  `stack' holds the calls in progress on the main thread: a frame *)
(* of kind "loop" is a run_run_loop, one of kind "fire" a [timer fire].    *)
(* While the innermost loop sleeps the other threads run, and use the same *)
(* timers.                                                                 *)
(*                                                                         *)
(* Timers are reference counted objects: the run loop owns the ones it     *)
(* holds, run_run_loop the ones it has copied, handle_timer the one whose  *)
(* message it is sending, an autorelease pool the new ones, and the guest  *)
(* those it retained.  `held' and `pool' record the last two.              *)
(***************************************************************************)
EXTENDS Integers, Sequences, FiniteSets, FiniteSetsExt

CONSTANTS Timers,       \* addresses of NSTimer objects
          Interval,     \* of each, in ticks
          Repeats,      \* those that repeat
          MaxDepth,     \* bound: calls in progress on the main thread
          MaxTime,      \* bound: ticks of the clock
          Careful,      \* the guest fires only timers that it has retained
          None

ASSUME RunLoopAssumption ==
    /\ Interval \in [Timers -> Nat \ {0}] /\ Repeats \subseteq Timers
    /\ MaxDepth \in Nat /\ MaxTime \in Nat /\ Careful \in BOOLEAN
    /\ None \notin Timers /\ None \notin Nat

VARIABLES now,          \* Instant::now()
          objects,      \* the NSTimerHostObject and refcount of each timer
          timers,       \* NSRunLoopHostObject::timers
          stack,        \* calls in progress, the innermost last
          panic

rlvars == <<now, objects, timers, stack, panic>>

---------------------------------------------------------------------------
(* Objects *)

Freed == [refs |-> 0, due_by |-> None, start |-> 0, is_running_callback |-> FALSE,
          run_loop |-> FALSE, pool |-> None, held |-> FALSE]

Retained(o) == [o EXCEPT !.refs = @ + 1]

Released(o) == IF o.refs = 1 THEN Freed ELSE [o EXCEPT !.refs = @ - 1]

\* The release of autorelease pool d.
Drained(objs, d) ==
    [t \in Timers |-> IF objs[t].pool = d
                      THEN Released([objs[t] EXCEPT !.pool = None])
                      ELSE objs[t]]

Alive(t) == objects[t].refs > 0

---------------------------------------------------------------------------
(* The stack *)

Top == stack[Len(stack)]

With(frame) == [stack EXCEPT ![Len(stack)] = frame]

Pop == SubSeq(stack, 1, Len(stack) - 1)

In(kind, phase) == ~panic /\ stack # <<>> /\ Top.kind = kind /\ Top.at = phase

\* Guest code runs: before the loop, in a callback, while events are handled at
\* the start of an iteration, and in other threads during the sleep.
GuestRuns == ~panic /\ (stack # <<>> => Top.at \in {"callback", "top", "sleep"})

OnMainThread == GuestRuns /\ (stack # <<>> => Top.at # "sleep") /\ Len(stack) < MaxDepth

\* Every callback has an autorelease pool of its own.
Pool(s) == Cardinality({i \in DOMAIN s : s[i].at = "callback"})

CurrentPool == IF stack # <<>> /\ Top.at = "sleep" THEN 0 ELSE Pool(stack)

RunLoopInit ==
    /\ now = 0 /\ objects = [t \in Timers |-> Freed] /\ timers = {}
    /\ stack = <<>> /\ panic = FALSE

---------------------------------------------------------------------------
(* NSTimer, as the guest uses it *)

NewTimer(t) == [refs |-> 1, due_by |-> now + Interval[t], start |-> now,
                is_running_callback |-> FALSE, run_loop |-> FALSE,
                pool |-> CurrentPool, held |-> FALSE]

timerWithTimeInterval(t) ==
    /\ GuestRuns /\ ~Alive(t)
    /\ objects' = [objects EXCEPT ![t] = NewTimer(t)]
    /\ UNCHANGED <<now, timers, stack, panic>>

\* addTimer:forMode: of a timer that is in no run loop yet (it asserts that).
addTimer(t) ==
    /\ GuestRuns /\ Alive(t) /\ ~objects[t].run_loop
    /\ objects' = [objects EXCEPT ![t] = [Retained(@) EXCEPT !.run_loop = TRUE]]
    /\ timers' = timers \cup {t}
    /\ panic' = (t \in timers)
    /\ UNCHANGED <<now, stack>>

scheduledTimerWithTimeInterval(t) ==
    /\ GuestRuns /\ ~Alive(t)
    /\ objects' = [objects EXCEPT ![t] = [Retained(NewTimer(t)) EXCEPT !.run_loop = TRUE]]
    /\ timers' = timers \cup {t}
    /\ panic' = (t \in timers)
    /\ UNCHANGED <<now, stack>>

\* The part of invalidate under its condition, with remove_timer, from objs.
Invalidated(objs, t) ==
    IF objs[t].due_by = None THEN objs
    ELSE [objs EXCEPT ![t] = Released([@ EXCEPT !.due_by = None])]

\* remove_timer's assertion
RemoveFails(objs, t) == objs[t].due_by # None /\ t \notin timers

invalidate(t) ==
    /\ GuestRuns /\ Alive(t) /\ objects[t].run_loop /\ objects[t].due_by # None
    /\ objects' = Invalidated(objects, t)
    /\ timers' = timers \ {t}
    /\ panic' = RemoveFails(objects, t)
    /\ UNCHANGED <<now, stack>>

\* fire sends the message, from a pool of its own ...
fire(t) ==
    /\ OnMainThread /\ Alive(t) /\ objects[t].run_loop
    /\ Careful => objects[t].held
    /\ stack' = Append(stack, [kind |-> "fire", at |-> "callback", todo |-> {}, cur |-> t])
    /\ UNCHANGED <<now, objects, timers, panic>>

\* ... and then invalidates a timer that does not repeat.
fire_returns ==
    /\ In("fire", "callback")
    /\ stack' = Pop
    /\ LET t == Top.cur
           objs == Drained(objects, Pool(stack))
       IN  IF t \in Repeats
           THEN objects' = objs /\ UNCHANGED <<timers, panic>>
           ELSE /\ objects' = Invalidated(objs, t)
                /\ timers' = IF objs[t].due_by # None THEN timers \ {t} ELSE timers
                /\ panic' = (objs[t].refs = 0 \/ RemoveFails(objs, t))
    /\ UNCHANGED now

retain_timer(t) ==
    /\ GuestRuns /\ Alive(t) /\ ~objects[t].held
    /\ objects' = [objects EXCEPT ![t] = [Retained(@) EXCEPT !.held = TRUE]]
    /\ UNCHANGED <<now, timers, stack, panic>>

release_timer(t) ==
    /\ GuestRuns /\ objects[t].held
    /\ Careful => \A i \in DOMAIN stack : stack[i].kind = "fire" => stack[i].cur # t
    /\ objects' = [objects EXCEPT ![t] = Released([@ EXCEPT !.held = FALSE])]
    /\ UNCHANGED <<now, timers, stack, panic>>

\* The pool outside all callbacks, or that of another thread, is drained.
drain_outer_pool ==
    /\ GuestRuns
    /\ objects' = Drained(objects, 0)
    /\ UNCHANGED <<now, timers, stack, panic>>

---------------------------------------------------------------------------
(* run_run_loop *)

run_run_loop ==
    /\ OnMainThread
    /\ stack' = Append(stack, [kind |-> "loop", at |-> "top", todo |-> {}, cur |-> None])
    /\ UNCHANGED <<now, objects, timers, panic>>

\* A plausible slip: only the first copy is handled.
copy_timers_first ==
    /\ In("loop", "top")
    /\ LET first == IF timers = {} THEN {} ELSE {CHOOSE t \in timers : TRUE}
       IN  /\ stack' = With([Top EXCEPT !.at = "timers", !.todo = first])
           /\ objects' = [t \in Timers |-> IF t \in first THEN Retained(objects[t])
                                          ELSE objects[t]]
    /\ UNCHANGED <<now, timers, panic>>

\* The loop copies the timers it holds and retains the copies.
copy_timers ==
    /\ In("loop", "top")
    /\ stack' = With([Top EXCEPT !.at = "timers", !.todo = timers])
    /\ objects' = [t \in Timers |-> IF t \in timers THEN Retained(objects[t]) ELSE objects[t]]
    /\ UNCHANGED <<now, timers, panic>>

Due(t) ==
    /\ ~objects[t].is_running_callback
    /\ objects[t].due_by # None
    /\ objects[t].due_by <= now

\* handle_timer returns early, and the copy is released.
handle_timer_early(t) ==
    /\ In("loop", "timers") /\ t \in Top.todo /\ ~Due(t)
    /\ stack' = With([Top EXCEPT !.todo = @ \ {t}])
    /\ objects' = [objects EXCEPT ![t] = Released(@)]
    /\ UNCHANGED <<now, timers, panic>>

\* The whole intervals to advance by: ceil(max(overdue / interval, 1)).
AdvanceBy(overdue, interval) == Max({1, (overdue + interval - 1) \div interval})

\* A plausible slip: the next firing is an interval after this one.
new_due_by_drifting(t) == now + Interval[t]

new_due_by(t) ==
    objects[t].due_by + Interval[t] * AdvanceBy(now - objects[t].due_by, Interval[t])

\* handle_timer advances the timer, or removes one that does not repeat, and
\* sends the message.
handle_timer(t) ==
    /\ In("loop", "timers") /\ t \in Top.todo /\ Due(t)
    /\ stack' = With([Top EXCEPT !.at = "callback", !.todo = @ \ {t}, !.cur = t])
    /\ LET o == [Retained(objects[t]) EXCEPT !.is_running_callback = TRUE]
       IN  IF t \in Repeats
           THEN /\ objects' = [objects EXCEPT ![t] = [o EXCEPT !.due_by = new_due_by(t)]]
                /\ UNCHANGED <<timers, panic>>
           ELSE /\ objects' = [objects EXCEPT ![t] = Released([o EXCEPT !.due_by = None])]
                /\ timers' = timers \ {t}
                /\ panic' = (t \notin timers)
    /\ UNCHANGED now

\* The message returns: handle_timer releases the timer and the pool, and
\* run_run_loop the copy.
handle_timer_returns ==
    /\ In("loop", "callback")
    /\ stack' = With([Top EXCEPT !.at = "timers", !.cur = None])
    /\ LET t == Top.cur
           objs == [objects EXCEPT ![t] = Released([@ EXCEPT !.is_running_callback = FALSE])]
       IN  /\ objects' = [Drained(objs, Pool(stack)) EXCEPT ![t] = Released(@)]
           /\ panic' = ~Alive(t)
    /\ UNCHANGED <<now, timers>>

\* Audio and media players are next (they have their own modules), then the sleep.
sleep ==
    /\ In("loop", "timers") /\ Top.todo = {}
    /\ stack' = With([Top EXCEPT !.at = "sleep"])
    /\ UNCHANGED <<now, objects, timers, panic>>

next_iteration ==
    /\ In("loop", "sleep")
    /\ stack' = With([Top EXCEPT !.at = "top"])
    /\ UNCHANGED <<now, objects, timers, panic>>

\* A nested loop ends, at its time limit or after its single iteration; the
\* application's own never does.
break ==
    /\ In("loop", "sleep") /\ Len(stack) > 1
    /\ stack' = Pop
    /\ UNCHANGED <<now, objects, timers, panic>>

tick ==
    /\ ~panic /\ now < MaxTime
    /\ now' = now + 1
    /\ UNCHANGED <<objects, timers, stack, panic>>

---------------------------------------------------------------------------

GuestSteps ==
    \/ run_run_loop \/ drain_outer_pool
    \/ \E t \in Timers :
          \/ timerWithTimeInterval(t) \/ addTimer(t) \/ scheduledTimerWithTimeInterval(t)
          \/ invalidate(t) \/ fire(t) \/ retain_timer(t) \/ release_timer(t)

LoopSteps ==
    \/ copy_timers \/ sleep \/ next_iteration
    \/ \E t \in Timers : handle_timer(t) \/ handle_timer_early(t)

Returns == fire_returns \/ handle_timer_returns \/ break

RunLoopNext == GuestSteps \/ LoopSteps \/ Returns \/ tick

RunLoopSpec == RunLoopInit /\ [][RunLoopNext]_rlvars

\* The loop goes on, and the guest code that it calls returns: a call in progress
\* that can take a step again and again, between the calls it makes, takes one.
LoopStepsAt(d) == Len(stack) = d /\ (LoopSteps \/ Returns)

---------------------------------------------------------------------------
(* Properties *)

\* The count of a timer is the number of its owners: the run loop, every loop
\* in progress that has a copy still to handle or handles it (twice: the copy and
\* handle_timer's own), a pool and the guest.
Copies(t) == Cardinality({i \in DOMAIN stack : t \in stack[i].todo})

Handling(t) ==
    Cardinality({i \in DOMAIN stack : stack[i].kind = "loop" /\ stack[i].cur = t})

TimerOwners(t) ==
    {x \in {"loop", "held", "pool"} : \/ x = "loop" /\ t \in timers
                                      \/ x = "held" /\ objects[t].held
                                      \/ x = "pool" /\ objects[t].pool # None}

TimerRefsExact ==
    \A t \in Timers :
        objects[t].refs = Copies(t) + 2 * Handling(t) + Cardinality(TimerOwners(t))

\* "Timers are owned by the run loop.  The timer must remove itself when
\* invalidated" (ns_run_loop.rs:53): the run loop holds exactly the timers that
\* were added and are still valid.
InLoopIffValid ==
    \A t \in Timers : t \in timers <=> objects[t].run_loop /\ objects[t].due_by # None

\* A loop never calls a timer while it is already calling it, however deeply
\* loops are nested (is_running_callback).
NotReentered ==
    \A t \in Timers : /\ Handling(t) <= 1
                      /\ objects[t].is_running_callback <=> Handling(t) = 1

\* "No drift over time" (ns_timer.rs:212): a repeating timer is due a whole
\* number of intervals after it was created, however late it fires, and never
\* more than one interval ahead of the clock.
OnSchedule ==
    \A t \in Timers : objects[t].due_by # None =>
        /\ (objects[t].due_by - objects[t].start) % Interval[t] = 0
        /\ objects[t].due_by <= now + Interval[t]

\* Whatever callbacks do, nested loops included, no assertion of addTimer,
\* remove_timer or set_run_loop fails and no freed timer is used ("timer may be
\* released when it's invalidated, so we need to retain it", ns_timer.rs:205):
\* the counts are exact, the loop holds the valid timers, none is called while it
\* is being called, and repeating ones do not drift.
TimersSound ==
    ~panic /\ TimerRefsExact /\ InLoopIffValid /\ NotReentered /\ OnSchedule

\* Once the loop runs, a timer that is due and is not running already is fired,
\* or invalidated.
LoopRuns == stack # <<>> /\ Head(stack).kind = "loop"

DueFires ==
    \A t \in Timers : (LoopRuns /\ t \in timers /\ Due(t)) ~> ~(t \in timers /\ Due(t))

=============================================================================
