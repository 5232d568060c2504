# A verification of touchHLE's stateful core

touchHLE runs 32-bit iPhone OS applications ("the guest"). The application's ARM code runs on an
emulated CPU; everything it calls, from `malloc` to UIKit, is a Rust function of the emulator ("the
host"), and the host calls back into guest code for methods, timers, audio callbacks and threads.
This directory holds TLA+ models of the parts of the emulator that keep state between calls and run
guest code in the middle of their own, the TLC configurations that check them, and TLAPS proofs.

Paths below are relative to the repository's `src/`. `PROJECT.json` maps every definition to its
lines, lists every component (the ones left out too) and the hazards that the properties are about,
each with its line.

## 1. The system

| Part | State | Operations | What makes it correct |
|---|---|---|---|
| thread scheduler (`environment.rs`) | threads with `active`, `blocked_by`, `in_host_function`, saved context; the host call stack | `run_inner` (tick, scan, switch), `run_call`, sleeping, thread creation and exit | a thread runs only when nothing blocks it; contexts and host flags match who executes; nobody starves; the deadlock panic is true |
| mutex table (`environment/mutex.rs`) | owner, count, type and waiting count of each mutex | init, lock, unlock, relock after waking, destroy | exclusion; the woken thread owns the mutex; an awaited mutex stays |
| pthread and semaphores (`libc/pthread/`, `libc/semaphore.rs`) | guest handles, condition variable queues, semaphore values, joins | the POSIX calls | no wake-up lost or doubled; joins wait |
| guest memory (`mem.rs`, `mem/allocator.rs`) | bytes, used and unused chunks, size buckets, null segment | `reserve`, `alloc`, `realloc`, `free`, `refurbish` | blocks are disjoint and zeroed, keep their contents; nothing leaks |
| objects and pools (`objc/objects.rs`, `ns_object.rs`, `ns_autorelease_pool.rs`) | reference counts, pool stack of each thread | retain, release, autorelease, dealloc, drain | counts are exact, dealloc happens once |
| collections (`ns_array.rs`, `ns_dictionary.rs`, `ns_set.rs`, `cf_dictionary.rs`) | tables by hash, order, owned elements | set, replace, remove, copy, enumerate | what was put in is found once; each element is owned as often as it is held |
| notification centre | observers of each name | add, remove, post | an observer lives while its method runs; none is called after it is freed |
| run loop and timers (`ns_run_loop.rs`, `ns_timer.rs`) | list of timers, due times | add, fire, invalidate, `run_run_loop`, `handle_timer` | due timers fire, on schedule, once at a time; the loop owns the valid ones |
| sound (`audio_queue.rs`, `av_audio_player.rs`, `audio_unit.rs`) | buffer queue, OpenAL queue, running state; packets; units and sources | enqueue, start, pause, stop, reset, dispose; the run loop's handlers | the two queues agree; buffers come back; stops complete; a file is heard as often as asked |
| files (`fs.rs`, `posix_io.rs`, `stdio.rs`, `dirent.rs`, `ns_user_defaults.rs`) | tree of guest paths over host files, offsets, pushed back characters, preferences | open, read, seek, rename, remove, ungetc, synchronize, a new start | the tree mirrors the host; bytes come once and in order; what was saved is found again |
| graphics (`gles/`, `opengles/`) | context of each thread, GL state, mapped buffers, drawables, frame clock | guest GL calls, fixed-point conversion, presenting | calls reach the thread's own context; drawing and presenting leave the guest's state |
| touches (`window.rs`, `ui_touch.rs`) | fingers down, desktop inputs, touch objects | polling a batch of events, begin, move, end | no touch stuck, lost or given to the wrong view |
| views and layers (`ui_view.rs`, `ca_layer.rs`, `composition.rs`, `animation.rs`) | two trees, windows, controllers, animations, textures | insertion, removal, hit test, transactions, a frame | the trees agree; an animation starts and ends once; changes reach the screen |
| controls and text fields | tracked touch, state, targets; first responder, keyboard | touches, actions, becoming and resigning first responder | a control ends with its touch; keys reach a field that edits |
| nib files (`ui_nib.rs`, `ns_keyed_unarchiver.rs`, `nib_archive.rs`) | decoded items, scope, references | decode, connect, show | one object per item, right connections, no reference lost or given back twice |
| start-up (`lib.rs`, `options.rs`, `app_picker.rs`, `mach_o.rs`, `dyld.rs`, `objc/classes.rs`, `abi.rs`) | options, picker flags, segments, symbols, classes, registers | picking, loading, linking, calls in both directions | the chosen app, as filed and with the options asked for; symbols, classes and arguments are the right ones |
| sockets (`libc/sys/socket.rs`) | descriptors, pending connections | POSIX calls over non-blocking host sockets | what `select` promised holds |

**How the parts interact.** One host thread runs all guest threads. A library call is one atomic
step as long as it does not call guest code; a call that does nests a new `run_inner`, in which any
guest thread can be scheduled. The host stack is therefore shared: a callback may only return when
its thread is on top of it. The run loop is such a host function: it copies its lists, then polls
the window's events, calls timers and audio callbacks and recomposes the screen, during which the
lists change. Objects (timers, pools, observers, views, what a nib contains) are reference counted
and guest code may release them in any callback.

**What is hard here**, and therefore what the properties are about: interleavings at the yield
points of the scheduler; state read before a callback and used after it; hand-over of a mutex in two
steps; objects freed by their own callback; two structures that must be kept in step (buffers and
OpenAL, tree and host, views and layers, descriptors and sockets) while callbacks or a device change
one of them; state that is borrowed and must be put back (GL state around a draw, the unarchiver's
scope, stack arguments); long sequences of allocations; starvation and false deadlock reports; and
the emulator's end and next start, over the files that it leaves. There is no true parallelism
except the audio device and the network, so data races do not arise.

## 2. Modules

| Module | Models | Extends |
|---|---|---|
| `Mutex` | the mutex table as a value, one operator per method of `MutexState` | |
| `Environment` | `run_inner`, `run_call`, `switch_thread`, sleeping, thread life | `Mutex` |
| `Pthread` | pthread and semaphore calls, the whole next-state relation, the thread properties | `Environment` |
| `PthreadProofs`; `SyncProofs` | theorems about `Pthread`: the scheduler; mutexes and waiting | `Pthread`; `PthreadProofs` |
| `MemProofs`, `RunLoopProofs`, `SoundProofs`, `LibcProofs`, `GuestProofs` | theorems about `Mem`, `Objects`, `MachO`; `RunLoop`, `Composition`, `Touches`; `AudioQueue`, `AudioUnit`, `Player`; `Sockets`, `Abi`, and the behaviours of `MCFiles` (`Fs`, `PosixIo`, `Stdio`, `Defaults`); `TextFields`, `Gles`, `Dyld`, `Notifications`, `Controls` | the modules each is about |
| `SequenceLemmas` | lemmas that these share: stacks and queues, recursive functions over the naturals, sums and counts over finite sets and sequences, and that a set of naturals has a least element | |
| `Allocator`, `Mem` | chunk maps and buckets as a value; guest memory and its requests | |
| `Heap` | the abstract specification that `Mem` implements | |
| `Objects` | reference counting and autorelease pools | |
| `Collections`, `Notifications` | one collection of any kind with its owners; the notification centre | |
| `RunLoop` | run loop and timers | |
| `AudioQueue`, `Player`, `AudioUnit` | one audio queue with its OpenAL source; AVAudioPlayer over a queue; audio units in the run loop | |
| `Fs` | the guest's tree over host files | |
| `PosixIo` | descriptors | `Fs` |
| `Stdio` | streams and directory streams | `PosixIo` |
| `Defaults` | NSUserDefaults over a file | `Fs` |
| `GlState` | the state of one context as a value, with every call as a function of it | |
| `Gles` | contexts of threads, draws, mapped buffers, presenting, the frame limit | `GlState` |
| `Touches` | from SDL's events to the touches of views | |
| `Views`, `Composition` | the trees of views and layers; animations, transactions and textures | |
| `MachO`, `Dyld`, `Classes`, `Abi` | loader, linker, classes and selectors, calls | |
| `Launch`, `Picker` | options and start-up; the app picker | |
| `Controls`, `TextFields`, `Nib` | touch tracking and actions; first responder and keyboard; nib files | |
| `Sockets` | sockets and `select` | |
| `MCSound`, `MCFiles`, `MCFoundation`, `MCScreen`, `MCSystem` | the instances that TLC runs; several components of one area share an instance, and a behaviour is then about one of them (`part`); the runs of `Pthread` need none | |

**Threads.** `stack` is the host call stack, a frame per nested `run_inner` ("inner") and per host
function that guest code called ("host"); `phase` is what the innermost one does. The scan of
`run_inner` takes one step per candidate thread, in the code's order, with its locals in `scan`; in
particular the `Condition` branch has no `break`, as in the code. Guest instructions are abstracted
to "any library call at any time". A deadline is abstracted to the set `due` of sleepers whose time
has come. `holds` is a history variable: the lock calls that returned 0 to a thread less its unlocks.
`panic` separates errors of the guest ("misuse"), of the emulator ("internal") and reported deadlocks.

**Memory.** The allocator is a value `[used, unused, buckets]`; `Mem` adds `bytes` (zero or not),
the zeroing mode, the null segment and the phases of one `Mem`: app picker, refurbishing, loading of
segments, the app. Constants scale the 4 GiB down and keep their relations, which
`AllocatorAssumption` states. A bucket is a set: which of several chunks of the smallest size is
taken is left open.

**Objects, collections, notifications.** A release that reaches zero runs `dealloc`, which is guest
code; `work` holds the tasks that a thread still has to do inside `release` and `drain`, and other
threads run between two of them. Every method of a collection is the sequence of retains and
releases it makes together with its change of the table; `IsEqual` and `HashOf` are constants, so
that equal and colliding keys both occur, and the guest changes the collection between two batches
of an enumeration. A post works on a copied list; observers add, remove, release and post in turn.

**Run loop.** `stack` holds the nested `run_run_loop` and `fire` calls of the main thread with their
copied timers; while the innermost loop sleeps other threads use the timers. `pool`, `held` and
`refs` account for every owner. Time is a counter.

**Sound.** `handle_audio_queue` is cut where it calls guest code. The OpenAL source is external and
modelled as the code uses it: it plays what it holds in order and stops when it runs out; a source
that never played ignores `alSourceStop`; what is queued on a stopped source counts as processed.
`Player` records what is heard (`heard`) beside what was asked for. In `AudioUnit` a callback may run
the loop again, so that passes nest; units whose guest breaks the rules of the interface are recorded
(`misused`), and go on being used.

**Files.** A host file is an inode, so that a descriptor keeps its file when the name goes. The
guest's tree is built from the host's at every start; `StartAgain` ends the process at any moment and
starts a new one over the same host files, with `tmp` emptied. Host refusals that the tree did not
foresee are recorded, because the code panics on them.

**Screen.** The state of a GL context is a record, what a guest declared is kept beside what the host
has, and a draw is compared with the declaration. Arrays, settings and capabilities are
representatives of their kinds: the guest's roughly 140 calls are grouped by what they change. A
place on the screen is the view that a hit test finds there. The view tree and the layer tree are one
record `ui`, changed by functions, because releasing a view deallocates its layer and subviews in
turn. Time in animations is counted in halves of a step.

**Start-up, calls, controls.** Addresses are pages, arguments are words, a symbol is its name, a
line of the copyright text its kind. Controls, text fields and nib files call guest code in the
middle; the calls under way are a stack, and each action is a piece between two callbacks.

## 3. Runs

| Run | Instance | Shows |
|---|---|---|
| `threads` | 3 threads, 2 mutexes (default and recursive), one handle, host stack of 4, sleeps; 1.46 M states | `TypeOK`, `LocksOwned`, `WaitingCountExact`, `ExecutionExact`, `NoInternalPanic` |
| `blocking` | 3 threads, a mutex, a condition variable, a semaphore, joins; 2.0 M states | `CondQueuesExact`, `DeadlockIsReal`, `WakesAreEarned` |
| `liveness` | 2 threads, host stack of 3, a semaphore, joins, sleeps, with fairness | `ThreadsGoOn`: runnable threads run, sleepers wake, joins return, posted units are taken |
| `sound` | a queue of 3 buffers with all calls; a file of 3 packets read two at a time, played once, twice and for ever; a repeating and a single-use timer, calls two deep, 4 ticks; with fairness; 200 k states | `AudioQueueSound`, `QueueGoesOn`, `HeardAsLooped`, `TimersSound`, `DueFires` |
| `files` | 2 inodes beside the app's own file, 2 descriptors, 2 stream pointers, restarts at any moment; 87 k states | `TreeIsHost`, `StreamsSound`, `RestartKeepsData` |
| `foundation` | 2 threads, 2 objects that may own each other, 2 pools; a collection of each of 5 kinds with 3 elements; 2 observers, 2 names, posts two deep; 2 audio units, passes two deep; 1.42 M states | `ObjectsCounted`, `CollectionsExact`, `ReceiverAlive`, `UnitsRenderOnce` |
| `screen` | 2 threads, 2 contexts, 2 drawables; 3 desks of inputs, 2 views; 3 views with layers; 2 animations; 16 bytes of memory in pages of 4, three blocks below and above a page, both programs write; 1.29 M states | `CallsReachOwnContext`, `DrawnRight`, `PresentedRight`, `TouchesRight`, `ViewsAgree`, `AnimationsRunOnce`, `ChangesReachScreen`, `AllocatorSound`, `OutOfMemoryIsReal`, `ImplementsHeap`: `Mem` implements `Heap` |
| `system` | 3 symbols, 4 app classes, 2 descriptors, files of 3 slices, calls 4 deep, 112 command lines, library graphs of 4 binaries, 2 fingers on the picker, 2 text fields, 1,152 nib files; 986 k states | `SameFunction`, `ClassesRealized`, `ReadinessHolds`, `LoadedAsFiled`, `ArgumentsArrive`, `StartsAsChosen`, `NibLoaded`, `ControlsFollowTouches`, `KeysReachEditor` |
| `cond_relock` | as `blocking` without semaphores and joins | violated: `OwnerIsLocker` |
| `self_rename` | the tree of `files` with a guest that renames a file to itself | violated: `NoHostSurprise` |
| `pools_below` | the objects of `foundation` with a guest that drains a pool under others | violated: `PoolsAboveGo` |
| `gone_observer` | the notification centre of `foundation` | violated: `NoneIsCalledGone` |

Each property's comment in its module says what it promises; every one is a conjunction of named
parts where it has several (`AllocatorSound` of the partition, the buckets, the assertions and the
null address, for instance), and each is broken by a mutant of the model that stands for a plausible
slip in the code.

**Why the bounds are enough.** Three threads are the least with which a wake-up can go to the wrong
thread (a waiter, a waker and a bystander); two mutex ids let a handle be destroyed and initialised
again while a thread still waits for the first one; a host stack of four holds a callback of one
thread above a callback of another, which is the smallest deferred return. Blocks of a fraction of a
page and of more than a page reach every branch of `alloc`, and three of them with free gaps on both
sides every way to glue. Two nested loops are the least for re-entrance; four ticks let the timer that
repeats every other tick be late by a part of an interval and by a whole one. Three buffers are one more than the two `prime_audio_queue` keeps
queued; three packets in buffers of two put the end of the file inside a buffer. Two inodes let a
file be replaced while a descriptor has it open. Three elements, of which two are equal and two
collide, reach both ways in which a lookup can go wrong. Two contexts and two threads are the least
for the wrong one to be current; two fingers, or a mouse with Shift, the least for a batch to mix
them. Two levels under a window are the least for a subtree to be moved. Six words of arguments reach
past the registers, and a call four deep has a host and a guest frame on both sides of it. Cycles of
libraries need two of them. Named bounds that cap counters: `MaxRecursion`, `MaxSem`, `MaxDepth`,
`MaxBlocks`, `MaxRefs`, `MaxEntries`, `MaxTime`, `MaxLen`, `MaxFiles`, `MaxHanded`, `MaxItems`,
`MaxHeld`, `MaxLeaks`, `MaxHeard`, `MaxNow`, `MaxFrames`, `MaxSources`, `MaxInLoop`, `MaxPump`,
`MaxQueue`, `MaxFlags`, `MaxChanged`, `MaxCaTime`, `MaxAnimRefs`, `MaxFds`, `MaxConns`, `MaxUnread`,
`MaxCalls`, `MaxTargets`, `MaxTouchesOn`, `MaxCallDepth`, `MaxLength`.

**Guests.** Passing runs restrict the guest where the code documents or assumes it, or where it goes
wrong otherwise; constants named `...Careful` list what is avoided, and removing a member lets TLC
show what happens. In order of modules:

* `threads` has no condition variables (because of the first finding); timers are fired by the guest
  only when it has retained them; `AnyPool`: only the innermost pool is drained (see `pools_below`).
* `QueueCareful`, `Inside`: no reset of a queue that was only primed, no stop, pause or disposal at
  once in the queue's own callback. `PlayerCareful`: play is not called while the queue runs or
  before a stop, seeking happens when stopped. Audio units are used in every way; what is claimed of a
  unit is claimed until it is misused (`Misuses`).
* `SelfRename`, `FreadAfterUngetc`: no renaming to itself, no block reads after `ungetc`.
* `Careful` of `Gles`: the threads share one context at a time ("one_thread"), a thread without a
  context does not set nil ("nil_current"), one buffer is mapped at a time, and arrays are as the draws
  can restore them ("arrays"). `UiCareful`: a controller goes after its view. `CaCareful`: animations
  without a duration are added inside a transaction, and an animation that is in the list being
  reported is not replaced or removed ("listed").
* `SockCareful`: `select` is asked before a call, a connection accepted before the next `select`,
  sockets are polled in a state that `select` knows, broadcasts are enabled. Peers close and reset at
  any moment. `MachCareful`: load commands in the usual order, no overlapping libraries, one entry
  point. `AbiCareful`: variable arguments in registers are read before other calls; a result through
  memory comes with arguments that fit in registers. `DyldCareful`: no symbol defined by both a binary
  and the host.
* `PickerCareful`: a finger does one thing in a turn of the loop. `TextCareful`: a field is not ended
  again while it is ending ("ends_once"), and not freed while it is in a call ("holds"); any field is
  touched, and begins and ends in any callback. `NibCareful`: arrays of a NIBArchive have two elements
  or more, outlets name objects.

**Panics.** An error that the code answers with a panic is a state of the models. A passing run allows
the following of them, and no other in its models under this care:

* what the code reports of the guest or of its resources: a guest's misuse of a thread object and a
  deadlock that is one (`panic` of `Environment`), memory that is exhausted and a segment over what is in
  use (`mem_panic`), a call of a function that nobody exports (`linkPanic`), a message that nobody
  implements (`Lookup`);
* what a careful guest may still run into: a panic on an audio unit that was misused (`misused`) and on
  a stream that the network has reset (`lost`: in `select`'s error set, in `accept` and when sending), a
  message to a first responder that was freed, and a post that meets a freed observer, which the run
  `gone_observer` is about.

Panics in code that is not modelled are not excluded by anything here.

**Deadlock checking** is on for `threads`, `blocking` and `liveness`. The others have parts that really
end: a program that can ask for nothing more, an app that has been started, a queue that was disposed
of, a file that was loaded.

**Fairness.** The host process keeps running: scan steps and host functions are weakly fair, time
passes, a nap that was woken returns. `Preempt` is strongly fair because `run_inner` gives a thread
100,000 ticks that no library call refills. In the run loop a frame that can move again and again
moves (guest callbacks return); in the audio queue the handler is visited and the device plays on,
also while the handler is idle, since a buffer lasts far longer than the handler.

### What the violated runs say

* `cond_relock`: the `Condition` branch of the scan sets `mutex_to_relock` without leaving the loop;
  a later candidate becomes `suitable_thread` and gets the mutex, and the waiter returns from
  `pthread_cond_wait` without it (`environment.rs:1199`).
* `self_rename`: `rename(a, a)` removes the file's only node from the tree while the host keeps the
  file (`fs.rs:973`); a later `create_dir` at the path, or the removal of its directory, panics.
* `pools_below`: the loop that drops pools deallocates `this` where it means `pool`
  (`ns_autorelease_pool.rs:123`), so that the pools above the drained one are never deallocated, which
  the comment above it (105-107) says they are.
* `gone_observer`: a post goes through a copy of the list whose observers it retains only one at a time,
  each in its turn (`ns_notification_center.rs:187`); an observer that an earlier one removed and freed
  is sent the message all the same, which the comment there (183-186) means to prevent.

Other disagreements met while modelling, which passing runs avoid as listed above:

* threads: `pthread_join` misses a cycle of two threads when a third has joined one of them in
  between (`thread.rs:260`); `pthread_mutex_destroy` wipes the handle although it returns EBUSY
  (`pthread/mutex.rs:200`);
* objects: setting a value for a key that is present leaks the new copy of the key
  (`ns_dictionary.rs:59`; the model counts such copies in `leaks`); `fire` does not retain the timer, as `handle_timer` takes care to
  (`ns_timer.rs:151`); a repeating timer late by exactly two or three intervals is due again at once
  (`ns_timer.rs:225`);
* sound: `alSourceStop` does nothing to a source that was only primed, so a reset empties one queue
  and not the other (`audio_queue.rs:979`); the handler uses the `is_running` it read before the
  callbacks and restarts a queue they stopped (`:794`), and never completes the stop of a queue with
  an unsupported format (`:750`); starting a running unit loses its source (`audio_unit.rs:204`), and
  a pass panics on a unit that was disposed of after the pass copied the list, or whose source its own
  callback deleted (`audio_unit.rs:268`; the TODO at `ns_run_loop.rs:264` says as much);
* files: `fread` takes pushed back characters without moving the offset that `ungetc` moved back
  (`stdio.rs:147`); `fgets` may write its terminator past the buffer (`:240`);
* graphics: `sync_context` does not record the thread whose context it makes current
  (`opengles.rs:52`); `setCurrentContext:` with nil clears the mark that the window's own context is
  current, whoever calls it and although nothing is made current (`eagl.rs:95-96`), so that the other
  thread's next call reaches that context; presenting and drawing do not put back every fixed-point array; an animation
  without a duration outside a transaction panics (`ca_layer.rs:511`);
* network: a second `select` before `accept` panics (`socket.rs:491`); so do the error set of `select`,
  `accept` and `send` on a connection that its peer has reset (`:629`, `:686`, `:891`);
* text fields: a field that becomes first responder does not make the previous one resign
  (`ui_text_field.rs:246`), which goes on editing without a keyboard; `dealloc` leaves a first responder
  dangling (`:111`), and the next key or `endEditing:` sends it a message;
* notifications, collections: as the runs above say; a collection that changes between two batches of
  an enumeration is enumerated by position (`ns_enumerator.rs:54`), where the system would raise an
  exception;
* nib files: the owner's proxy gives the owner away without a reference (`ui_nib.rs:147`), and a
  NIBArchive's array of one element is not found (`nib_archive.rs:411`).

### Hazards that no property covers

* `pthread_once` marks itself done before the routine has run (`pthread/once.rs:44`); `sem_destroy`
  with waiters makes the scan unwrap a semaphore that is gone (`semaphore.rs:70`, undefined in POSIX
  and a guest error in the model).
* Sizes near 2^32 overflow when they are rounded up (`allocator.rs:336`).
* `objectForKey:` and sorting take the table out of the object while guest code compares
  (`ns_dictionary.rs:351`, `ns_array.rs:491`); `allObjects` of a set does not retain (`ns_set.rs:228`).
* Invalidating a timer that was never added panics (`ns_timer.rs:131`); timers that are due at the
  same time may fire in another order than they were added (`ns_run_loop.rs:173`: the model fires
  them in any order).
* OpenAL sources and buffers, textures of layers, and a byte for each `fgetc` are never freed
  (`audio_queue.rs:1058`, `audio_unit.rs:228`, `ca_layer.rs:155`, `stdio.rs:194`): counts that the
  models leave out. An empty file that is to loop recurses without end (`av_audio_player.rs:424`).
* `writeToFile:atomically:` is not atomic, as its comment says (`ns_data.rs:159`); `exit` saves the
  user defaults before it sends `applicationWillTerminate:` (`ui_application.rs:373`, `:397`).
* A callback of `touchesBegan:` that runs the run loop handles more touches in between
  (`ui_touch.rs:139`); the run loop asserts that no explicit transaction is open
  (`ca_transaction.rs:71`).
* `select` looks at one descriptor too many (`socket.rs:657`); a cyclic archive is decoded without end
  (`ns_keyed_unarchiver.rs:420`); deleting a character releases a text that is not owned
  (`ui_text_field.rs:387`).

## 4. Proofs

Each theorem holds for every value of the constants that satisfies the assumptions named in the
modules. Those only say that bounds are naturals, that names come from the right sets, and how the
emulator's own constants relate (page and chunk sizes, for instance). A theorem that needs more says
so in its `ASSUME`: what this guest takes care of, which is also what the run of that property
assumes, or, for mutexes, that there are no condition variables. Each proof follows the same
argument: an inductive invariant, which TLC checked first, holds of `Init`, is kept by every action
(one lemma each) and by a stutter, and implies the property. Functions of a model that are defined by
recursion (a loop over a list, for instance) are reasoned about with the lemmas `SetRecursion`,
`StepIteration` and `Iteration` of `SequenceLemmas`: by the least index at which they fail, since
the induction theorems are of no use here (they take an operator as a parameter).

* `PthreadProofs`: `TypeCorrect`, `ContextsExact`, `HostFlagCorrect`, `ResumesOnlyRunnable`,
  `ExecutionCorrect` (their conjunction, the property that `threads` checks) and
  `SwitchAssertionHolds`. The inductive invariant is `TypeInv /\ SchedInv`. `TypeInv` adds to
  `TypeOK` that a mutex is counted exactly when it is owned (otherwise an unlock could make the count
  negative). `SchedInv` adds to the three properties the shape of the host stack (`StackShape`: which
  frames alternate, and whose `was` flags they hold), that a thread with a deferred return has a
  callback on the stack, that `switch_thread` is never asked to switch to the running thread, and
  that the thread a scan has picked is alive and not blocked. Without the stack shape the flag that
  `run_call` restores is arbitrary; without the pick the switch at the end of a scan says nothing.
* `SyncProofs`, on mutexes: `MutexesExclude`, `LockerOwns`, `LocksCorrect` (both, the property of the
  run), `WaitingCountCorrect`, `RelockNeverFails`, each under `Conds = {}`. The assumption is needed:
  with a condition variable the first two are false (run `cond_relock`). `LockInv` says that the table
  and what each thread was told agree, that a thread in between has exactly one call outstanding
  (`Waits`: blocked, or picked by the scan and not yet given the mutex), and that a mutex about to be
  relocked is free. `WaitInv` adds the count, which is compared with the cardinality of the set of
  waiters, and that awaited mutexes exist.
* `SyncProofs`, on waiting: `DeadlocksAreReal`, `NoWakeupLost`, `WakesEarned`, on top of the invariant
  of `PthreadProofs` and with condition variables. `SeenInv` says that what a scan saw of each candidate
  it has passed still holds, since nothing runs during the scan; the candidates are all threads when the
  scan ends, which is arithmetic modulo their number. `QueueInv` says that the two queues of a condition
  variable list its waiters once each and that a destroyed one has none; its lemmas say what appending,
  moving and removing an element does to such a list. `WakesEarned` is an action property, shown of each
  action under the scheduler's invariant.
* `MemProofs`: `MemorySound`, `NoFalseExhaustion` and the refinement `MemoryIsHeap`, for any page and
  chunk size, segments and size of memory. `HeapSound` is what an allocator is between two
  operations: its chunks tile the address space, and the buckets list the unused ones by size.
  Separate lemmas say what each operation on a chunk map and a bucket returns and when it panics, so
  that `alloc`, `free`, `realloc` and reservations are proved from them. `MemInv` adds who keeps
  address zero in each phase (otherwise it could be handed out), and that where freeing zeroes, or
  before the app runs, unused bytes are zero (otherwise a new block need not be). That a larger
  request has a larger bucket needs the monotony of the recursive function `ilog2`, for which the
  induction theorems are of no use here: it is argued by the least counterexample (`LeastNatural`,
  obtained from the well-foundedness of inclusion among finite sets). The refinement maps every
  request to a step of `Heap` or to a stutter.
* `MemProofs`, on objects: `ObjectsStayCounted`, for a guest that drains only its innermost pool
  (`~AnyPool`; otherwise the loop that drops pools deallocates the wrong one). `ObjInv` says that a
  count is the sum of the references that threads have (what they own, what they are about to
  release), that pools have listed and that owners hold (`Counted`); that an object has one task that
  deallocates it, among all threads, exactly while its count is zero and it exists (`DiesOnce`); that
  what is owned exists; and what a thread's tasks and pools can be (`WorkShape`, `StackShape`). The
  sums are over finite sets of naturals or positions; the lemmas `Total...` and `Items...` say what
  changing one summand, or appending, removing and moving one element, does to them.
* `MemProofs`, on loading: `AppsLoadAsFiled`, for the binaries section 3 assumes, whatever slices, library
  addresses and pages there are. `MachInv` says of each moment what has been loaded, as a function of the
  commands dealt with: which come before which (`Ordered`), the record of the loader (`LoadedOf`), the
  memory over what was in it (`MemOf`) and the pages reserved (`ReservedOf`). A command then loads into
  pages that are free because segments come by address and binaries are apart, and the property is what
  `MachInv` says when all commands are done. That the loop over the slices finds the best one is an
  induction over its passes (`BestIsBest`), with `StepIteration` of `SequenceLemmas`.
* `RunLoopProofs`: `TimersAlwaysSound`, for a `Careful` guest, which fires only timers it has retained
  and does not release its reference to one that it is firing. `TimersInv` accounts for each
  reference (`Fits`): those of the run loop, of the copies that loops under way have made, of a
  firing in progress, of the pool and of the guest add up to the count; `FrameFits` says what each
  call in progress can be doing. The counts are cardinalities of sets of stack positions, so there
  is a lemma for what pushing, popping and changing the top of the stack does to them, and one for
  each way a reference comes or goes. That a repeating timer keeps to its schedule is a lemma on
  remainders (`Advances`).
* `RunLoopProofs`, on layers: `AnimationsTold`, for a guest that adds animations without a duration
  inside transactions and does not replace or remove one that is in the list being reported
  (`CaCareful`; otherwise `ca_layer.rs` panics, or a delegate is told of the wrong one and the one put in
  its place is removed, `animation.rs:276-279`), and where none is held at its
  end (`NoneComesToItsEnd`: there its fraction is that of its start, and it is seen to jump back). It says
  that a delegate hears at most once of a start and then at most once of an end, and that no frame
  meets an animation that is gone (`~caPanic`); that it hears of the end at all is not claimed.
  `AnimationsInv` says that an animation is in one place (a layer's keyed or unnamed ones, a block, the
  list being reported; `OnePlace`), that those being reported have ended and not been told so
  (`ReportInv`), that what a delegate was told is what happened, in order and once (`ToldInv`), and how
  far what was shown has got (`ShownInv`). `ChangesAreShown` needs no hypothesis: what a layer's texture
  lacks is a change that will be drawn.
* `RunLoopProofs`, on touches: `TouchesFollowHands`, without a hypothesis, for every set of inputs a
  user may have and queues of any length. `TouchInv` says that the events in SDL's queue lead, one by
  one, from the inputs that were held when the window last looked to those held now (`Pressing`), that
  the events in the window's queue lead from the touches in progress to the fingers that those former
  inputs stand for (`Touching`), that what the window remembers of its inputs is in step with them
  (`InStep`), and that at most one event about the controller waits (`ControllerInv`). A batch is a
  recursive function of the events in SDL's queue; each kind of event has a lemma on what it adds to
  the window's queue, among them the stick and the virtual cursor, which are read as they are at the
  end and not as the event found them.
* `SoundProofs`: `UnitsSoundForEver`, without a hypothesis: callbacks may start, stop and dispose of
  any unit. What it promises of a unit ends where the guest misuses that unit (`Misuses`: starting it
  while it runs or before it is set up, stopping it in its own callback, disposing of it while it is
  started, in the run loop's list or still to be rendered by a pass that copied the list); and it says
  that a pass panics on no other. `UnitInv` adds to the property that the sources of
  started units differ, that a unit is in one callback at a time and stays as the pass that called it
  found it (`PassSound`), that what passes still have to render exists or was misused, and
  that what a unit has rendered reaches at most to its last rendering, or to the time its callback was
  called at. `QueueSoundForEver` is about an audio queue under `LeavesRunning`: the guest takes the care
  of `QueueCareful`, and its callbacks do not pause the queue, stop it at once or dispose of it; all
  other calls may come from a callback, more than the run allows. `AudioQueueInv` says that the OpenAL
  queue is a prefix of the guest's (`Leads`), that the source only plays for a queue that is not
  stopped, and that `is_running` as the handler read it is not outdated before the source is restarted,
  which is what the excluded calls would break. `PlayedAsAsked` is about a player of one file under
  `PlayerCare` (the members of `PlayerCareful`: play once, stop first, resume later, seek first).
  `PlayerInv` says that the player plays while its queue runs (`RunsAsTold`), and that what was heard,
  continued by the buffers from where the source is and then by what the player will read, is the file
  from the place set, with a whole number of starts from its beginning that the loops still to come
  account for (`Stream`). When the source has run out of a paused queue nothing more is heard (`Lost`,
  `Silent`).
* `LibcProofs`: `ReadyWhenTold`, for an app that takes the four kinds of care of `SockCareful`; without
  any of them a call panics. Peers may reset a connection at any moment, before it is accepted too: the
  call that meets it panics (`lost`), and what the theorem says of the others holds. `SockInv` says that descriptors and sockets agree (`SlotsInv`), which host
  sockets an object can have at once (`SocketFits`), that what waits at the host waits for a socket that
  is still there (`NetInv`), so that a number that is used again finds nothing old, and that every
  connection has one place (`HolderInv`): the stream of a socket, pending at one, or one position of one
  backlog. `ToldInv` alone is not inductive: a message is taken by the socket it was for only because no
  other has the same stream.
* `LibcProofs`, on calls: `ArgumentsArriveForEver`, for a stack of any size, calls with any numbers of
  words and any depth, where host functions read variable arguments that came in registers before they
  call and no message with a large result has arguments on the stack (`AbiCareful`; otherwise the first
  come from registers that have changed, and of the second the last word lies in the room for the
  result, whose address is not counted when room for stack arguments is made). `LayoutInv` says that
  what a call keeps on the stack, and the room for its result, are below those of all calls that wait
  for it, so that neither a deeper call's arguments nor a result overwrites an argument; `PassedInv`
  that the stack and the registers of the running function have all that it has not read yet, and that
  waiting ones need no registers.
* `LibcProofs`, on files: `FilesStayOne`, for an app that renames no file to itself (run `self_rename`)
  and opens none both to append and to be emptied (`HostTakes`: the host's `File::options` refuses this,
  and the code unwraps the refusal). `HostInv` says that the tree is the one that a new start would
  build (`TreeIsBuilt`) and that names and contents belong to inodes; the lemmas say what adding,
  removing and moving a subtree does to a tree that is built from the host's. `RestartsKeepData` adds
  `PrefsInv`: the preferences file holds what was synchronized last, and a start that finds it loads
  that. Both theorems are about the specification of the run, in which the app can end at every moment.
* `LibcProofs`, on streams: `StreamsStaySound`, for an app that does not read blocks or lines over what
  it has pushed back (`FreadAfterUngetc`, the finding on `fread` above). `StreamsInv` says of each
  stream over the bundle's file that what was taken is the file up to the offset, and that what is
  pushed back is what follows there (`FitsAt`), which `ungetc`, `fseek` and reading each keep in their
  way; and that no two streams share a descriptor's slot. `DirsInv` counts the entries that `readdir`
  allocated as a sum over open directories, and `TreeFinite` lets a directory's names be listed.
* `GuestProofs`, on text fields: `KeyboardFollows`, for a guest that does not end a field again while it
  is ending and frees none that is in a call (`TextCareful`). Any field is touched at any time, and
  callbacks begin and end editing in each other. `CallsInv` says at which of its callbacks each call
  under way waits, and that no field is ended in two calls; `TakesOver` that a call has made its
  field first responder and has yet to mark it as editing; `KeyboardInv` how far the calls have taken
  the keyboard, the first responder and the `editing` flags apart. That the previous first responder goes on editing, and
  that a freed one may be sent a key, the theorem does not exclude (section 3).
* `GuestProofs`, on OpenGL ES: `OwnContextReached`, for a guest whose threads do not have different
  contexts current at the same time (`"one_thread"`; otherwise `sync_context` switches the host's
  context without recording for which thread) and in which no thread without a context sets none
  (`"nil_current"`; otherwise the mark that the window's own context is current is lost). `ContextInv` says that the host's context is that of
  the threads, unless the emulator used its own or nobody is recorded. `PresentsForEver` needs no
  such care. `TableInv` says that whatever the guest or a thread refers to is alive and that a
  drawable's count is the cardinality of the set of renderbuffers of living groups that it backs;
  the lemmas say by how much backing, deleting and deallocating change the one and the other.
  `FramesInv` says that after each frame the next one is due an interval later for every frame
  since, and that the clock is at most an interval behind that.
* `GuestProofs`, on the linker: `SameFunctionForEver`, where no binary exports what the host exports too
  (`"clash"`; otherwise stubs prefer the host and pointers the binary). `DyldInv` says that a
  translation is always of the code as it is, and that whatever is linked (a trampoline's number, a
  stub's trap, a restored stub's slot, a pointer) is linked to what its symbol stands for (`Reaches`).
  Numbers are only ever added, so what was linked stays so, and no two stubs share a slot.
* `GuestProofs`, on notifications: `ReceiversAlive`, without a hypothesis. It is about the observer that
  a post is calling, which the code retains; that each observer a post calls is alive when its turn comes
  (`NoneIsCalledGone`) is false, as the run `gone_observer` shows. `NotifInv` counts an
  observer's references: the guest's, those of the lists it is registered in, and those of posts that
  are calling it. The loop that removes observers by moving the last one into the gap (`StepOver`) is a
  recursive function; what it leaves is a list with the observers that do not match, each as often as
  before.
* `GuestProofs`, on controls: `TouchesControl`, without a hypothesis. `ControlInv` adds to the property
  the types of what is being sent and, for a guest that asks for a switch's changes, that it has
  been told its value or an action that tells it is among those still to be sent; `Actions`, the list of
  targets of an event, is a recursive function.

Only model-checked, and why: all liveness and the fairness it needs (out of the prover's reach);
semaphores' values and joins beyond what `WakesEarned` says; nib files, classes and the trees of
views, whose operators are `RECURSIVE` and which need induction over data (`NibLoaded`,
`ClassesRealized`, `ViewsAgree`). `CollectionsExact`, `DrawnRight` and `StartsAsChosen` have
not been proved yet.

## 5. Plan

Done: threads, memory, objects and collections, run loop, sound, files, graphics and screen, touches,
start-up, loading, linking and calls, controls, nib files, sockets; the theorems of section 4.

Next, in this order:

1. Proofs: `CollectionsExact`, `DrawnRight`, `StartsAsChosen`.
2. `Sync`: `@synchronized`, `NSLock`, `pthread_once`, thread-specific keys and named semaphores as
   clients of `Pthread`.
3. Composition of `RunLoop` with `Touches` and `Composition`: touches handled inside a nested loop,
   the implicit transaction's commit.
4. Sliders, segmented controls and navigation controllers.

## 6. Not modelled

The CPU (a library); string and number conversions, printf and scanf (single calls, covered by the
repository's tests); fonts, images, Core Graphics and floating-point geometry (outside TLC's
arithmetic); the debugger's packet protocol; OpenAL's forwarding and the decoding of audio files;
media players, stores, game centre, location and the network classes of Foundation (stubs); most
Foundation values. In the modelled parts: named semaphores, thread attributes other than detaching,
mach ports, several audio queues at once, audio parameters and listeners' registration, overflow of
32-bit addresses in the allocator, key-value coding, enumerations and sizes of GL parameters, byte
layouts of Mach-O tables and NIBArchives, name resolution, layout of views and pickers.
