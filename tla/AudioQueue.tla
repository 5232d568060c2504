----------------------------- MODULE AudioQueue -----------------------------
(***************************************************************************)
(* One audio queue (frameworks/audio_toolbox/audio_queue.rs): the guest    *)
(* enqueues buffers, the run loop moves them to an OpenAL source, takes    *)
(* the used ones back and hands them to the guest's callback.              *)
(*                                                                         *)
(* The run loop's handler calls guest code in its middle, so it takes      *)
(* several steps: `at' is where it is, `reuse' the buffers it still has to *)
(* hand back, `saw' the is_running it read before the callbacks.  at is    *)
(* not "idle" exactly while is_running_handler is set.  Guest code, in the *)
(* callback, the listener or another thread that runs meanwhile, makes any *)
(* call; between the other steps of the handler only the device moves on.  *)
(* Constants say which calls this guest makes, and which of them while the *)
(* handler is active.                                                      *)
(*                                                                         *)
(* The OpenAL source is external: it plays what it holds, oldest first,    *)
(* and stops when it runs out.  As OpenAL has it, a source that has never  *)
(* played has processed nothing and ignores alSourceStop, and everything   *)
(* that is or gets queued on a stopped source counts as processed.         *)
(***************************************************************************)
EXTENDS Integers, Sequences, FiniteSets, SequencesExt

CONSTANTS Buffers,      \* addresses of audio queue buffers
          Calls,        \* API calls the guest makes
          Inside,       \* those it makes while the handler is active
          QueueCareful,      \* it stops or resets no queue that it has only primed
          Supported     \* is_supported_audio_format

API == {"Prime", "Pause", "Stop", "StopAsync", "Reset", "FreeBuffer", "Dispose"}

ASSUME AudioQueueAssumption ==
    Calls \subseteq API /\ Inside \subseteq API
    /\ QueueCareful \in BOOLEAN /\ Supported \in BOOLEAN

VARIABLES
    exists,         \* whether the queue is in State::audio_queues
    buffers,        \* AudioQueueHostObject::buffers
    buffer_queue,
    is_running,     \* "Running", "Stopping", "Stopped"
    source,         \* al_source and its state: "None", "INITIAL", ...
    al_queue,       \* the buffers queued on the source, by what they hold
    played,         \* how many of al_queue a playing or paused source has played
    at,             \* "idle", "loop", "callback", "restart", "stopping", "notify"
    reuse,          \* buffers_to_reuse
    saw,            \* the handler's copy of is_running
    queue_panic

avars == <<exists, buffers, buffer_queue, is_running, source, al_queue, played,
           at, reuse, saw, queue_panic>>

qvars == <<exists, buffers, is_running>>
hvars == <<at, reuse, saw>>

AudioQueueInit ==
    /\ exists = FALSE /\ buffers = {} /\ buffer_queue = <<>>
    /\ is_running = "Stopped"
    /\ source = "None" /\ al_queue = <<>> /\ played = 0
    /\ at = "idle" /\ reuse = <<>> /\ saw = "Stopped"
    /\ queue_panic = FALSE

---------------------------------------------------------------------------
(* The OpenAL source *)

\* AL_BUFFERS_PROCESSED
Processed(s, q, n) == CASE s = "STOPPED" -> Len(q)
                        [] s \in {"PLAYING", "PAUSED"} -> n
                        [] OTHER -> 0

\* alSourcePlay: starts over unless the source was paused; stops at once if
\* there is nothing to play.
PlayedState(q) == IF q = <<>> THEN "STOPPED" ELSE "PLAYING"

PlayedFrom(s, n) == IF s = "PAUSED" THEN n ELSE 0

\* alSourceStop
StoppedState(s) == IF s \in {"PLAYING", "PAUSED"} THEN "STOPPED" ELSE s

\* The device plays one buffer to its end.
al_plays ==
    /\ ~queue_panic /\ source = "PLAYING"
    /\ played < Len(al_queue)
    /\ played' = played + 1
    /\ source' = IF played + 1 = Len(al_queue) THEN "STOPPED" ELSE "PLAYING"
    /\ UNCHANGED <<qvars, buffer_queue, al_queue, hvars, queue_panic>>

---------------------------------------------------------------------------
(* Parts of several calls *)

\* prime_audio_queue: buffers are decoded and queued until the source has two
\* it has not played, or all there are; on a stopped source that is all.
primed_length(s) ==
    LET want == IF s = "STOPPED" THEN Len(buffer_queue)
                ELSE Processed(s, al_queue, played) + 2
    IN  IF want > Len(buffer_queue) THEN Len(buffer_queue)
        ELSE IF want < Len(al_queue) THEN Len(al_queue) ELSE want

primed_source == IF source = "None" THEN "INITIAL" ELSE source

\* A plausible slip: the next buffer is the one after those not played yet.
primed_queue_by_unplayed ==
    al_queue \o SubSeq(buffer_queue, Len(al_queue) - Processed(primed_source, al_queue, played) + 1,
                       primed_length(primed_source))

primed_queue == al_queue \o SubSeq(buffer_queue, Len(al_queue) + 1, primed_length(primed_source))

\* its assertion al_buffers_queued <= buffer_queue.len()
prime_ok == Supported => Len(al_queue) <= Len(buffer_queue)

\* unqueue_buffers: what the source has processed, oldest first.
unqueued(s) == Processed(s, al_queue, played)

\* AudioQueueReset, of a source that was stopped if it could be.
reset_queue ==
    /\ source' = StoppedState(source)
    /\ al_queue' = SubSeq(al_queue, unqueued(StoppedState(source)) + 1, Len(al_queue))
    /\ played' = 0
    /\ buffer_queue' = <<>>
    /\ queue_panic' = (source # "None" /\ unqueued(StoppedState(source)) > Len(buffer_queue))

\* Guest code runs: at any time while the handler does not, and while the
\* handler is in a callback or in the listener (notify_aq_is_running).
GuestActs == ~queue_panic /\ at \in {"idle", "callback", "notify"}

Can(call) ==
    /\ GuestActs /\ exists /\ call \in Calls
    /\ at # "idle" => call \in Inside

CanReset(call) ==
    Can(call) /\ (QueueCareful => source # "INITIAL" \/ al_queue = <<>>)

---------------------------------------------------------------------------
(* Calls of the guest *)

AudioQueueNewOutput ==
    /\ ~queue_panic /\ ~exists /\ at = "idle"
    /\ exists' = TRUE /\ buffers' = {} /\ is_running' = "Stopped"
    /\ buffer_queue' = <<>> /\ source' = "None" /\ al_queue' = <<>> /\ played' = 0
    /\ UNCHANGED <<hvars, queue_panic>>

AudioQueueAllocateBuffer(b) ==
    /\ GuestActs /\ exists /\ b \notin buffers /\ b \notin ToSet(reuse)
    /\ buffers' = buffers \cup {b}
    /\ UNCHANGED <<exists, is_running, buffer_queue, source, al_queue, played,
                   hvars, queue_panic>>

\* The guest enqueues a buffer that it has.
AudioQueueEnqueueBuffer(b) ==
    /\ GuestActs /\ exists /\ b \in buffers
    /\ b \notin ToSet(buffer_queue) /\ b \notin ToSet(reuse)
    /\ buffer_queue' = Append(buffer_queue, b)
    /\ UNCHANGED <<qvars, source, al_queue, played, hvars, queue_panic>>

AudioQueuePrime ==
    /\ Can("Prime")
    /\ IF Supported /\ prime_ok
       THEN source' = primed_source /\ al_queue' = primed_queue
       ELSE UNCHANGED <<source, al_queue>>
    /\ queue_panic' = ~prime_ok
    /\ UNCHANGED <<qvars, buffer_queue, played, hvars>>

AudioQueueStart ==
    /\ GuestActs /\ exists
    /\ is_running' = "Running"
    /\ IF Supported /\ prime_ok
       THEN /\ al_queue' = primed_queue
            /\ source' = PlayedState(primed_queue)
            /\ played' = PlayedFrom(source, played)
       ELSE UNCHANGED <<source, al_queue, played>>
    /\ queue_panic' = ~prime_ok
    /\ UNCHANGED <<exists, buffers, buffer_queue, hvars>>

AudioQueuePause ==
    /\ Can("Pause")
    /\ is_running' = "Stopped"
    /\ source' = IF source = "PLAYING" THEN "PAUSED" ELSE source
    /\ UNCHANGED <<exists, buffers, buffer_queue, al_queue, played, hvars, queue_panic>>

\* AudioQueueStop, immediate: finish_stopping_audio_queue
AudioQueueStop ==
    /\ CanReset("Stop")
    /\ reset_queue
    /\ is_running' = "Stopped"
    /\ UNCHANGED <<exists, buffers, hvars>>

\* AudioQueueStop, asynchronous
AudioQueueStopAsync ==
    /\ Can("StopAsync") /\ is_running = "Running"
    /\ is_running' = "Stopping"
    /\ UNCHANGED <<exists, buffers, buffer_queue, source, al_queue, played,
                   hvars, queue_panic>>

AudioQueueReset ==
    /\ CanReset("Reset")
    /\ reset_queue
    /\ UNCHANGED <<qvars, hvars>>

AudioQueueFreeBuffer(b) ==
    /\ Can("FreeBuffer") /\ b \in buffers /\ b \notin ToSet(buffer_queue)
    /\ buffers' = buffers \ {b}
    /\ UNCHANGED <<exists, is_running, buffer_queue, source, al_queue, played,
                   hvars, queue_panic>>

AudioQueueDispose ==
    /\ Can("Dispose")
    /\ exists' = FALSE /\ buffers' = {} /\ is_running' = "Stopped"
    /\ buffer_queue' = <<>> /\ source' = "None" /\ al_queue' = <<>> /\ played' = 0
    /\ UNCHANGED <<hvars, queue_panic>>

---------------------------------------------------------------------------
(* handle_audio_queue, called by the run loop *)

\* Used buffers are taken off both queues.
handle_audio_queue ==
    /\ ~queue_panic /\ at = "idle" /\ exists /\ source # "None" /\ Supported
    /\ LET n == unqueued(source)
       IN  /\ queue_panic' = (n > Len(buffer_queue))
           /\ reuse' = SubSeq(buffer_queue, 1, n)
           /\ buffer_queue' = SubSeq(buffer_queue, n + 1, Len(buffer_queue))
           /\ al_queue' = SubSeq(al_queue, n + 1, Len(al_queue))
           /\ played' = 0
    /\ saw' = is_running
    /\ at' = "loop"
    /\ UNCHANGED <<qvars, source>>

\* callback_proc is called with one of them, after it returned from the last.
call_back ==
    /\ ~queue_panic /\ at \in {"loop", "callback"} /\ reuse # <<>>
    /\ reuse' = Tail(reuse)
    /\ at' = "callback"
    /\ UNCHANGED <<qvars, buffer_queue, source, al_queue, played, saw, queue_panic>>

\* prime_audio_queue unwraps the queue, which the callbacks may have disposed of.
handle_prime ==
    /\ ~queue_panic /\ at \in {"loop", "callback"} /\ reuse = <<>>
    /\ at' = "restart"
    /\ IF exists /\ prime_ok
       THEN source' = primed_source /\ al_queue' = primed_queue /\ UNCHANGED queue_panic
       ELSE queue_panic' = TRUE /\ UNCHANGED <<source, al_queue>>
    /\ UNCHANGED <<qvars, buffer_queue, played, reuse, saw>>

\* A source that ran out of data is started again.
handle_restart ==
    /\ ~queue_panic /\ at = "restart"
    /\ at' = "stopping"
    /\ IF saw # "Stopped" /\ source = "STOPPED"
       THEN source' = PlayedState(al_queue) /\ played' = 0
       ELSE UNCHANGED <<source, played>>
    /\ UNCHANGED <<qvars, buffer_queue, al_queue, reuse, saw, queue_panic>>

\* A plausible slip: the queue is reset, and stays "Stopping".
handle_stopping_only_resets ==
    /\ ~queue_panic /\ at = "stopping"
    /\ at' = "idle"
    /\ IF saw = "Stopping" /\ source = "STOPPED"
       THEN reset_queue
       ELSE UNCHANGED <<buffer_queue, source, al_queue, played, queue_panic>>
    /\ UNCHANGED <<qvars, reuse, saw>>

\* An asynchronous stop is complete when the source stays stopped.
handle_stopping ==
    /\ ~queue_panic /\ at = "stopping"
    /\ IF saw = "Stopping" /\ source = "STOPPED"
       THEN reset_queue /\ is_running' = "Stopped" /\ at' = "notify"
       ELSE /\ at' = "idle"
            /\ UNCHANGED <<is_running, buffer_queue, source, al_queue, played, queue_panic>>
    /\ UNCHANGED <<exists, buffers, reuse, saw>>

\* The queue is looked up once more, to clear is_running_handler.
handle_done ==
    /\ ~queue_panic /\ at = "notify"
    /\ at' = "idle"
    /\ queue_panic' = ~exists
    /\ UNCHANGED <<qvars, buffer_queue, source, al_queue, played, reuse, saw>>

---------------------------------------------------------------------------

GuestCalls ==
    \/ AudioQueueNewOutput \/ AudioQueuePrime \/ AudioQueueStart \/ AudioQueuePause
    \/ AudioQueueStop \/ AudioQueueStopAsync \/ AudioQueueReset \/ AudioQueueDispose
    \/ \E b \in Buffers : \/ AudioQueueAllocateBuffer(b)
                          \/ AudioQueueEnqueueBuffer(b)
                          \/ AudioQueueFreeBuffer(b)

Handler ==
    \/ handle_audio_queue \/ call_back \/ handle_prime \/ handle_restart
    \/ handle_stopping \/ handle_done

AudioQueueNext == GuestCalls \/ Handler \/ al_plays

AudioQueueSpec == AudioQueueInit /\ [][AudioQueueNext]_avars

\* The run loop keeps calling the handler, and the device keeps playing.  It
\* does not finish every buffer between two steps of the handler, which takes
\* far less time than a buffer, but now and then while the handler is idle.
AudioQueueIdlePlays == al_plays /\ at = "idle"

---------------------------------------------------------------------------
(* Properties *)

\* "the nth item in this queue must also be the nth item in the OpenAL queue,
\* though the OpenAL queue may be shorter" (audio_queue.rs:53-55), whatever is
\* called between two visits of the run loop, or in the callbacks of one.
QueuesInSync == IsPrefix(al_queue, buffer_queue)

\* Neither the assertion that compares the two queues nor a lookup of the queue
\* after a callback (prime_audio_queue, handle_audio_queue) fails, and the source
\* only plays for a queue that is meant to be running: is_running is tracked so
\* that "if it's running, the OpenAL source can be restarted".
AudioQueueSound ==
    /\ ~queue_panic /\ QueuesInSync
    /\ (at = "idle" /\ is_running = "Stopped" => source # "PLAYING")

\* The guest enqueues a buffer.
Enqueues == \E b \in Buffers : AudioQueueEnqueueBuffer(b)

\* An asynchronous stop is completed ("if it's stopping asynchronously, the audio
\* queue stop can be completed"), unless the guest keeps feeding the queue, and
\* every buffer of a queue that stays running is handed back in the end, unless
\* the guest keeps starting the source over.
QueueGoesOn ==
    /\ \/ []<><<Enqueues>>_avars
       \/ (is_running = "Stopping") ~> (is_running # "Stopping")
    /\ \/ []<><<AudioQueueStart>>_avars
       \/ \A b \in Buffers :
              (is_running = "Running" /\ b \in ToSet(buffer_queue))
                  ~> (b \notin ToSet(buffer_queue) \/ is_running # "Running")

=============================================================================
