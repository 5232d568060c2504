---- MODULE Player ----
(***************************************************************************)
(* AVAudioPlayer (avfoundation/av_audio_player.rs): a file is played       *)
(* through an audio queue with a few buffers.  Each buffer that has been   *)
(* played comes back to a helper, which fills it with the next packets of  *)
(* the file, starts over at its end as often as asked, and otherwise lets  *)
(* the queue run empty and stop.                                           *)
(*                                                                         *)
(* The audio queue is the one of AudioQueue.tla, here with its callback    *)
(* known, so that its handler is one step.  A buffer is the sequence of    *)
(* packets it holds.                                                       *)
(***************************************************************************)
EXTENDS Integers, Sequences, SequencesExt

CONSTANTS
    Packets,         \* how many packets the file has
    PacketsToRead,   \* num_packets_to_read: how many fit in a buffer
    NumberBuffers,   \* kNumberBuffers
    LoopCounts,      \* the numbers of loops the guest asks for, -1 for ever
    MaxHeard,        \* bound: how many packets are played
    PlayerCareful    \* what this guest takes care of:
                     \*   "play_once"  it does not call play while the queue runs
                     \*   "stop_first" it calls stop before it plays a sound again
                     \*   "resume_later" it lets the run loop go round between pause and play
                     \*   "seek_first" it seeks and sets loops only when stopped

ASSUME PlayerAssumption ==
    /\ Packets \in Nat \ {0} /\ PacketsToRead \in Nat \ {0}
    /\ NumberBuffers \in Nat /\ LoopCounts \subseteq Int

VARIABLES
    player,   \* AVAudioPlayerHostObject: current, seek, loops, playing, volume, file
    queue,    \* the audio queue: whether it exists, its is_running, buffer_queue and volume
    al,       \* its OpenAL source: its state, how many buffers it has, how many it has played
    heard,    \* the packets played since the queue was made
    asked,    \* what was asked for then: the first packet and the loops
    ended     \* the queue has come to its end by itself

playerVars == <<player, queue, al, heard, asked, ended>>

NoQueue == [exists |-> FALSE, running |-> "Stopped", buffers |-> <<>>, volume |-> 1]
NewSource == [state |-> "INITIAL", queued |-> 0, played |-> 0]

PlayerInit ==
    /\ player = [current |-> 0, seek |-> 0, playing |-> FALSE, volume |-> 1,
                 loops |-> 0, file |-> TRUE]
    /\ queue = NoQueue /\ al = NewSource
    /\ heard = <<>> /\ asked = [first |-> 0, loops |-> 0] /\ ended = FALSE

Open == player.file

---------------------------------------------------------------------------
(* The helper.                                                             *)

\* The packets read from packet on.
ReadPackets(from) ==
    [i \in 1..(IF from + PacketsToRead <= Packets THEN PacketsToRead ELSE Packets - from) |->
        from + i - 1]

\* The player and its queue after a buffer is filled from packet from on.
Filled(s, from) ==
    [p |-> [s.p EXCEPT !.current = from + Len(ReadPackets(from))],
     q |-> [s.q EXCEPT !.buffers = Append(@, ReadPackets(from))]]

\* A plausible slip: the count of loops is not taken down.
OutputBufferHelperForever(s) ==
    IF ~s.p.playing THEN s
    ELSE IF s.p.current < Packets THEN Filled(s, s.p.current)
    ELSE IF s.p.loops = 0
    THEN [p |-> [s.p EXCEPT !.playing = FALSE],
          q |-> [s.q EXCEPT !.running = IF @ = "Stopped" THEN @ ELSE "Stopping"]]
    ELSE Filled(s, 0)

\* _touchHLE_AVAudioPlayerOutputBufferHelper: a buffer is filled and queued;
\* at the end of the file it starts over or lets the queue stop when it has
\* run empty.  A buffer that comes back while the player is not playing is
\* not used again.
OutputBufferHelper(s) ==
    IF ~s.p.playing THEN s
    ELSE IF s.p.current < Packets THEN Filled(s, s.p.current)
    ELSE IF s.p.loops = 0
    THEN [p |-> [s.p EXCEPT !.playing = FALSE],
          q |-> [s.q EXCEPT !.running = IF @ = "Stopped" THEN @ ELSE "Stopping"]]
    ELSE Filled([s EXCEPT !.p.loops = IF @ > 0 THEN @ - 1 ELSE @], 0)

\* The helper is called for n buffers.
Refilled(s, n) ==
    LET after[i \in 0..n] == IF i = 0 THEN s ELSE OutputBufferHelper(after[i - 1])
    IN after[n]

---------------------------------------------------------------------------
(* The guest's calls.                                                      *)

SetNumberOfLoops ==
    /\ Open /\ ("seek_first" \in PlayerCareful => ~queue.exists)
    /\ \E n \in LoopCounts : player' = [player EXCEPT !.loops = n]
    /\ UNCHANGED <<queue, al, heard, asked, ended>>

\* setVolume: kept, and passed on to the queue there is.
SetVolume ==
    /\ Open
    /\ \E v \in 0..1 :
          /\ player' = [player EXCEPT !.volume = v]
          /\ queue' = IF queue.exists THEN [queue EXCEPT !.volume = v] ELSE queue
    /\ UNCHANGED <<al, heard, asked, ended>>

\* Where a seek to packet t leads: past the end it is the start of the file.
SeekTo(t) == IF t > Packets THEN 0 ELSE t

\* setCurrentTime: kept for prepareToPlay, and at once when the file's format
\* is known.
SetCurrentTime ==
    /\ Open /\ ("seek_first" \in PlayerCareful => ~queue.exists)
    /\ \E t \in 0..(Packets + 1) :
          player' = [player EXCEPT !.seek = t,
                                   !.current = IF queue.exists THEN SeekTo(t) ELSE @]
    /\ UNCHANGED <<queue, al, heard, asked, ended>>

\* prepareToPlay: makes a queue, brings it to the volume and the time set
\* before, and fills its buffers.
Prepared ==
    LET start == [player EXCEPT !.playing = TRUE, !.current = SeekTo(player.seek)]
        full == Refilled([p |-> start, q |-> [exists |-> TRUE, running |-> "Stopped",
                                              buffers |-> <<>>, volume |-> player.volume]],
                         NumberBuffers)
    IN [full EXCEPT !.p.playing = FALSE]

MakeQueue ==
    /\ al' = NewSource /\ heard' = <<>> /\ ended' = FALSE
    /\ asked' = [first |-> SeekTo(player.seek), loops |-> player.loops]

PrepareToPlay ==
    /\ Open /\ ~queue.exists
    /\ player' = Prepared.p /\ queue' = Prepared.q
    /\ MakeQueue

\* prime_audio_queue: the source gets buffers until there are two that it has
\* not played, or all there are when it has stopped.
Primed(s, buffers) ==
    LET want == IF s.state = "STOPPED" THEN Len(buffers) ELSE s.played + 2
        most == IF want < s.queued THEN s.queued ELSE want
    IN [s EXCEPT !.queued = IF most > Len(buffers) THEN Len(buffers) ELSE most]

\* alSourcePlay: a source goes on where it was paused, and otherwise starts
\* with the first buffer queued on it; one with no buffer stops.
SourcePlays(s) ==
    IF s.queued = 0 THEN [s EXCEPT !.state = "STOPPED"]
    ELSE [s EXCEPT !.state = "PLAYING", !.played = IF s.state = "PAUSED" THEN @ ELSE 0]

\* play: prepares the player unless it is, and starts the queue.
Play ==
    /\ Open
    /\ ("play_once" \in PlayerCareful => queue.running = "Stopped")
    /\ ("stop_first" \in PlayerCareful => ~ended)
    /\ ("resume_later" \in PlayerCareful => (al.state = "STOPPED" => al.queued = 0))
    /\ LET s == IF queue.exists THEN [p |-> player, q |-> queue] ELSE Prepared
       IN /\ player' = [s.p EXCEPT !.playing = TRUE]
          /\ queue' = [s.q EXCEPT !.running = "Running"]
          /\ IF queue.exists
             THEN al' = SourcePlays(Primed(al, queue.buffers)) /\ UNCHANGED <<heard, asked, ended>>
             ELSE /\ al' = SourcePlays(Primed(NewSource, s.q.buffers)) /\ heard' = <<>> /\ ended' = FALSE
                  /\ asked' = [first |-> SeekTo(player.seek), loops |-> player.loops]

Pause ==
    /\ Open
    /\ player' = [player EXCEPT !.playing = FALSE]
    /\ queue' = [queue EXCEPT !.running = "Stopped"]
    /\ al' = IF al.state = "PLAYING" THEN [al EXCEPT !.state = "PAUSED"] ELSE al
    /\ UNCHANGED <<heard, asked, ended>>

\* stop: the queue and its buffers are disposed of; the player is as new but
\* for its file and its loops.
Stop ==
    /\ Open /\ queue.exists
    /\ player' = [current |-> 0, seek |-> 0, playing |-> FALSE, volume |-> 1,
                  loops |-> player.loops, file |-> player.file]
    /\ queue' = NoQueue /\ al' = NewSource
    /\ UNCHANGED <<heard, asked>> /\ ended' = FALSE

\* dealloc: stops, and closes the file.
Dealloc ==
    /\ Open
    /\ player' = [player EXCEPT !.file = FALSE, !.playing = FALSE]
    /\ queue' = NoQueue /\ al' = NewSource
    /\ UNCHANGED <<heard, asked>> /\ ended' = FALSE

---------------------------------------------------------------------------
(* The device and the run loop.                                            *)

\* The device plays a buffer to its end.
DevicePlays ==
    /\ al.state = "PLAYING" /\ al.played < al.queued
    /\ Len(heard) < MaxHeard
    /\ heard' = heard \o queue.buffers[al.played + 1]
    /\ al' = [al EXCEPT !.played = @ + 1,
                        !.state = IF al.played + 1 = al.queued THEN "STOPPED" ELSE "PLAYING"]
    /\ UNCHANGED <<player, queue, asked, ended>>

\* handle_audio_queue: the buffers played are taken back and refilled; a
\* source that ran out of them is started again, and a queue that is to stop
\* and has run empty does.
Handle ==
    LET used == IF al.state = "STOPPED" THEN al.queued ELSE al.played
        left == [queue EXCEPT !.buffers = SubSeq(@, used + 1, Len(@))]
        s == Refilled([p |-> player, q |-> left], used)
        source == Primed([al EXCEPT !.played = 0, !.queued = @ - used], s.q.buffers)
        again == IF queue.running # "Stopped" /\ al.state = "STOPPED"
                 THEN SourcePlays(source) ELSE source
        finish == queue.running = "Stopping" /\ again.state = "STOPPED"
    IN /\ queue.exists /\ al.queued > 0
       /\ player' = s.p
       /\ queue' = IF finish THEN [s.q EXCEPT !.running = "Stopped", !.buffers = <<>>] ELSE s.q
       /\ al' = again
       /\ ended' = (ended \/ finish)
       /\ UNCHANGED <<heard, asked>>

PlayerNext ==
    \/ SetNumberOfLoops \/ SetVolume \/ SetCurrentTime
    \/ PrepareToPlay \/ Play \/ Pause \/ Stop \/ Dealloc
    \/ DevicePlays \/ Handle

\* A player by itself.
PlayerSpec == PlayerInit /\ [][PlayerNext]_playerVars

---------------------------------------------------------------------------

\* The packet that should be the n-th to be heard.
Expected(n) ==
    LET rest == Packets - asked.first
    IN IF n <= rest THEN asked.first + n - 1 ELSE (n - rest - 1) % Packets

\* However the player's buffers come back, and whenever the guest pauses and
\* goes on, the packets of the file are heard in their order, each once in a
\* loop, from the place the guest set; and the sound is heard no more often than
\* the guest asked, and as often when it has come to its end by itself
\* (numberOfLoops of av_audio_player.rs).
HeardAsLooped ==
    LET all == Packets - asked.first + asked.loops * Packets
    IN  /\ \A n \in DOMAIN heard : heard[n] = Expected(n)
        /\ asked.loops >= 0 => Len(heard) <= all
        /\ ended => asked.loops >= 0 /\ Len(heard) = all
====
