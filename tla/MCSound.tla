---- MODULE MCSound ----
(***************************************************************************)
(* What the run loop drives, for TLC: its timers, an audio queue, and the  *)
(* queue as AVAudioPlayer uses it.  A behaviour is about one.              *)
(***************************************************************************)
EXTENDS AudioQueue, Player, RunLoop

VARIABLE part

soundVars == <<avars, playerVars, rlvars, part>>

\* Played once, twice, and for ever.
SomeLoops == {0, 1, -1}

\* The timers that repeat fire every other tick, the others after one.
SomeInterval == [t \in Timers |-> IF t \in Repeats THEN 2 ELSE 1]

Init ==
    /\ part \in {"queue", "player", "timers"}
    /\ AudioQueueInit /\ PlayerInit /\ RunLoopInit

Next ==
    /\ UNCHANGED part
    /\ \/ part = "queue" /\ AudioQueueNext /\ UNCHANGED <<playerVars, rlvars>>
       \/ part = "player" /\ PlayerNext /\ UNCHANGED <<avars, rlvars>>
       \/ part = "timers" /\ RunLoopNext /\ UNCHANGED <<avars, playerVars>>

\* The run loop keeps calling the queue's handler, and the device keeps
\* playing; the loop goes on with its timers, and callbacks return.
Fairness ==
    /\ WF_avars(part = "queue" /\ Handler)
    /\ WF_avars(part = "queue" /\ al_plays)
    /\ SF_avars(part = "queue" /\ AudioQueueIdlePlays)
    /\ \A d \in 1 .. MaxDepth : SF_rlvars(part = "timers" /\ LoopStepsAt(d))

Spec == Init /\ [][Next]_soundVars /\ Fairness
====
