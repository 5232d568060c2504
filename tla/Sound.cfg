\* A queue of three buffers, with nothing stopped at once from inside a callback;
\* a file of three packets, read two at a time; a timer that repeats and one
\* that fires once, with calls two deep.
SPECIFICATION Spec
CONSTANTS
    Buffers = {b1, b2, b3}
    Calls = {"Prime", "Pause", "Stop", "StopAsync", "Reset", "FreeBuffer", "Dispose"}
    Inside = {"Prime", "StopAsync"}
    Supported = TRUE
    QueueCareful = TRUE
    Packets = 3
    PacketsToRead = 2
    NumberBuffers = 3
    LoopCounts <- SomeLoops
    MaxHeard = 8
    PlayerCareful = {"play_once", "stop_first", "resume_later", "seek_first"}
    Timers = {t1, t2}
    Interval <- SomeInterval
    Repeats = {t1}
    MaxDepth = 2
    MaxTime = 4
    Careful = TRUE
    None = None
CHECK_DEADLOCK FALSE
INVARIANTS
    AudioQueueSound
    HeardAsLooped
    TimersSound
PROPERTIES
    QueueGoesOn
    DueFires
