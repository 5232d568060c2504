\* Three threads wait for and signal a condition variable, share a semaphore
\* and join each other.
SPECIFICATION Spec
CONSTANTS
    MaxThreads = 3
    MaxMutexes = 1
    MaxRecursion = 1
    MaxDepth = 1
    Conds = {1}
    Sems = {1}
    MaxSem = 1
    Uses = {"join"}
    Handles = {h1}
    InitTypes = {"NORMAL"}
INVARIANTS
    CondQueuesExact
    DeadlockIsReal
PROPERTIES
    WakesAreEarned
