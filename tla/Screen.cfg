\* Seven parts of the screen; and three blocks, below and above a page, that the
\* guest fills in three pages of four bytes, before and after the memory is refurbished.
SPECIFICATION Spec
CONSTANTS
    Arrays = {"tex", "vertex"}
    Units = {0, 1}
    Buffers = {"b1"}
    Capabilities = {"FOG", "TEXTURE_2D"}
    Settings = {"raster", "point", "fog", "light", "material", "color", "clear", "texEnv", "texParam", "texImage"}
    MaxChanged = 3
    MaxDepth = 2
    GlThreads = {t1, t2}
    Contexts = {c1, c2}
    Drawables = {d1, d2}
    Renderbuffers = {r1}
    Interval = 3
    MaxTime = 18
    Careful = {"one_thread", "nil_current", "one_mapping", "arrays"}
    TouchFingers = {f1, f2}
    Pads = {"left", "up"}
    Keys = {"A"}
    TouchViews = {v1, v2}
    MultiTouch = {v2}
    nowhere = nowhere
    MaxPump = 2
    MaxQueue = 0
    Desks = {{f1, f2}, {"mouse", "shift", "stick"}, {"left", "up", "A", "cursor"}}
    Views = {w, a, b}
    Windows = {w}
    Controllers = {c}
    EaglViews = {b}
    nil = nil
    MaxFlags = 2
    UiCareful = {"controller_last"}
    Layers = {l1}
    Animations = {a1, a2}
    AnimKeys = {"k"}
    AnimKinds <- SomeKinds
    absent = absent
    MaxCaTime = 3
    FrameInterval = 1
    MaxAnimRefs = 3
    CaCareful = {"zero_duration", "listed"}
    MIN_CHUNK_SIZE = 2
    PAGE_SIZE = 4
    MAIN_THREAD_STACK_LOW_END = 12
    MAIN_THREAD_STACK_SIZE = 4
    Sizes = {1, 3, 5}
    NullSegments = {4}
    MaxBlocks = 3
    Writers = {"picker", "run"}
    Segments <- SomeSegments
    Parts = {"contexts", "drawing", "frames", "touches", "views", "animations", "pictures", "memory"}
CHECK_DEADLOCK FALSE
INVARIANTS
    CallsReachOwnContext
    DrawnRight
    PresentedRight
    TouchesRight
    ViewsAgree
    AnimationsRunOnce
    ChangesReachScreen
    AllocatorSound
PROPERTIES
    OutOfMemoryIsReal
    ImplementsHeap
