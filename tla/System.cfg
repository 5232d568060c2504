SPECIFICATION Spec
CONSTANTS
    Parts = {"linker", "classes", "sockets", "loader", "calls", "options", "order", "picker", "pages", "controls", "text", "nib"}
    Symbols = {"a", "b", "c"}
    StubSymbol <- SomeStubs
    Pointed = {"a", "c"}
    EntrySizes = {4, 12, 16}
    DyldCareful = {"clash"}
    HostSuper <- SomeHostClasses
    HostMethods <- SomeHostMethods
    AppClasses <- SomeAppClasses
    Missing = "Missing"
    FakeNames = {"Ad"}
    SelNames = {"m"}
    noName = "-"
    MaxFds = 2
    MaxConns = 2
    MaxUnread = 1
    SockCareful = {"asks", "accepts", "polls", "broadcast"}
    Archs = {"armv6", "armv7", "armv7s", "x86"}
    MaxSlices = 3
    LibBases = {2, 4}
    Pages = {0, 1, 2, 3, 4, 5}
    MachCareful = {"order", "overlap", "two_entries"}
    ArgWords = {0, 2, 3, 6}
    MaxDepth = 4
    MaxCalls = 4
    Top = 16
    AbiCareful = {"va_regs", "stret_args"}
    CommandLines <- SomeCommandLines
    PickerArgs <- SomePickerArgs
    OptionFiles <- SomeFiles
    Graphs <- SomeGraphs
    AppId = "app"
    Fingers = {f1, f2}
    Slots = 3
    AppCounts = {0, 1, 4, 5}
    Rows <- SomeRows
    Switches <- SomeSwitches
    OnAtFirst = {}
    Texts <- SomeTexts
    PageHeight = 3
    PickerCareful = {"taps"}
    Contents = {"title", "image"}
    Looks = {"x"}
    MaxTargets = 2
    MaxTouchesOn = 2
    Fields = {e1, e2}
    noField = noField
    MaxCallDepth = 3
    MaxLength = 2
    TextCareful = {"ends_once", "holds"}
    NibFiles <- SomeNibs
    MaxItems = 9
    Owners = {"application", "controller"}
    nilObject = nilObject
    noKey = noKey
    NibCareful = {"short_arrays", "nil_outlets"}
CHECK_DEADLOCK FALSE
INVARIANTS
    SameFunction
    ClassesRealized
    ReadinessHolds
    LoadedAsFiled
    ArgumentsArrive
    StartsAsChosen
    NibLoaded
    ControlsFollowTouches
    KeysReachEditor
