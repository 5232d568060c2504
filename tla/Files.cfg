SPECIFICATION Spec
CONSTANTS
    Documents <- MCDocuments
    IpaBytes <- MCIpaBytes
    Modes <- MCModes
    Inodes = {1, 2}
    SelfRename = FALSE
    MaxFiles = 2
    MaxLen = 2
    Pointers = {1, 2}
    MaxHanded = 2
    FreadAfterUngetc = FALSE
    Keys = {"k"}
    Values = {"v", "w"}
    Parts = {"tree", "descriptors", "streams", "directories", "defaults"}
INVARIANTS
    TreeIsHost
    StreamsSound
PROPERTIES
    RestartKeepsData
CHECK_DEADLOCK FALSE
