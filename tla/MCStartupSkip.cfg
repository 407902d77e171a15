SPECIFICATION Spec
CONSTANTS
    LONG_MIN <- Lowest
    LONG_MAX = 1000000
    AsLong <- Texts
    BoolTexts <- Truths
    NOT_LONG = NOT_LONG
    NULL = NULL
    CommandLines <- OneFile
    Environments <- Nothing
    Plugins <- JustHello
    Directories = {}
    Files <- Unknown
    Writable = {}
    Levels <- LevelNames
    Faulty = FALSE
INVARIANTS
    UnknownSectionsSkipped
