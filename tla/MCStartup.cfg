SPECIFICATION FairSpec
CONSTANTS
    LONG_MIN <- Lowest
    LONG_MAX = 1000000
    AsLong <- Texts
    BoolTexts <- Truths
    NOT_LONG = NOT_LONG
    NULL = NULL
    CommandLines <- Lines
    Environments <- Environs
    Plugins <- SomePlugins
    Directories <- SomeDirectories
    Files <- SomeFiles
    Writable = {"log"}
    Levels <- LevelNames
    Faulty = TRUE
INVARIANTS
    TypeOK
    ValuesValid
    AsGiven
    FileVerdict
    PathsOpened
    Listens
    LoadSeen
    RefusalIsTold
    Lifetimes
PROPERTIES
    KeepsPrecedence
    StartEnds
