SPECIFICATION FairSpec
CONSTANTS
    BUFSIZE = 7
    MAX_REQUESTS = 2
    MaxMessages = 2
    Faulty = TRUE
    JUNK = JUNK
PROPERTIES
    LastIsClosed
    LeftIsFreed
