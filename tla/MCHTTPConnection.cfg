SPECIFICATION Spec
CONSTANTS
    BUFSIZE = 5
    MAX_REQUESTS = 2
    MaxMessages = 2
    Faulty = FALSE
    JUNK = JUNK
INVARIANTS
    TypeOK
    AnnouncesClose
    ResponseIsRest
    
PROPERTIES
    KeepsPromise
