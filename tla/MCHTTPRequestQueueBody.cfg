SPECIFICATION Spec
CONSTANTS
    HTTP_REQUEST_MAX_HEADERS = 2
    MAX_REQUESTS = 3
    Clients <- LongBody
    SpanLen = 2
    Faulty = FALSE
    JUNK = JUNK
    NULL = NULL
    FREED = FREED
INVARIANTS
    BodyAsSent
