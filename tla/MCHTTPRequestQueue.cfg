SPECIFICATION Spec
CONSTANTS
    HTTP_REQUEST_MAX_HEADERS = 1
    MAX_REQUESTS = 2
    Clients <- AllClients
    SpanLen = 2
    Faulty = TRUE
    JUNK = JUNK
    NULL = NULL
    FREED = FREED
INVARIANTS
    TypeOK
    ServedAsSent
    BytesKept
    NothingHeldBack
    LimitIsOnFields
    BufferAccounts
    RequestSlots
    LastIsFinal
