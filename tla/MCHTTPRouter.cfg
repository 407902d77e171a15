SPECIFICATION Spec
CONSTANTS
    ROUTE_BASE_LEN = 2
    ROUTE_GROUP_LEN = 2
    ROUTE_MAX_LEN = 3
    Routes <- SomeRoutes
    Urls <- SomeUrls
    Containers = {c1, c2}
    NULL = NULL
    match_mode = "ROUTE_MATCH_FIRST"
    MaxBindings = 3
    Faulty = TRUE
INVARIANTS
    TypeOK
    PacksFilled
PROPERTIES
    KeepsTable
