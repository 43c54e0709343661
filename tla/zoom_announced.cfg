SPECIFICATION Spec
CONSTANTS
    NSessions = 2
    Meetings = {m1}
    StreamIds = {i1}
    Requests = {1, 2, 3}
    Reapers = {r1}
    Lifespan = lifespan
    None = None
INVARIANTS EndPublishedOnce
CHECK_DEADLOCK FALSE
