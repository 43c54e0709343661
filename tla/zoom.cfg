SPECIFICATION FairSpec
CONSTANTS
    NSessions = 1
    Meetings = {m1}
    StreamIds = {i1, i2}
    Requests = {1, 2, 3, 4}
    Reapers = {r1}
    Lifespan = lifespan
    None = None
INVARIANTS SlotIsLive NoOrphan ShutdownStopsAll AnnouncedOnce
PROPERTIES HandlersFinish EndedSessionDrains
CHECK_DEADLOCK FALSE
