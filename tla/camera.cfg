SPECIFICATION CameraSpec
CONSTANTS
    Joinable = {s1, s2}
    Monitors = {m1, m2}
    NoId = NoId
SYMMETRY Interchangeable
INVARIANTS NoStrayStream WatchingIsShown
CHECK_DEADLOCK FALSE
