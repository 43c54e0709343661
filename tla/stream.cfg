SPECIFICATION FairSpec
CONSTANTS
    Threads = {t1, t2}
    Conns = {c1}
    Users = {ann, bob}
    Depth = 1
    MaxNumber = 4
    Nobody = Nobody
INVARIANTS OvershootBounded
PROPERTIES ExpiredLeaves QueuedIsDrained
CHECK_DEADLOCK FALSE
