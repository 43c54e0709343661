SPECIFICATION Spec
CONSTANTS
    Actors = {ann, bob, cid}
    Folders = {f1, f2}
    Requests = {r1, r2, r3, r4}
    MaxAttempts = 2
    MaxLinks = 2
    None = None
SYMMETRY Interchangeable
INVARIANTS ConflictMeansContention
PROPERTIES LinksAreAtomic
CHECK_DEADLOCK FALSE
