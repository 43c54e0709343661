SPECIFICATION Spec
CONSTANTS
    Students = {ann, bob}
    Asked <- MCAsked
    Timelines <- MCTimelines
    Drafts <- MCDrafts
    Deployments <- MCDeployments
    ChunkIds = {"c", "d"}
    Padding = 1
    LectureEnd = 6
    MaxChunks = 1
    MaxCharacters = 2
    MaxEvents = 2
    Keys = {k1}
    Requests = {r1, r2, r3}
    MaxConsents = 2
    None = None
SYMMETRY Interchangeable
INVARIANTS CardsAnswerTheirJob GeneratesWithConsent OneAnswerPerKey ContextsAreWhole
PROPERTIES RevokedNotReused
CHECK_DEADLOCK FALSE
