SPECIFICATION Spec
CONSTANTS
    Students = {ann, bob, cid}
    CoverageIds = {i1}
    Evidence <- MCEvidence
    Requests = {r1, r2}
    MaxRecords = 2
    LectureMs = 6
    BucketMs = 4
    MinGroup = 2
    MinCoverage = 60
    HotspotRatio = 40
    MinSignal = 2
    Histories <- MCHistories
    Sent <- MCSent
    Deliveries <- MCDeliveries
    None = None
SYMMETRY Interchangeable
INVARIANTS ConsentIsHonoured ReportsOmitWithdrawn ReportsAreSafe
CHECK_DEADLOCK FALSE
