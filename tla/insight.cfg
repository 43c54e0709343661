CONSTANTS
    Students = {ann, bob}
    Professor = prof
    Requests = {r1, r2}
    MaxRequests = 3
    MinimumGroup = 2
    Settings <- MCSettings
    DeliveryIds = {1, 2}
    Batches <- MCBatches
    Contents = {"dark", "small"}
    MaximumRounds = 2
    None = none
SPECIFICATION Spec
INVARIANTS
    DenialsHold SummaryOmitsDenied DeliveryIsKept
    AskedWithConsent ReviewsBelong
PROPERTIES LockIsReleased
CHECK_DEADLOCK FALSE
