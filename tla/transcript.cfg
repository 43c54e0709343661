SPECIFICATION ZoomSpec
CONSTANTS
    Ids <- MCIds
    MaxRevision = 2
    Batches <- MCBatches
    Requests = {pump, r1, r2}
    Pump = pump
    OwnerInputs <- MCInputs
    Offers <- MCOffers
    Messages <- MCMessages
    ClockOrigin = 10
    Tolerance = 300
    None = None
INVARIANTS UtterancesStoredOnce
PROPERTIES BatchesAreAtomic LossEndsStream
CHECK_DEADLOCK FALSE
