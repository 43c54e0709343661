SPECIFICATION CaptureSpec
CONSTANTS
    Sampling = 2
    MinDuration = 3
    MaxGap = 2
    MergeGap = 3
    BaselineMin = 2
    BaselineWindow = 3
    BaselineReset = 3
    Horizon = 10
    VisionSampling = 3
    MaxSampling = 4
    VisionMinDuration = 3
    VisionMaxGap = 4
    Cooldown = 6
    TrackerSampling = 2
    TrackerMinDuration = 3
    TrackerMaxGap = 3
    Steps = {0, 1, 2, 3}
    Latencies = {0, 4}
    StudentFrames <- BoundedFrames
    PresenterViews <- BoundedViews
    DesktopFrames <- BoundedFindings
INVARIANTS ReportsAreBacked SustainedIsReported
CHECK_DEADLOCK FALSE
