SPECIFICATION DesktopSpec
CONSTANTS
    Sessions = {s1, s2}
    MaxRevision = 1
    MaxFaults = 1
    MaxVisits = 3
    None = None
    Moments = {m1, m2}
    MaxClosing = 1
    Nothing = Nothing
INVARIANTS FollowsOneSession OverlayStandsReady
PROPERTIES FollowsActive AskedIsAnswered ZoomIsNoticed
CHECK_DEADLOCK FALSE
