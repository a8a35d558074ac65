SPECIFICATION Spec
CONSTANTS
    Tabs = {t1, t2}
    Nobody = Nobody
    MaxAsks = 3
    MaxFaults = 2
    Sources = {p1, p2}
    Slots = {s1, s2}
    Gone = Gone
    MaxTokens = 2
    MaxLoads = 3
    MaxLosses = 1
INVARIANTS CaptureReleased HostSlotFollows OldTokenIsOut
PROPERTIES HostComesOn SourceComesBack
CHECK_DEADLOCK FALSE
