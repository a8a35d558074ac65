SPECIFICATION Spec
CONSTANTS
    PurgeRetention = 5
    PurgeInterval = 2
    ReportRetention = 3
    Grace = 1
    IdleAfter = 3
    ReapInterval = 2
    Ahead = 1
    None = None
INVARIANTS PurgedInTime AbandonedIsPurged
PROPERTY SeenIsSpared
