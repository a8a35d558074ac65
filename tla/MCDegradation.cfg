SPECIFICATION FairSpec
CONSTANTS
    p1 = p1
    t1 = t1
    t2 = t2
    Programs = {p1}
    Thumbs = {t1, t2}
    Priority <- GuestAndCohost
    Height = 1080
    Ceilings <- LowCeiling
    Narrow = {p1}
    Overrides = {0}
    BandwidthSteps <- OneStep
    RecoverStreak = 1
    Renegotiating = {p1, t2}
    MaxCalls <- TwoForPrograms
INVARIANTS CalmAfterRecover ShedIsTracked
PROPERTY RecoveryEnds
