SPECIFICATION ModerationSpec
CONSTANTS
    c1 = c1
    Host = host
    Guests = {g1, g2}
    CredentialRole <- AllCohosts
    CamSlots = {}
    HostSlot = hostSlot
    ScreenSlot = screenSlot
    SourceOf <- MCSourceOf
    Modalities = {"mic", "share"}
    None = None
    StoreFails = FALSE
    MaxEpoch = 2
    MaxGrace = 1
    MaxReports = 1
INVARIANTS ShareFromPool LockedIsOff DurableIsCurrent
PROPERTY FloorsOnlyRise
