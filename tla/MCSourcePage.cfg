SPECIFICATION OnePageSpec
CONSTANTS
    c1 = c1
    Host = host
    Guests = {g1, g2}
    CredentialRole <- AllGuests
    CamSlots = {c1, c2}
    HostSlot = hostSlot
    ScreenSlot = screenSlot
    SourceOf <- MCSourceOf
    Modalities = {"share"}
    None = None
    StoreFails = FALSE
    Overflow = TRUE
    MaxEpoch = 2
    MaxGrace = 1
    MaxReports = 0
    MaxWire = 2
SYMMETRY GuestSymmetry
INVARIANTS PageFollowsSlot PageReportsOccupant LinkedToLatest
