SPECIFICATION BindingsSpec
CONSTANTS
    c1 = c1
    Host = host
    Guests = {g1, g2}
    CredentialRole <- AllGuests
    CamSlots = {c1, c2}
    HostSlot = hostSlot
    ScreenSlot = screenSlot
    SourceOf <- MCSourceOf
    Modalities = {"share"}
    None = None
    StoreFails = FALSE
    MaxEpoch = 2
    MaxGrace = 2
    MaxReports = 1
INVARIANTS BoundToPresentOrHeld OnAirHasOccupant CurrentEpochNamesOccupant
PROPERTIES KeepsSeats EpochsAdvance HoldEnds
