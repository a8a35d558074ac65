SPECIFICATION ReapSpec
CONSTANTS
    g1 = g1
    g2 = g2
    g3 = g3
    A = A
    B = B
    Host = host
    Guests = {g1, g3}
    Streams = {A, B}
    StreamOf <- MCStreamOf
    CamSlots = {c1}
    None = None
    Fails = {"list", "replay", "revoke", "reap"}
INVARIANTS OnlyLiveStream
PROPERTIES DrainEnds AbandonedEnds
