SPECIFICATION HandlersSpec
CONSTANTS
    g1 = g1
    g2 = g2
    g3 = g3
    A = A
    B = B
    Host = host
    Guests = {g1, g2}
    Streams = {A, B}
    StreamOf <- MCStreamOf
    CamSlots = {c1, c2}
    None = None
    Fails = {"list", "revoke"}
SYMMETRY BindingSymmetry
INVARIANT LiveMatchesBindings
