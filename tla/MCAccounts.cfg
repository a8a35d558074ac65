SPECIFICATION Spec
CONSTANTS
    owner = owner
    tenant = tenant
    r1 = r1
    r2 = r2
    Hosts = {owner, tenant}
    Owner = owner
    Streamer = tenant
    Signup = "approval"
    Allowed = {}
    Passes = {p1}
    HostPeer = host
    Requests = {r1, r2}
    Nobody = nobody
SYMMETRY RequestSymmetry
INVARIANT GoneStreamHasNoGuests
PROPERTIES AdminRemains NeverErasedLive RevokedStays
CHECK_DEADLOCK FALSE
