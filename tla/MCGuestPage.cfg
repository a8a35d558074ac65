SPECIFICATION FairSpec
CONSTANTS
    host = host
    g1 = g1
    Host = host
    Others = {g1}
    MaxFailedOpens = 2
    MaxPeers = 2
    MaxDrops = 1
    MaxQueue = 2
INVARIANTS DevicesReleased BackstageForHostOnly
PROPERTIES StrandedShareEnds ReconnectEnds DeadNetworkIsTold
