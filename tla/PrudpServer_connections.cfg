SPECIFICATION FairSpec
CONSTANTS
    p1 = p1
    p2 = p2
    Players <- TwoPlayers
    Nobody = Nobody
    MaxSyns = 2
    MaxNet = 2
INVARIANTS IdsNameTheirConnection ProbesReachTheRegistrant
PROPERTIES IdleClientsExpire ConnectionsSpec
CHECK_DEADLOCK FALSE
