SPECIFICATION FairSpec
CONSTANTS
    c1 = c1
    c2 = c2
    p1 = p1
    p2 = p2
    NoPeer = NoPeer
    Conns = {c1, c2}
    Peers = {p1, p2}
    MayUse <- MCOwnPeer
    MaxPeers = 0
    Capacity = 1
    Faults = {"crash", "expiry"}
INVARIANTS
    TypeOK
    PresenceInv
PROPERTIES
    EventuallySeen
    EventuallyGone
    RoomSpec
