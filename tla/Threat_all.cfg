SPECIFICATION Spec
CONSTANTS
    r1 = r1
    r2 = r2
    p1 = p1
    p2 = p2
    p3 = p3
    NoPlace = NoPlace
    Requests = {r1, r2}
    Places = {p1, p2, p3}
    Located = {p1, p2, p3}
    Reliable = {p2, p3}
    Far <- MCFar
    Middle <- MCMiddle
    Window = 1
    MostOthers = 2
    Weight <- MCWeight
    MostTasks = 1
    MaxRisk = 1
    Notified <- MCNotified
    QueueMayFail = TRUE
SYMMETRY MCSymmetry
INVARIANTS
    TypeOK
    FarPairNoticed
    SilenceIsEarned
    RiskCounts
