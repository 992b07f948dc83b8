SPECIFICATION Spec
CONSTANTS
    Requests = {r1, r2}
    FailedTime = 2
    HoursTime = 3
    TravelTime = 4
    AnswerTime = 1
    Window = 2
    MaxAttempts = 2
    Attempts = {a1, a2, a3}
    a1 = a1
    a2 = a2
    a3 = a3
    RedisMayFail = TRUE
    NoBlock = NoBlock
    NoEntry = NoEntry
SYMMETRY MCSymmetry
INVARIANTS
    TypeOK
    FailedLoginsBlock
    LoneBlockHolds
