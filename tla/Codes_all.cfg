SPECIFICATION Spec
CONSTANTS
    r1 = r1
    r2 = r2
    f1 = f1
    f2 = f2
    c1 = c1
    c2 = c2
    c3 = c3
    NoForm = NoForm
    NoCode = NoCode
    NoTime = NoTime
    NoEntry = NoEntry
    Requests = {r1, r2}
    Forms = {f1, f2}
    Codes = {c1, c2, c3}
    CodeTime = 2
    Cooldown = 3
    QueueMayFail = TRUE
SYMMETRY MCSymmetry
INVARIANTS
    TypeOK
    AccountIsMailed
    PictureKept
    LoneCodeDies
    LateOnlyIfRenewed
