SPECIFICATION Spec
CONSTANTS
    Requests = {r1, r2}
    Devices = {d1}
    Links = {v1}
    Tokens = {t1}
    MaxTime = 1
    MaxPassword = 2
    NoDevice = NoDevice
    NoLink = NoLink
    NoToken = NoToken
    r1 = r1
    r2 = r2
    d1 = d1
    v1 = v1
    t1 = t1
SYMMETRY MCSymmetry
INVARIANT OnlyOlderRefused
