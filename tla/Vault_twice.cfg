SPECIFICATION Spec
CONSTANTS
    Files = {f1}
    Images = {i1}
    Links = {l1}
    Requests = {r1, r2}
    MostEntries = 2
    Alterable <- MCAlterable
    NoThing = NoThing
    NoLink = NoLink
    NoRequest = NoRequest
    f1 = f1
    i1 = i1
    l1 = l1
    r1 = r1
    r2 = r2
SYMMETRY MCSymmetry
INVARIANT OneTimeLink
CHECK_DEADLOCK FALSE
