SPECIFICATION Spec
CONSTANTS
    None = None
    r1 = r1
    r2 = r2
    c1 = c1
    c2 = c2
    m1 = m1
    m2 = m2
    a1 = a1
    a2 = a2
    Requests = {r1}
    Calls = {c1}
    Models = {m1, m2}
    Assets = {a1, a2}
    Accessories = {}
    Kinds = {"ASSET"}
    Catalogue = {m1}
    Stock = {a1}
    Overlap = FALSE
    BodyErrors = TRUE
    Watched = {}
    FailAt = {}
INVARIANT
    CompletedHoldsDevice
CHECK_DEADLOCK FALSE
