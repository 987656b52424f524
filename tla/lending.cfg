SPECIFICATION MCSpec
CONSTANTS
    None = None
    r1 = r1
    r2 = r2
    u1 = u1
    u2 = u2
    c1 = c1
    c2 = c2
    a1 = a1
    x1 = x1
    x2 = x2
    s1 = s1
    Requests = {r1, r2}
    Users = {u1, u2}
    Calls = {c1, c2}
    Accessories = {a1}
    Assets = {x1, x2}
    Serials = {s1}
    AtDesk = {a1, x1}
    Slots = {1, 2}
    Qty <- MCQty
    Overlap = FALSE
    FailAt <- NotAfterCheckout
SYMMETRY Symmetry
INVARIANTS
    SnipeAgreesWithLoans
    CompletedCorrectionIsApplied
    SerialsStayUnique
CHECK_DEADLOCK FALSE
