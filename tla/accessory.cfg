SPECIFICATION MCSpec
CONSTANTS
    None = None
    r1 = r1
    r2 = r2
    c1 = c1
    c2 = c2
    a1 = a1
    a2 = a2
    Requests = {r1, r2}
    Calls = {c1, c2}
    Models = {}
    Assets = {}
    Accessories = {a1, a2}
    Kinds = {"ACCESSORY"}
    Stocked = {a1}
    MaxQty = 2
    Overlap = FALSE
    Watched = {}
    FailAt <- NotAfterCheckout
SYMMETRY Symmetry
INVARIANTS
    NoOrderBeforeQuote
    CompletedHasItem
    AtMostOneUnit
    RejectedKeepsNothing
    ReviewCompletesRequest
    NoOrphanAccessories
    StockIsWhatArrived
    ClientAgrees
PROPERTIES
    OnlyReviewReopens
CHECK_DEADLOCK FALSE
