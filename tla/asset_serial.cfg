SPECIFICATION Spec
CONSTANTS
    None = None
    r1 = r1
    r2 = r2
    c1 = c1
    c2 = c2
    m1 = m1
    m2 = m2
    a1 = a1
    a2 = a2
    Requests = {r1, r2}
    Calls = {c1, c2}
    Models = {m1, m2}
    Assets = {a1, a2}
    Accessories = {}
    Kinds = {"ASSET"}
    Catalogue = {m1}
    Stock = {a1}
    Overlap = FALSE
    BodyErrors = FALSE
    Watched = {"DEVICE_ASSIGNED", "REQUEST_REJECTED"}
    FailAt <- NotAfterCheckout
SYMMETRY Symmetry
INVARIANTS
    NoDeviceBeforeApproval
    CompletedHoldsDevice
    WorkflowHoldsOnlyItsLink
    AtMostOneDevice
    RejectedHoldsNothing
    MailTellsOutcome
    NoOrphanModels
PROPERTIES
    FollowsRequestStatus
CHECK_DEADLOCK FALSE
