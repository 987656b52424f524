SPECIFICATION FairSpec
CONSTANTS
    None = None
    r1 = r1
    p1 = p1
    p2 = p2
    Requests = {r1}
    Presses = {p1, p2}
    D1 = 1
    D2 = 2
    D3 = 3
    Ahead = 1
    MaxMoves = 1
    MaxFails = 1
INVARIANTS
    LadderRecordsReminders
    ClientAgrees
PROPERTIES
    NotChasedEarly
    EventuallyEscalated
