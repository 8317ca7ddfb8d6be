\* Four requests of two users for two seats, with two failures anywhere.
SPECIFICATION Spec
CONSTANTS
    r1 = r1
    r2 = r2
    Requests = {q1, q2, q3, q4}
    Users = {u1, u2}
    Seats = {s1, s2}
    RouteIds <- MCRouteIds
    ActiveRoutes <- MCActiveRoutes
    SeatRoute <- MCSeatRoute
    MaxFaults = 2
    None = None
SYMMETRY MCSymmetry
INVARIANTS
    TypeOK
    OneRowPerSeat
    SeatFlagAgrees
    AnnouncedBeforeVisible
    AnswersAreDurable
    NobodyWaitsForAWaiter
    OnlyLocksHoldUp
    IInv
PROPERTY
    ImplementsLedger
