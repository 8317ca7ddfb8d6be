\* One creation and two cancellations, nothing fails.
SPECIFICATION Spec
CONSTANTS
    r1 = r1
    r2 = r2
    Requests = {q1, q2, q3}
    Users = {u1, u2}
    Seats = {s1}
    RouteIds <- MCRouteIds
    ActiveRoutes <- MCActiveRoutes
    SeatRoute <- MCSeatRoute
    MaxFaults = 0
    None = None
INVARIANT
    CancelledOnce
