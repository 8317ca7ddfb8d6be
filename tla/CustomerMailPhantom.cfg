\* One booking, one failure.
SPECIFICATION MailSpec
CONSTANTS
    r1 = r1
    r2 = r2
    Senders = {q1}
    Users = {u1}
    Seats = {s1}
    RouteIds <- MCRouteIds
    ActiveRoutes <- MCActiveRoutes
    SeatRoute <- MCSeatRoute
    MaxFaults = 1
    MaxAttempts = 2
    HandBindings <- MCNoBindings
    None = None
INVARIANT
    ConfirmedBookingExists
