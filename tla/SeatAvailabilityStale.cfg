\* One booking and one reader, nothing fails.
SPECIFICATION CacheSpec
CONSTANTS
    r1 = r1
    r2 = r2
    Requests = {q1, q2}
    Readers = {g1}
    Users = {u1}
    Seats = {s1}
    RouteIds <- MCRouteIds
    ActiveRoutes <- MCActiveRoutes
    SeatRoute <- MCSeatRoute
    MaxFaults = 0
    None = None
    NoEntry = NoEntry
INVARIANT
    BookedSeatNotShownFree
