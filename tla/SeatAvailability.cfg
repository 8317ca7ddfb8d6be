\* Two bookings and a cancellation in any mix, one reader, one failure.
SPECIFICATION FairCacheSpec
CONSTANTS
    r1 = r1
    r2 = r2
    Requests = {q1, q2, q3}
    Readers = {g1}
    Users = {u1}
    Seats = {s1}
    RouteIds <- MCRouteIds
    ActiveRoutes <- MCActiveRoutes
    SeatRoute <- MCSeatRoute
    MaxFaults = 1
    None = None
    NoEntry = NoEntry
INVARIANTS
    CacheTypeOK
    FreshUnlessRaced
PROPERTIES
    CacheSettles
    EveryRequestEnds
