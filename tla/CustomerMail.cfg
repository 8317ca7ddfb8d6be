\* A booking and its cancellation, two attempts, one fault anywhere, with and
\* without a binding of booking.dlq made by hand.
SPECIFICATION FairMailSpec
CONSTANTS
    r1 = r1
    r2 = r2
    Senders = {q1, q2}
    Users = {u1}
    Seats = {s1}
    RouteIds <- MCRouteIds
    ActiveRoutes <- MCActiveRoutes
    SeatRoute <- MCSeatRoute
    MaxFaults = 1
    MaxAttempts = 2
    HandBindings <- MCBoundByHand
    None = None
INVARIANTS
    TypeOK
    ForgottenWithReason
    NoSpuriousEmail
    MailTellsTheTruth
    CancellationFollowsConfirmation
PROPERTIES
    EveryMessageSettles
    CustomersAreTold
    MailImplementsLedger
