\* Four requests in overlapping windows, scripts up to one tick late, one failure.
SPECIFICATION Spec
CONSTANTS
    Requests = {a1, a2, a3, a4}
    Limit = 1
    Window = 3
    Slack = 1
    Tags = {t1, t2}
    MaxDelay = 1
    MaxTime = 5
    MaxFaults = 1
    NoMember = NoMember
SYMMETRY MCSymmetry
INVARIANTS
    TypeOK
    WindowLimit
    FailuresAreBounded
    DeniedWithReason
