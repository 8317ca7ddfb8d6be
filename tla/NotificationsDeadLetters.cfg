\* One booking, no fault but sends that fail.
SPECIFICATION Spec
CONSTANTS
    Senders = {b1}
    MaxAttempts = 3
    MaxFaults = 0
    HandBindings <- MCNoBindings
INVARIANT
    FailedReachDeadLetters
