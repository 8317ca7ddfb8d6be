\* Three requests, two e-mails, two passwords, tokens of one tick, one failure.
SPECIFICATION DeploymentSpec
CONSTANTS
    Requests = {q1, q2, q3}
    Emails = {e1, e2}
    Passwords = {p1, p2}
    Lifetime = 1
    MaxLag = 1
    MaxTime = 3
    MaxFaults = 1
    None = None
    NoMigration = NoMigration
SYMMETRY MCSymmetry
INVARIANTS
    DeploymentTypeOK
    OneAccountPerEmail
    AnswersHold
    TokensEarned
    DeactivationTakesEffect
    SchemaIsRevision
    OldSchemaExplained
    HandlersKeepSchema
PROPERTIES
    ServiceKeepsAccounts
    NothingInvented
