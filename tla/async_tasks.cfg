SPECIFICATION FairSpec
CONSTANTS
    a = a
    b = b
    bad = bad
    NoTarget = NoTarget
    Targets = {a, b, bad}
    BadTargets = {bad}
    Callers = {"p", "q"}
    Closers = {"x", "y"}
    NumCoordinators = 2
    Streams <- WithMalformed
    MaxAttempts = 2
INVARIANTS
    NoClientLost
    CloseReleasesAll
PROPERTIES
    ImplementsPool
    OperationsReturn
    CloseReturns
