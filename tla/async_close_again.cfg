SPECIFICATION Spec
CONSTANTS
    a = a
    b = b
    bad = bad
    NoTarget = NoTarget
    Targets = {a, b, bad}
    BadTargets = {bad}
    Callers = {"p"}
    Closers = {"x", "y"}
    NumCoordinators = 1
    Streams <- FlipFlop
    MaxAttempts = 1
INVARIANTS
    CloseAgainReleasesAll
