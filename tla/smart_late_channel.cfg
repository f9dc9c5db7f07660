SPECIFICATION Spec
CONSTANTS
    a = a
    b = b
    bad = bad
    NoTarget = NoTarget
    NoHint = NoHint
    Targets = {a, b}
    BadTargets = {}
    Callers = {"p"}
    Closers = {"x"}
    NumCoordinators = 2
    Healthy = {0}
    Streams <- FlipFlop
    Operations = {"atomic_add"}
    Overrides = {"NONE"}
    ConfiguredMode = "MASTER_THEN_BACKUP"
    Hints = {0}
    HashModulus = 4
    CounterModulus = 1
    MaxRefreshes = 1
INVARIANTS
    ShutdownClosesChannels
