SPECIFICATION FairSpec
CONSTANTS
    a = a
    b = b
    bad = bad
    NoTarget = NoTarget
    NoHint = NoHint
    Targets = {a, b, bad}
    BadTargets = {bad}
    Callers = {"p"}
    Closers = {"x"}
    NumCoordinators = 2
    Healthy = {1}
    Streams <- MalformedFlipFlop
    Operations = {"atomic_add"}
    Overrides = {"NONE"}
    ConfiguredMode = "MASTER_THEN_BACKUP"
    Hints = {0}
    HashModulus = 4
    CounterModulus = 1
    MaxRefreshes = 2
PROPERTIES
    OperationsReturn
    BecomesReady
    RetiredGetClosed
