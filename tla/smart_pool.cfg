SPECIFICATION Spec
CONSTANTS
    a = a
    b = b
    bad = bad
    NoTarget = NoTarget
    NoHint = NoHint
    Targets = {a, b, bad}
    BadTargets = {bad}
    Callers = {p, q}
    Closers = {x}
    NumCoordinators = 1
    Healthy = {}
    Streams <- MalformedFlipFlop
    Operations = {"atomic_add"}
    Overrides = {"NONE"}
    ConfiguredMode = "MASTER_THEN_BACKUP"
    Hints = {0}
    HashModulus = 4
    CounterModulus = 1
    MaxRefreshes = 3
SYMMETRY Alike
INVARIANTS
    TypeOK
    InUseNeverClosed
    NoClientLost
    ActiveIsExact
    CancelledOnlyByClose
PROPERTIES
    ImplementsPool
