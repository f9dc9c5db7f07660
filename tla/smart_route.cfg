SPECIFICATION Spec
CONSTANTS
    a = a
    b = b
    bad = bad
    NoTarget = NoTarget
    NoHint = NoHint
    Targets = {a, b}
    BadTargets = {}
    Callers = {p}
    Closers = {x, y}
    NumCoordinators = 1
    Healthy = {}
    Streams <- Sharded
    Operations = {"atomic_add", "get_value"}
    Overrides = {"NONE", "MASTER", "BACKUP", "MASTER_THEN_BACKUP", "LB_SMART"}
    ConfiguredMode = "LB_SMART"
    Hints <- WideHints
    HashModulus = 4
    CounterModulus = 4
    MaxRefreshes = 2
SYMMETRY Alike
INVARIANTS
    CloseReleasesAll
    ReadyHasShards
    RoutesHaveClients
    AtMostTwoNodes
    WritesStartAtMaster
