SPECIFICATION Spec
CONSTANTS
    Users = {u, v}
    Closers = {k, l, m}
    MaxOperations = 3
SYMMETRY Symmetry
INVARIANTS
    SoloNeverFails
    QuietCloseReleases
