SPECIFICATION Spec
CONSTANTS
    MaxItems = 4
    ItemSizes = {2, 4}
    Continuations = {2, 5}
    NoPos = NoPos
    MaxRpcSize = 8
    MaxPos = 15
    VarintLimits = {4, 16}
    MaxCount = 2
    Endpoints = 2
    Requests <- Operations
CHECK_DEADLOCK FALSE
INVARIANTS
    ChunkEquivalence
    SuccessStoresAll
    PartialIsHonest
    RepeatsAreBounded
    NeverTooLarge
