SPECIFICATION Spec
CONSTANTS
    None = None
    Omitted = Omitted
    Invalid = Invalid
    DefaultTimeout = 2
    DefaultTtl = 3
    DefaultThreshold = 1
    ReadinessTimeout = 1
    MaxDecoded = 4
    Second = 2
    MaxLock = 9
    Epoch = 10
    Skews = {0, 1}
    MaxTime = 2
    Calls <- MCCalls
INVARIANT
    WireTtlAbsolute
