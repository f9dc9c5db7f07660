SPECIFICATION Spec
CONSTANTS
    Users = {"u", "v"}
    Closers = {}
    MaxOperations = 2
INVARIANTS
    StubAssertion
