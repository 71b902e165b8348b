SPECIFICATION Spec
CONSTANTS
    NotSupplied = NotSupplied
    Malformed   = Malformed
    NoReport    = NoReport
    Dimensions    = {"state", "security"}
    FindingLists <- MCFindings
    FindingLimit  = 2
    MaxSupplied   = 2
INVARIANT
    DivergenceClosedOnEvidence
