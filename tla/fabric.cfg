SPECIFICATION Spec
CONSTANTS
    a = a
    b = b
    f = f
    NoAnalysis = NoAnalysis
    Sources     = {a, b}
    Fields      = {f}
    Envelopes  <- MCEnvelopes
    Producible <- MCProducible
    Policies   <- MCPolicies
    Thresholds <- MCThresholds
    MaxSubmitted = 2
    MaxProduced  = 2
    MaxTime      = 2
INVARIANTS
    FabricTypeOK
    FailsClosed
    FreshPerSource
    OneAction
    UntrustedIsInert
    ContradictionsBlock
    SignalsNeverHelp
PROPERTIES
    WaitingNeverHelps
