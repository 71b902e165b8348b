SPECIFICATION Spec
CONSTANTS
    a = a
    b = b
    f = f
    NoAnalysis = NoAnalysis
    Sources     = {a, b}
    Fields      = {f}
    Envelopes  <- DatedEnvelopes
    Producible <- MCProducible
    Policies   <- DatedPolicies
    Thresholds <- DefaultThresholds
    MaxSubmitted = 2
    MaxProduced  = 2
    MaxTime      = 2
INVARIANTS
    FutureEvidenceUnresolved
