SPECIFICATION ReceiptSpec
CONSTANTS
    a = a
    f = f
    key1 = key1
    key2 = key2
    NoAnalysis = NoAnalysis
    NoReceipt  = NoReceipt
    NoLink     = NoLink
    Sources     = {a}
    Fields      = {f}
    Envelopes  <- MCEnvelopes
    Producible <- MCProducible
    Policies   <- MCPolicies
    Thresholds <- MCThresholds
    MaxSubmitted = 1
    MaxProduced  = 1
    MaxTime      = 0
    Keys       = {key1, key2}
    Algorithms = {"ed25519"}
    MaxIssued  = 2
    MaxSealed  = 2
SYMMETRY KeySymmetry
INVARIANTS
    ReceiptTellsItsAnalysis
    SealVouchesForReceipt
    ReceiptedAutonomyWasEarned
PROPERTIES
    JourneyKeepsVerdicts
    SealsVerify
