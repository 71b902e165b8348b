SPECIFICATION ScheduledSpec
CONSTANTS
    good = good
    odd  = odd
    err  = err
    NoIdentity = NoIdentity
    NoRequest  = NoRequest
    NoCall     = NoCall
    Nothing    = Nothing
    Calls         = {c1, c2, c3}
    Authorities   = {a1}
    Works         = {w1}
    Values       <- MCValues
    Undigestible  = {}
    Errors        = {err}
    TimeoutErrors = {}
    Verifiers    <- TwoVerifiers
INVARIANT
    FailureReachesJoiners
PROPERTIES
    KeepsPromise
    BoundedJoinReturns
    EveryCallReturns
