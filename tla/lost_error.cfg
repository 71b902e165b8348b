SPECIFICATION Spec
CONSTANTS
    good = good
    odd  = odd
    err  = err
    NoIdentity = NoIdentity
    NoRequest  = NoRequest
    NoCall     = NoCall
    Nothing    = Nothing
    Calls         = {c1, c2}
    Authorities   = {a1, a2}
    Works         = {w1}
    Values       <- MCValues
    Undigestible  = {odd}
    Errors        = {err, timeoutError}
    TimeoutErrors = {timeoutError}
    Verifiers    <- NoVerifier
INVARIANT
    FailureReachesJoiners
