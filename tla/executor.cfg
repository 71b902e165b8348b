SPECIFICATION Spec
CONSTANTS
    good = good
    odd  = odd
    err  = err
    NoIdentity = NoIdentity
    NoRequest  = NoRequest
    NoCall     = NoCall
    Nothing    = Nothing
    Calls         = {c1, c2, c3}
    Authorities   = {a1, a2}
    Works         = {w1, w2}
    Values       <- MCValues
    Undigestible  = {odd}
    Errors        = {err, timeoutError}
    TimeoutErrors = {timeoutError}
    Verifiers    <- AllVerifiers
SYMMETRY Symmetry
INVARIANTS
    TypeOK
    SingleFlight
    TablesAgree
    SharedValueIsVouchedFor
    Accounting
PROPERTIES
    JoinsOnlyRunningWork
    RefusalsCountForeignWork
