SPECIFICATION NestedFairSpec
CONSTANTS
    outer1 = outer1
    inner1 = inner1
    outer2 = outer2
    inner2 = inner2
    a1 = a1
    a2 = a2
    w1 = w1
    good = good
    err  = err
    NoIdentity = NoIdentity
    NoRequest  = NoRequest
    NoCall     = NoCall
    Nothing    = Nothing
    Calls         = {outer1, inner1, outer2, inner2}
    Authorities   = {a1, a2}
    Works         = {w1}
    Values        = {good}
    Undigestible  = {}
    Errors        = {err}
    TimeoutErrors = {}
    Verifiers    <- Accepting
    Parent       <- MCParent
    Interruptible = {outer1}
    Rank         <- MCRank
INVARIANTS
    SingleFlight
    AscendingNeverStuck
PROPERTIES
    OnlyCirclesBlock
    BoundedJoinReturns
CHECK_DEADLOCK FALSE
