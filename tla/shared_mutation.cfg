SPECIFICATION GraphSpec
CONSTANTS
    root = root
    left = left
    right = right
    bad = bad
    odd = odd
    void = void
    x0 = x0
    x1 = x1
    a1 = a1
    a2 = a2
    NoIdentity = NoIdentity
    NoRequest  = NoRequest
    NoCall     = NoCall
    Nothing    = Nothing
    Pipelines     = {p1, p2}
    MaxStages     = 2
    StageKeys    <- MCKeys
    Transform    <- InPlaceTransform
    StageVerdict <- MCVerdict
    Formless      = {void}
    Jobs         <- InPlaceJobs
    Workloads    <- InPlaceWorkloads
    Calls        <- MCCalls
    Values       <- MCValues
    Authorities   = {a1, a2}
    Works         = {}
    Undigestible  = {}
    Errors        = {}
    TimeoutErrors = {}
    Verifiers     = {}
INVARIANT
    IsolatedResult
