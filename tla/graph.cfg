SPECIFICATION GraphFairSpec
CONSTANTS
    root = root
    left = left
    right = right
    bad = bad
    odd = odd
    void = void
    x0 = x0
    x1 = x1
    a1 = a1
    a2 = a2
    NoIdentity = NoIdentity
    NoRequest  = NoRequest
    NoCall     = NoCall
    Nothing    = Nothing
    Pipelines     = {1, 2, 3}
    MaxStages     = 2
    StageKeys    <- MCKeys
    Transform    <- PureTransform
    StageVerdict <- MCVerdict
    Formless      = {void}
    Jobs         <- PureJobs
    Workloads    <- PureWorkloads
    Calls        <- MCCalls
    Values       <- MCValues
    Authorities   = {a1, a2}
    Works         = {}
    Undigestible  = {}
    Errors        = {err}
    TimeoutErrors = {}
    Verifiers     = {}
INVARIANTS
    GraphTypeOK
    IsolatedResult
    TraceIsEvidence
    PrefixOnlySharing
    LineageTellsHistory
PROPERTY
    PipelinesEnd
