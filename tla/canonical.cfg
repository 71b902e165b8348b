SPECIFICATION CanonicalSpec
CONSTANTS
    Names    <- MCNames
    Atoms     = {"one", "true", "text", "nan"}
    TypeOf   <- MCType
    Refusable = {"nan"}
    ClassOf  <- MCClass
    Before   <- MCBefore
    MaxRows   = 2
INVARIANTS
    FailsClosedExactly
    IdentityIsTypedContent
CHECK_DEADLOCK FALSE
