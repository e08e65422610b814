SPECIFICATION Spec
CHECK_DEADLOCK FALSE
CONSTANTS
    None = None
    AnyTag = AnyTag
    Gap = 1
    MaxRanges = 3
    MaxReads = 2
    SpanBytes = 7
    SmallReadLimit = 4
    Sizes = {0, 2, 8}
    MaxTime = 2
    MaxVersions = 2
    MaxRequests = 3
    Stores <- MCStores
    Probes <- MCProbes
INVARIANTS
    Inv
    HeadersDescribeBody
    ResumeAssemblesOne
    RangesAnswerRequest
    ConditionsHoldOfBody
