SPECIFICATION Spec
CONSTANTS
    c1 = c1
    c2 = c2
    None = None
    Call = {c1, c2}
    RetryLimit = 2
    MaxOperator = 2
    MaxEvictions = 1
    MaxFaults = 1
SYMMETRY CallSymmetry
INVARIANTS LeaseServes JobAccounted
PROPERTIES OutcomeSticks
