SPECIFICATION Spec
CONSTANTS
    n1 = n1
    n2 = n2
    a1 = a1
    a2 = a2
    a3 = a3
    None = None
    Node = {n1, n2}
    Attempt = {a1, a2}
    Home <- MCHome2
    PinnedNode = None
    Preexisting = TRUE
    LeaseLapse = TRUE
    MaxSegments = 1
    MaxRevision = 6
    MaxFaults = 1
INVARIANTS UniqueGeneration RowTruthful
PROPERTIES GenerationsInTurn
