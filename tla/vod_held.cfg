SPECIFICATION Spec
CONSTANTS
    n1 = n1
    n2 = n2
    a1 = a1
    a2 = a2
    a3 = a3
    None = None
    Node = {n1, n2}
    Attempt = {a1, a2, a3}
    Home <- MCHome
    PinnedNode = None
    Preexisting = FALSE
    LeaseLapse = FALSE
    MaxSegments = 1
    MaxRevision = 5
    MaxFaults = 1
INVARIANTS TypeOK SingleProducer RunningOwnsRow
