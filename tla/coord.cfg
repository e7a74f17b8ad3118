SPECIFICATION MCSpec
CONSTANTS
    s1 = s1
    p1 = p1
    r1 = r1
    r2 = r2
    k1 = k1
    k2 = k2
    i1 = i1
    i2 = i2
    None = None
    Session = {s1}
    Provider <- MCProvider
    Request = {r1, r2}
    SessionOf <- MCSessionOf
    Stopper = {k1, k2}
    StopSession <- MCStopSession
    Attempt = {i1, i2}
    maxConcurrentProducers = 2
    maxConcurrentProducersPerProvider = 2
    MaxLifecycle = 2
INVARIANTS StopsAreFinal MapsExact
PROPERTIES StopsComplete
CHECK_DEADLOCK FALSE
