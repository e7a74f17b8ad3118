SPECIFICATION FairSpec
CONSTANTS
    v1 = v1
    v2 = v2
    None = None
    Viewer = {v1, v2}
    Segments = 4
    segmentDuration = 6
    bufferLowWatermarkMs = 30000
    MaxAsks = 3
    Asked = {0, 3}
    MaxStalls = 1
INVARIANTS AtMostOneSwitch
 
CHECK_DEADLOCK FALSE
