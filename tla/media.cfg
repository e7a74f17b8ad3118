SPECIFICATION Spec
CONSTANTS
  None = none
  v1 = v1
  v2 = v2
  r1 = r1
  r2 = r2
  r3 = r3
  r4 = r4
  r5 = r5
  obs1 = obs1
  obs2 = obs2
  pruner = pruner
  Acquirer = {r1, r2, r3, r4, r5}
  Viewer = {v1, v2}
  Publisher = {obs1, obs2}
  Attempt = {r1, r2}
  RangeRequest = {r3, r4}
  Secret = {r1, r2}
  Value = {r1}
  maxWorkers = 2
  QueueFactor = 1
  MaxBooks = 2
  Last = 2
  MaxOps = 3
  MaxActs = 3
  MaxStarts = 3
  MaxLosses = 2
  MaxTicks = 2
  MaxEvicts = 1
  MaxFaults = 1
  MaxTokens = 2
  MaxClaims = 2
  MaxChildren = 3
  MaxExits = 1
  MaxAttempts = 2
INVARIANTS TranscodesSafe SegmentsSound LivePathsKept RuntimeSafe BackendsSafe FilesKept
PROPERTIES AdmittedOnce AnswersCome
CHECK_DEADLOCK FALSE
