SPECIFICATION MCSpec
CONSTANTS
  Sweeper = sweeper
  Boot = boot
  NoTask = none
  Sessions = {s1}
  Providers = {p1}
  Profiles = {q1}
  Builtin = {q1}
  Requests = {r1, r2}
  MaxRevision = 3
  MaxFaults = 1
  MaxCrashes = 1
INVARIANT CredentialsKept
PROPERTY DeletionFence DeletionEnds
