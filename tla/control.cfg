SPECIFICATION Spec
CONSTANTS
  None = none
  t1 = t1
  t2 = t2
  admin = admin
  purge = purge
  leaver = leaver
  cleaner = cleaner
  q1 = q1
  q2 = q2
  v1 = v1
  v2 = v2
  home = home
  e1 = e1
  timer = timer
  k1 = k1
  k2 = k2
  k3 = k3
  w1 = w1
  w2 = w2
  Player = {v1, v2}
  EdgeNode = {e1}
  MaxAsks = 3
  MaxTries = 2
  Login = {t1, t2}
  Setter = {s1, s2}
  Request = {q1, q2}
  tokenScopes = {"sessions:read", "sessions:control"}
  Deletion = {d1, d2}
  Migrator = {"old", "new"}
  Checker = {"worker"}
  latest <- MCLatest
  MetaVersion = 2
  MaxRevision = 4
  MaxFaults = 1
  MaxFailures = 2
INVARIANTS CredentialsSafe EffectsAuthorized SchemaSound PlaybackSafe
PROPERTIES Completes
CHECK_DEADLOCK FALSE
