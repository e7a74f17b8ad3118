SPECIFICATION MCSpec
SYMMETRY Symmetry
CONSTANTS
  k1 = k1
  k2 = k2
  k3 = k3
  v1 = v1
  v2 = v2
  Clients = {c1, c2, c3}
  Extra = c3
  Users = {u1, u2}
  Providers = {p1}
  Sessions = {s1}
  Channels = {ch1, ch2}
  Nodes = {n1}
  Bindings = {b1}
  Documents = {doc}
  None = None
  MaxTotal = 1
  MaxPerOwner = 1
  Revisions = {0, 1, 2, 3, 4, 5}
  MaxRevision = 2
  MaxUserRevision = 3
  MaxFailures = 1
INVARIANTS RowsConsistent LockOrder
PROPERTIES OwnersAndRevocationsKept Linearizable UpdatesSound
