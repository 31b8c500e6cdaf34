\* Drafts that are created, copied, published, archived and purged; retention against saves and publication.
CONSTANTS
  x = x   y = y
  alice = alice   bob = bob
  alice1 = alice1   alice2 = alice2   bob1 = bob1
  k1 = k1   k2 = k2   k3 = k3
  q1 = q1   q2 = q2
  None = None
  Cases = {"lifecycle", "retention"}
  Actors = {alice}
  Clients = {alice1}
  Owner <- MCOwner
  Drafts = {d1, d2}
  Imported = d1
  Docs = {x, y}
  Names = {n1}
  Keys = {k1, k2, k3}
  Sends <- OneDocPerKey
  Requests = {q1, q2}
  Ops <- AllOps
  Events = {"publish"}
  MaxRevs = 3
  MaxTokens = 2
  MaxTime = 2
  CheckoutTtl = 3
  RetentionAge = 1
  SpliceWindow = 3
SPECIFICATION MCSpec
CHECK_DEADLOCK FALSE
INVARIANTS
  AtMostOncePerKey
  NothingDangles
  LatestIsNewest
  RetainedReadable
PROPERTY LifecycleImplementsRegister
