\* Concurrent saves, retries and transfers; two people and three tabs that compete for one draft.
CONSTANTS
  x = x   y = y
  alice = alice   bob = bob
  alice1 = alice1   alice2 = alice2   bob1 = bob1
  k1 = k1   k2 = k2   k3 = k3
  q1 = q1   q2 = q2
  None = None
  Cases = {"saves", "checkouts"}
  Actors = {alice, bob}
  Clients = {alice1, alice2, bob1}
  Owner <- MCOwner
  Drafts = {d1}
  Imported = d1
  Docs = {x, y}
  Names = {n1}
  Keys = {k1, k2}
  Sends <- OneDocPerKey
  Requests = {q1, q2}
  Ops <- AllOps
  Events = {"release", "role"}
  MaxRevs = 3
  MaxTokens = 2
  MaxTime = 2
  CheckoutTtl = 1
  RetentionAge = 3
  SpliceWindow = 2
SPECIFICATION MCSpec
SYMMETRY Symmetry
CHECK_DEADLOCK FALSE
INVARIANTS
  FencedHistory
  AnswerCoversWrite
PROPERTIES
  SavesImplementRegister
  NoTheft
