\* An edit is made while the checkout is being released.
CONSTANTS
  MaxRetries = 1
  MaxEdits = 4
  MaxPages = 1
  Worlds <- Leaving
SPECIFICATION Spec
CHECK_DEADLOCK FALSE
PROPERTY ClosesClean
