\* A gesture hides the offline state while IndexedDB fails.
CONSTANTS
  MaxRetries = 1
  MaxEdits = 4
  MaxPages = 1
  Worlds <- Unpumped
SPECIFICATION FairSpec
CHECK_DEADLOCK FALSE
PROPERTY Drains
