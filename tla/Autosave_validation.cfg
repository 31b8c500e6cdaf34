\* A document is refused while a correction waits behind it.
CONSTANTS
  MaxRetries = 1
  MaxEdits = 4
  MaxPages = 1
  Worlds <- Validation
SPECIFICATION Spec
CHECK_DEADLOCK FALSE
INVARIANT SavedMeansSaved
