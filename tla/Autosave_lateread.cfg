\* Another client saves between a commit and its second getDraft.
CONSTANTS
  MaxRetries = 1
  MaxEdits = 4
  MaxPages = 2
  Worlds <- LateRead
SPECIFICATION Spec
CHECK_DEADLOCK FALSE
INVARIANT NothingOverwritten
