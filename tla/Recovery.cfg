\* Pages that die, are duplicated, refused, interrupted, or left without a journal;
\* and a workspace with two drafts, two invocations and one copy.
CONSTANTS
  d1 = d1  d2 = d2  i1 = i1  i2 = i2
  Drafts <- BothDrafts
  Born <- BothDrafts
  Invocations <- BothInvocations
  Receipts <- TwoReceipts
  Copies <- OneCopy
  Lease = 1
  Window = 1
  Retention = 1
  MaxEpoch = 3
  Worlds <- WorkspaceWorlds
  EditorWorlds <- MCEditorWorlds
  MaxRetries = 1
  MaxEdits = 4
  MaxPages = 3
SPECIFICATION LossSpec
SYMMETRY MCSymmetry
CHECK_DEADLOCK FALSE
INVARIANTS
  NothingOverwritten Accounted ConflictIsReal
  DeletedStaysDeleted ReceiptTruth AuthorityKept
