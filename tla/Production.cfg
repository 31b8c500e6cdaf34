CONSTANTS
  ann = ann  ben = ben  k1 = k1  k2 = k2
  People = {ann, ben}
  MaxStages = 2
  MaxOps = 3
  MaxRuns = 3
  MaxDispatch = 1
  MaxRetries = 1
  Worlds <- MCWorlds
  VerificationWorlds <- MCVerificationWorlds
  MaxAttempts = 3  MaxVerifiers = 2  MaxPushes = 1
  UploadWorlds <- MCUploadWorlds
  MaxUploads = 2  MaxTime = 2  Lease = 2
SPECIFICATION PublishingSpec
CHECK_DEADLOCK FALSE
INVARIANTS
  OneOperation
  OnlyOwnerDeploys
  LiveIsReleased
  WithdrawnStaysOut
  RetiredIsStopped
  OneAnswer
  OneCompletion
  NextStepExists
  PublishedIsRecorded
  AnsweredIsPublished
