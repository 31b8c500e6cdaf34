SPECIFICATION Spec
CONSTANTS
  MaxJobs = 2
  MaxRuns = 2
  MaxDispatch = 1
  MaxRetries = 1
  Worlds <- LaneWorlds
INVARIANTS
  CancelledStaysOut
  FreedMeansStopped
  LiveIsReviewed
  ReleaseHistory
  HistoryLinear
CHECK_DEADLOCK FALSE
