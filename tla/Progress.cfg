\* One page on a lossy network; one cancelled publication.
CONSTANTS
  MaxRetries = 1
  MaxEdits = 3
  MaxPages = 1
  Worlds <- EitherWorlds
SPECIFICATION MCSpec
CHECK_DEADLOCK FALSE
INVARIANT SavedMeansSaved
PROPERTIES QueueDrains LaneIsFreed
