CONSTANTS
  Commands = {"entries"}
  MaxEvents = 3
  QueueSize = 1
  MaxFaults = 2
SPECIFICATION FairSpec
INVARIANT OneStaleIdle
PROPERTY FeedSpec
PROPERTY QueuedIsTaken
PROPERTY Resumes
PROPERTY EveryCommandEnds
CHECK_DEADLOCK FALSE
