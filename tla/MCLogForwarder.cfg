SPECIFICATION FairLogForwarderSpec
CONSTANTS
  NumEvents = 4
  BodySize = 3
  Rejected = {4}
  Swallowed = {1, 2}
  MaxLaunches = 3
  MaxTroubles = 3
INVARIANTS
  LogForwarderTypeOK
  NothingIsLost
  SkipsAreJust
  NothingIsQueuedTwice
  PostsAreOnRecord
PROPERTY LogsAreShipped
CHECK_DEADLOCK FALSE
