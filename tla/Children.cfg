SPECIFICATION FairSpec
CONSTANTS
  Streams = {stdout, stderr}
  Limit = 1
INVARIANTS
  AnsweredMeansGone
PROPERTIES
  EveryChildEnds
CHECK_DEADLOCK FALSE
