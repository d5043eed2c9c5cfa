\* Four messages, a queue of two, two lost connections, one failed initialization accepted.
SPECIFICATION FairSpec
CONSTANTS
  INITERRORS_THRESHOLD = 1
  MAX_QUEUE_ITEMS = 2
  MaxPosts = 4
  MaxBreaks = 2
INVARIANTS CommTypeOK WorkersHaveServent 
PROPERTY DestructorEnds
CHECK_DEADLOCK FALSE
