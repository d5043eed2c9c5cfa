SPECIFICATION Spec
CONSTANTS
  Address <- MC_Address
  Messages <- MC_Messages
  TooLong <- MC_TooLong
  MaxInList = 3
  Timeout = 2
  Attempts = 3
  MaxRedirects = 1
  MaxRestarts = 1
CHECK_DEADLOCK FALSE
INVARIANTS BestBrokerFirst
PROPERTIES RedirectionEnds
