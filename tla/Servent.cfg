\* Two connections; messages of one or two packets in a pipe that holds two.
SPECIFICATION FairSpec
CONSTANTS
  Side <- MCSide
  MaxParts = 2
  Room = 2
  SeqNums = 2
  MaxMessages = 2
  MaxConnections = 2
INVARIANTS ServentTypeOK StreamIntact NoStandoff
PROPERTIES ImplementsChannel EverythingDelivered
CHECK_DEADLOCK FALSE
