\* The only broker that grants tunnels is the second of the list on file, over
\* TCP and in the oldest version of the protocol.
SPECIFICATION FairSpec
CONSTANTS
  o = o  a = a  b = b
  Server <- MCServer
  OriginalServer = o
  Modes = {"V6UDPV4", "V6ANYV4", "V6V4", "V4V6"}
  AlwaysUseSameServer = FALSE
  BrokerListFile = TRUE
  AutoRetryConnect = TRUE
  RetryDelay = 2
  MallocMayFail = FALSE
  BrokerLists <- MCLists
  LastFiles <- NoLastFile
  MaxBrokers = 2
  ListFiles <- TwoBrokersOnFile
  Unreachable <- OnlySecondOverTCP
  Speaks <- SecondSpeaksOldest
  Replies <- TunnelOnly
PROPERTIES Connects EachBrokerTried StopEnds
