\* Every tunnel mode and every result, servers of different versions, with and
\* without a last server.
SPECIFICATION Spec
CONSTANTS
  o = o  a = a  b = b
  Server <- MCServer
  OriginalServer = o
  Modes = {"V6UDPV4", "V6ANYV4", "V6V4", "V4V6"}
  AlwaysUseSameServer = TRUE
  BrokerListFile = TRUE
  AutoRetryConnect = FALSE
  RetryDelay = 1
  MallocMayFail = TRUE
  BrokerLists <- MCLists
  LastFiles <- SomeLastFile
  MaxBrokers = 2
  ListFiles <- AnyListFile
  Unreachable <- UdpFiltered
  Speaks <- Mixed
  Replies <- AnyReply
INVARIANTS TypeOK RouteOK OldProtocolOnlyOverTCP FinalStatusHonest
PROPERTIES EveryTransportBeforeMovingOn NoRepeatWithoutRest UdpFallbackWaits
