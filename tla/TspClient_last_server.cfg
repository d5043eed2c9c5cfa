\* A client that starts from its last server is redirected to a list whose first
\* broker is down.
SPECIFICATION FairSpec
CONSTANTS
  o = o  a = a  b = b
  Server <- MCServer
  OriginalServer = o
  Modes = {"V6UDPV4", "V6ANYV4", "V6V4", "V4V6"}
  AlwaysUseSameServer = TRUE
  BrokerListFile = TRUE
  AutoRetryConnect = TRUE
  RetryDelay = 1
  MallocMayFail = FALSE
  BrokerLists <- MCLists
  LastFiles <- SomeLastFile
  MaxBrokers = 2
  ListFiles <- NoListFile
  Unreachable <- BDown
  Speaks <- AllVersions
  Replies <- TunnelOrRedirect
PROPERTIES EachBrokerTried
