\* Does the client take a session without a tunnel for a good one?
SPECIFICATION SessionSpec
CONSTANTS
  o = o  a = a  key1 = key1  key2 = key2  home = home  away = away
  Server <- MCServer
  OriginalServer = o
  Modes = {"V6ANYV4"}
  AlwaysUseSameServer = FALSE
  BrokerListFile = FALSE
  AutoRetryConnect = FALSE
  RetryDelay = 0
  MallocMayFail = FALSE
  BrokerLists <- MCLists
  LastFiles <- NoFile
  MaxBrokers = 1
  ListFiles <- NoListFile
  Unreachable <- UdpFiltered
  Speaks <- Mixed
  Replies <- AnyReply
  AuthMethods = {"PLAIN"}
  Offers <- PlainOffer
  Keys = {}
  Addresses = {home}
  ClientAddress = "auto"
  DnsServers <- NoDns
INVARIANT SuccessMeansTunnel
