\* Every mechanism configured or offered, every end of every exchange, a server
\* that redirects to a broker of another version.
SPECIFICATION SessionSpec
CONSTANTS
  o = o  a = a  key1 = key1  key2 = key2  home = home  away = away
  Server <- MCServer
  OriginalServer = o
  Modes = {"V6ANYV4"}
  AlwaysUseSameServer = FALSE
  BrokerListFile = FALSE
  AutoRetryConnect = FALSE
  RetryDelay = 0
  MallocMayFail = FALSE
  BrokerLists <- MCLists
  LastFiles <- NoFile
  MaxBrokers = 1
  ListFiles <- NoListFile
  Unreachable <- UdpFiltered
  Speaks <- Mixed
  Replies <- AnyReply
  AuthMethods <- AllMethods
  Offers <- AllOffers
  Keys = {key1, key2}
  Addresses = {home, away}
  ClientAddress = "auto"
  DnsServers <- TwoDns
INVARIANTS SessionTypeOK SocketsClosed StrongestMechanism  
PROPERTIES ImplementsClient
