\* Two servers, two sessions of two exchanges, with both
\* kinds of select().
SPECIFICATION FairSpec
CONSTANTS
  h1 = h1  h2 = h2
  Host <- MCHost
  None = None
  TMIN = 1
  TMAX = 2
  MAXRTT = 1
  MAXRT = 2
  SelectWrites = {TRUE, FALSE}
  MaxSessions = 2
  MaxExchanges = 2
INVARIANT TypeOK
PROPERTIES   ExchangeEnds
