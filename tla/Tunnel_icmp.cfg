\* A host that receives ICMPv6 messages of others, such as router advertisements.
SPECIFICATION Spec
CONSTANTS
  KA_INITIAL_KEEPALIVE = 2
  KA_MAXIMAL_CYCLES = 3
  Intervals = {0, 1, 4}
  Types <- MCTypes
  LongWait = 4
  OtherICMP = TRUE
INVARIANT DeadLinkNoticed
