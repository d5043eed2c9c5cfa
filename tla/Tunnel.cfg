\* Every type, with and without keepalives, cycles of 2 to 4 passes.
SPECIFICATION FairSpec
CONSTANTS
  KA_INITIAL_KEEPALIVE = 2
  KA_MAXIMAL_CYCLES = 3
  Intervals = {0, 1, 4}
  Types <- MCTypes
  LongWait = 4
  OtherICMP = FALSE
INVARIANTS TunnelTypeOK DeadLinkNoticed LiveLinkKept StopPrompt NoTunnelLeft
PROPERTY TunnelStops
