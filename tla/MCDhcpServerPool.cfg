SPECIFICATION DhcpSpec
CONSTANTS
  Client = {c1, c2}
  Config <- EndOfSubnet
  LeaseTimeSec = 1
  TicksPerSecond = 1
  MaxTime = 2
  MaxInFlight = 1
  NoEntry = none
INVARIANT
  PoolSizeAsConfigured
