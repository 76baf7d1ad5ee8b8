SPECIFICATION DhcpFairSpec
CONSTANTS
  Client = {c1, c2}
  Config <- UpToTwoAddresses
  LeaseTimeSec = 1
  TicksPerSecond = 2
  MaxTime = 4
  MaxInFlight = 1
  NoEntry = none
PROPERTIES
  ExpiredLeasesAreFreed
