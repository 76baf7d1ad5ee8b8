SPECIFICATION DhcpSpec
CONSTANTS
  Client = {c1, c2}
  Config <- UpToTwoAddresses
  LeaseTimeSec = 2
  TicksPerSecond = 2
  MaxTime = 4
  MaxInFlight = 2
  NoEntry = none
SYMMETRY Symmetry
INVARIANTS
  DhcpTypeOK
  PoolInHostRange
  OneEntryPerClient
  LeaseExclusive
  LeaseRemembered
PROPERTIES
  RenewalKeepsAddress
