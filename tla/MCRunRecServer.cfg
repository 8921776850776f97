CONSTANTS
  Sids = {tcp, tcp4}
  Address <- OneAddress
  Clients = {c1}
  BufLen = 1
  MaxLaunches = 2
  MaxRecs = 3
  Faults <- AllFaults
SPECIFICATION FairSpec
INVARIANTS
  StreamIntact
  RegistryAgrees
PROPERTY StopReleases
CHECK_DEADLOCK FALSE
