CONSTANTS
  Jobs = {j1}
  DiskJobs = {j1}
  Clients = {c1}
  InetClients = {}
  NoClient = NoClient
  RunIds = {r1}
  Ops <- OpsTest
  MaxCalls = 1
  Faults <- NoFaults
SPECIFICATION FairSpec
PROPERTIES
  QuitEnds
