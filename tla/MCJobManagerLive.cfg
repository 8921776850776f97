CONSTANTS
  Jobs = {j1}
  DiskJobs = {j1}
  Clients = {c1, c2}
  InetClients = {}
  NoClient = NoClient
  RunIds = {r1}
  Ops <- OpsNoTest
  MaxCalls = 2
  Faults <- NoFaults
SPECIFICATION FairSpec
PROPERTIES
  CommandAnswered
  QuitEnds
