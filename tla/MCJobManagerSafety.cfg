CONSTANTS
  Jobs = {j1, j2}
  DiskJobs = {j1}
  Clients = {c1, c2}
  InetClients = {c2}
  NoClient = NoClient
  RunIds = {r1, r2}
  Ops <- AllOps
  MaxCalls = 2
  Faults <- AllFaults
SPECIFICATION Spec
SYMMETRY Symmetry
INVARIANTS
  TypeOK
  RunsOfInstalledFile
  RecordsInOwnLog
  NoProtocolPanic
  AllRecordedAtEnd
  RunnerServesJobfile
PROPERTIES
  KeepsLedger
  ErrorChangesNothing
