SPECIFICATION Spec
CONSTANTS
  Nonces = {"n"}
  Minted = "minted"
  Hosts = {"cdn", "none"}
  Second = 2
  budget = 6
  maxReports = 1
  exchangeSize = 2
  ReportSizes = {1, 3}
  SnapshotSize = 4
  Headers <- MCHeaders
  limit = 3
  MaxRequests = 3
  MaxReports = 2
  MaxTime = 5
  MaxFaults = 1
INVARIANTS
  TypeOK
  Accounted
  HalvesJoined
  RecentReportListed
  TranscriptFaithful
  AgentAdmitted
CHECK_DEADLOCK FALSE
