SPECIFICATION Spec
CONSTANTS
  Catalogue <- MCCatalogue
  PerService = 2
  MaxAge = 8
  OOMWindow = 3
  Skew = 1
  MaxChanges = 4
  MaxFaults = 1
  MaxQueue = 2
  DashboardName = 9
  DashboardHost <- dash
  DashboardBase <- MCDashboardBase
INVARIANTS
  TypeOK
  NewestKept
  FallsReported
  OOMExplained
  QuotesOneLife
