SPECIFICATION FairSpec
CONSTANTS
  Catalogue <- MCCatalogue
  Traefik <- MCTraefik
  StackNet = "stackNet"
  MaxChanges = 2
  MaxFaults = 1
  MaxBacklog = 2
  DashboardName = 3
  DashboardHost <- dash
  DashboardBase <- MCDashboardBase
INVARIANTS
  TypeOK
  StackNetworkKept
  ReachBeforeRouter
  InventoryMatchesFiles
PROPERTIES
  Convergence
  Quiesces
CHECK_DEADLOCK FALSE
