SPECIFICATION Spec
CONSTANTS
  Catalogues <- MCCatalogues
  Traefik <- MCTraefik
  DashboardName = 3
  DashboardHost <- dash
  DashboardBase <- MCDashboardBase
INVARIANTS
  TypeOK
  UniqueRouters
  NativeServesAlone
  DeclaredBeatsGenerated
  CollisionCostsOnlyBareHost
  EveryClaimReported
  InventoryMatchesRouters
  DistinctFiles
PROPERTIES
  StopMovesOnlyItsOwnHosts
