SPECIFICATION Spec
CONSTANTS
  Catalogues <- MCDashboardClaimants
  Traefik <- MCTraefik
  DashboardName = 3
  DashboardHost <- dash
  DashboardBase <- MCDashboardBase
INVARIANTS
  InventoryMatchesRouters
