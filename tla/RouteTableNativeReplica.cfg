SPECIFICATION Spec
CONSTANTS
  Catalogues <- MCNativeReplicas
  Traefik <- MCTraefik
  DashboardName = 3
  DashboardHost <- dash
  DashboardBase <- MCDashboardBase
INVARIANTS
  NativeServesAlone
