SPECIFICATION Spec
CONSTANTS
  GroupSets <- MCGroupSets
  DashboardName = 3
  DashboardHost <- MCDashboardHost
  DashboardBase <- MCDashboardBase
INVARIANTS
  IInv
  LoopDecides
  LossesReported
CHECK_DEADLOCK FALSE
