SPECIFICATION Spec
CONSTANTS
  SafeNames <- MCSafeNames
  Wants <- MCWantsNone
  LeafKeyFails = TRUE
  MaxEpoch = 2
  MaxFaults = 2
INVARIANTS
  LeafMatchesRoute
CHECK_DEADLOCK FALSE
