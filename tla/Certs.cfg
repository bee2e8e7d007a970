SPECIFICATION Spec
CONSTANTS
  SafeNames <- MCSafeNames
  Wants <- MCWantsNone
  LeafKeyFails = FALSE
  MaxEpoch = 2
  MaxFaults = 2
INVARIANTS
  TypeOK
  NoDanglingReference
  DefaultIsOurs
  PeerLeafCurrent
  LeafMatchesRoute
CHECK_DEADLOCK FALSE
