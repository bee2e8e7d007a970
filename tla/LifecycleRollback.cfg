SPECIFICATION Spec
CONSTANTS
  TLDs = {"test", "lan"}
  DefaultTLD = "test"
  Machines = {"m1", "m2"}
  PeerSuffixes = {"s1"}
  Addresses = {"a1"}
  Roots = {"r1", "wide"}
  Scope <- MCScope
  Under <- MCUnder
  IncidentAPI = 2
  MaxCommands = 1
  MaxFaults = 1
  MaxVersion = 2
INVARIANT RollbackRestores
CHECK_DEADLOCK FALSE
