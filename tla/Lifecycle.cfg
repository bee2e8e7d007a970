SPECIFICATION Spec
CONSTANTS
  TLDs = {"test", "lan"}
  DefaultTLD = "test"
  Machines = {"m1", "m2"}
  PeerSuffixes = {"s1"}
  Addresses = {"a1"}
  Roots = {"r1", "wide"}
  Scope <- MCScope
  Under <- MCUnder
  IncidentAPI = 2
  MaxCommands = 3
  MaxFaults = 1
  MaxVersion = 2
INVARIANTS TypeOK UninstallRestores InstallServes MaterialOfConfig RemedyCures
PROPERTIES PeerServicesStart
CHECK_DEADLOCK FALSE
