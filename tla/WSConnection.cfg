CONSTANTS
  k1 = k1
  k2 = k2
  c1 = c1
  c2 = c2
  Keys = {k1, k2}
  Callers = {c1, c2}
  NeedsLogin = TRUE
  MaxFaults = 2
  MaxBugs = 1
  GiveUp = 1
  MaxWire = 2
SPECIFICATION FairSpec
INVARIANTS
  TypeOK
  ServerFollowsRegistry
  RegistryCoversHolders
PROPERTIES
  EndpointRecovers
CHECK_DEADLOCK FALSE
