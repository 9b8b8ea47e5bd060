SPECIFICATION FairSpec
CONSTANTS
  Calls = {c1, c2}
  Configs <- MCConfigs
  MaxDisconnects = 1
INVARIANTS
  TypeOK
  OneCallPerOpening
  HealthyNeverCut
  ProbeInFlight
PROPERTIES
  ForwardedProbeResolves
  Recovers
