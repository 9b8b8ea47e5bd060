SPECIFICATION FairSpec
CONSTANTS
  Calls = {c1, c2}
  Configs <- MCConfigs
  MaxDisconnects = 1
PROPERTIES
  HalfOpenResolves
