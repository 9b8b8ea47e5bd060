SPECIFICATION Spec
CONSTANTS
  Agents = {a1, a2}
  NoAgent = NoAgent
  NoEtag = NoEtag
  MaxRetries = 1
  MaxTx = 3
INVARIANTS
  TypeOK
  QuietIsCurrent
  FreshUnlessSuspect
PROPERTIES
  PublicationsEnd
