SPECIFICATION SettingsSpec
CONSTANTS
  Requests = {r1}
  Patterns = {1, 2}
  MaxChanges = 3
  MaxFaults = 1
  Limit = 2
  Window = 2
INVARIANTS
  SettingsTypeOK
  OneLevelExplained
  TwiceTheLimit
  RefusedHasCause
