SPECIFICATION Spec
CONSTANTS
  Clients = {c1, c2}
  Fields = {text}
  TextFields = {text}
  Values = {a, b}
  Keep = Keep
  NoRow = NoRow
  Nobody = Nobody
  MaxTx = 4
SYMMETRY Symmetry
INVARIANTS
  SnapshotsContiguous
  EtagNamesState
PROPERTIES
  NoAccidentalRevival
  Promise
CHECK_DEADLOCK FALSE
