SPECIFICATION Spec
CONSTANTS
  Clients = {c1, c2}
  Values = {a, b}
  Keep = Keep
  NoRow = NoRow
  MaxTx = 3
  MaxVersion = 2
SYMMETRY Symmetry
INVARIANTS
  TypeOK
  EtagNamesState
PROPERTIES
  AloneIsExact
  Promise
