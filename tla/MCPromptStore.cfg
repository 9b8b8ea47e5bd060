SPECIFICATION Spec
CONSTANTS
  Clients = {c1, c2, c3}
  MaxVersion = 2
SYMMETRY Symmetry
INVARIANTS
  SomeActive
  ActiveIsNewest
PROPERTIES
  AloneIsExact
  Promise
