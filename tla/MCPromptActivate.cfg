SPECIFICATION Spec
CONSTANTS
  Clients = {c1, c2}
  MaxVersion = 2
SYMMETRY Symmetry
INVARIANTS
  ExactlyOneActive
