SPECIFICATION Spec
SYMMETRY Symmetry
CONSTANTS
  Processes = {p1, p2}
  Names = {"admin", "second"}
  NumSeeds = 3
  MaxStarts = 2
  MaxFaults = 1
  MaxEdits = 2
INVARIANTS
  
  SeedComplete
CHECK_DEADLOCK FALSE
