SPECIFICATION Spec
CONSTANTS
  Primaries = {p}
  Supplementaries = {s}
  Slots = {a, b}
  MaxStamps = 2
  MaxFinals = 2
  NULL = NULL
SYMMETRY Symmetry
INVARIANTS
  
  ToldOncePerFinalization
  ReleasedOnceApproved
  
