SPECIFICATION Spec
CONSTANTS
  PagesCount = 6
  PerBlock = 3
  Reserved = 1
  SectorPages = 2
  Prefixes = {p, q}
  Blank = blank
  MaxId = 2
  Values = {v1, v2}
  Junk = junk
  MaxLen = 2
  Bad = bad
  None = none
  Misread <- MCMisread
  MaxBusy = 0
  MaxWorn = 0
  MaxDecay = 0
  MaxCrash = 2
  Tearable <- AllData
  ClientOps = {"save", "delete", "find"}
  ClientAddrs = {1, 4}
  ClientKeys <- FindKeys
  ClientLens = {2}
SYMMETRY ValueSymmetry
INVARIANTS
  FoundOnce
  KeepsWithin
  FindInBounds
  FindEmptyExact
PROPERTIES
  CutsAreClean
  KeepsPromise
