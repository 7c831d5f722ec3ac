SPECIFICATION ResizeSpec
CONSTANTS
  PagesCount = 8
  PerBlock = 4
  Reserved = 1
  SectorPages = 2
  Prefixes = {p, q}
  Blank = blank
  MaxId = 0
  Values = {v1}
  Junk = junk
  MaxLen = 2
  Bad = bad
  None = none
  Misread <- MCMisread
  MaxBusy = 0
  MaxWorn = 0
  MaxDecay = 0
  MaxCrash = 0
  Tearable <- AllData
  ClientOps = {"save", "delete", "load", "clear"}
  ClientAddrs = {3, 5, 6, 7}
  ClientKeys <- AllKeys
  ClientLens = {1, 2}
  SmallCount = 7
SYMMETRY PrefixSymmetry
INVARIANTS
  ResizeStores
  PayloadExact
PROPERTIES
  ResizeKeepsOthers
