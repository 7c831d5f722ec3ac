SPECIFICATION Spec
CONSTANTS
  PagesCount = 6
  PerBlock = 3
  Reserved = 1
  SectorPages = 2
  Prefixes = {p, q}
  Blank = blank
  MaxId = 2
  Values = {v1}
  Junk = junk
  MaxLen = 2
  Bad = bad
  None = none
  Misread <- MCMisread
  MaxBusy = 0
  MaxWorn = 0
  MaxDecay = 0
  MaxCrash = 0
  Tearable <- AllData
  ClientOps = {"save", "find"}
  ClientAddrs = {1, 4}
  ClientKeys <- FindKeys
  ClientLens = {1, 2}
INVARIANTS
  FindsEveryId
