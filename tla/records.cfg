SPECIFICATION Spec
CONSTANTS
  PagesCount = 6
  PerBlock = 3
  Reserved = 1
  SectorPages = 2
  Prefixes = {p}
  Blank = blank
  MaxId = 1
  Values = {v1}
  Junk = junk
  MaxLen = 2
  Bad = bad
  None = none
  Misread <- MCMisread
  MaxBusy = 0
  MaxWorn = 0
  MaxDecay = 0
  MaxCrash = 0
  Tearable <- AllData
  ClientOps = {"save", "rewrite", "delete", "load", "clear", "format"}
  ClientAddrs = {0, 2, 4, 5}
  ClientKeys <- AllKeys
  ClientLens = {1, 2}
INVARIANTS
  TypeOK
  SaveStores
  DeleteRemoves
  TablesCoverRecords
  LoadWhole
  StatusesExact
  GuardExact
PROPERTIES
  KeepsPromise
