SPECIFICATION UpgradeSpec
CONSTANTS
  PagesCount = 6
  PerBlock = 3
  Reserved = 1
  SectorPages = 2
  Prefixes = {p}
  Blank = blank
  MaxId = 1
  Values = {v1}
  Junk = junk
  MaxLen = 2
  Bad = bad
  None = none
  Misread <- MCMisread
  MaxBusy = 2
  MaxWorn = 0
  MaxDecay = 0
  MaxCrash = 1
  Tearable <- AllData
  ClientOps = {"save", "delete", "load"}
  ClientAddrs = {1, 4}
  ClientKeys <- AllKeys
  ClientLens = {2}
  Drives <- Drives5
INVARIANTS
  LoadWhole
PROPERTIES
  UpgradeKeepsPromise
