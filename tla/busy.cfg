SPECIFICATION Spec
CONSTANTS
  PagesCount = 6
  PerBlock = 3
  Reserved = 1
  SectorPages = 2
  Prefixes = {p}
  Blank = blank
  MaxId = 1
  Values = {v1}
  Junk = junk
  MaxLen = 2
  Bad = bad
  None = none
  Misread <- MCMisread
  MaxBusy = 1
  MaxWorn = 0
  MaxDecay = 0
  MaxCrash = 0
  Tearable <- AllData
  ClientOps = {"save", "delete", "load", "clear", "format"}
  ClientAddrs = {1, 4}
  ClientKeys <- AllKeys
  ClientLens = {1, 2}
PROPERTIES
  OthersUntouched
