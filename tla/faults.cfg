SPECIFICATION Spec
CONSTANTS
  PagesCount = 5
  PerBlock = 5
  Reserved = 2
  SectorPages = 2
  Prefixes = {p}
  Blank = blank
  MaxId = 0
  Values = {v1}
  Junk = junk
  MaxLen = 2
  Bad = bad
  None = none
  Misread <- MCMisread
  MaxBusy = 1
  MaxWorn = 2
  MaxDecay = 1
  MaxCrash = 0
  Tearable <- AllData
  ClientOps = {"save", "find", "load", "clear", "format"}
  ClientAddrs = {2}
  ClientKeys <- OneKey
  ClientLens = {2}
INVARIANTS
  ChainsForward
  LoopsBounded
  SearchForward
PROPERTIES
  CallReturns
  CallsAdvance
