SPECIFICATION Spec
CONSTANTS
  a = a
  b = b
  plain = plain
  rare = rare
  ex = ex
  Chars = {a, b}
  Size = 2
  Items = {plain, rare, ex}
  Rare = {rare}
  Exclusive = {ex}
  NoItem = NoItem
  MaxLot = 2
  CheckTime = 1
  Second = 1
  LiveTime = 4
  WarmStart = TRUE
  MaxFree = 1
  MaxDrops = 3
INVARIANTS TypeOK CountMatches LottersAreMembers GivenOnce FullMeansAll LotsAreCurrent
PROPERTY SettledByTheRules
SYMMETRY Symmetry
CHECK_DEADLOCK FALSE
