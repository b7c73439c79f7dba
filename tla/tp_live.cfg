SPECIFICATION FairSpec
CONSTANTS
  a = a
  b = b
  plain = plain
  rare = rare
  ex = ex
  Chars = {a, b}
  Size = 1
  Items = {plain, rare}
  Rare = {rare}
  Exclusive = {}
  NoItem = NoItem
  MaxLot = 1
  CheckTime = 1
  Second = 1
  LiveTime = 4
  WarmStart = TRUE
  MaxFree = 1
  MaxDrops = 2
PROPERTY DropsSettled
CHECK_DEADLOCK FALSE
