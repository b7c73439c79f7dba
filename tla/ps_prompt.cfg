SPECIFICATION Spec
CONSTANTS
  m1 = m1
  m2 = m2
  p1 = p1
  p2 = p2
  p3 = p3
  Chars = {p1, p2, p3}
  Maps = {m1, m2}
  Objs = {1, 2, 3}
  Start <- MCStart
  PartyMax = 3
  NoRow = NoRow
  NoOne = NoOne
  NoMap = NoMap
  NoObj = NoObj
  NoTask = NoTask
  Gone = Gone
  Prompt = TRUE
  Acts = {"invite", "leave", "breakup", "lead", "zone", "lose", "off"}
  MaxActs = 8
INVARIANTS OneLeader MapsAgree
CHECK_DEADLOCK FALSE
