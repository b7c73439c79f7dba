SPECIFICATION Spec
CONSTANTS
  c1 = c1
  c2 = c2
  m1 = m1
  m2 = m2
  t1 = t1
  t2 = t2
  g1 = g1
  Chars = {c1, c2}
  Maps = {m1, m2}
  Login = Login
  NoMap = NoMap
  Tells = {t1}
  Groups = {g1}
  Sender <- MCSender
  Recipient <- MCRecipient
  Home <- MCHome
  Jailed = {}
  TellBuffering = TRUE
  MaxMessagesPerChar = 1
  MaxTargetedChatRetries = 1
  HandoffBudget <- MCBudgetTwo
INVARIANTS TypeOK OneAnswer SingleCopy HandoffCovered PartyLinesStayInParty
PROPERTY ImplementsDelivery
CHECK_DEADLOCK FALSE
CONSTRAINT TellsWithOneMove
