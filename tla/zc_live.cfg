SPECIFICATION FairSpec
CONSTANTS
  c1 = c1
  c2 = c2
  m1 = m1
  m2 = m2
  t1 = t1
  t2 = t2
  g1 = g1
  Chars = {c1, c2}
  Maps = {m1, m2}
  Login = Login
  NoMap = NoMap
  Tells = {t1}
  Groups = {}
  Sender <- MCSender
  Recipient <- MCRecipient
  Home <- MCHome
  Jailed = {}
  TellBuffering = TRUE
  MaxMessagesPerChar = 1
  MaxTargetedChatRetries = 1
  HandoffBudget <- MCBudgetTwo
PROPERTY DeliversFairly
CHECK_DEADLOCK FALSE
