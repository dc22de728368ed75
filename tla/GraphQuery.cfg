SPECIFICATION FairSpec
CONSTANTS
  t1 = t1
  t2 = t2
  n1 = n1
  pub = pub
  sub = sub
  r1 = r1
  r2 = r2
  Threads = {t1, t2}
  Pollers = {t1}
  Nodes = {n1}
  Remote = {pub, sub}
  Mortal = {r1}
  Asks <- Asks2
  OwnerOf <- Owner2
  KindOf <- Kind2
  NodeOf <- Node2
  TopicOf <- Topic2
  TypeOf <- Type2
  MaxEntries = 2
  Interval = 2
  MaxLag = 1
  NoEntry = NoEntry
  NoFilter = NoFilter
INVARIANTS AnswerBetween NoFreedTrigger NodeWhole
PROPERTIES SweepsSpaced DeadForgotten
CHECK_DEADLOCK FALSE
