CONSTANTS
  Producers = {p1, p2}
  Consumers = {c1}
  Values = {v, w}
  Capacity = 2
SPECIFICATION FairSpec
INVARIANTS
  WakeupsOwed
PROPERTIES
  Implements
  DueAnswered
