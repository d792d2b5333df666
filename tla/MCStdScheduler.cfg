CONSTANTS
  Capacity = 3
  Budget = 2
SPECIFICATION FairSpec
INVARIANTS
  NoPanic
  OneRunning
  ReturnsWhenDone
  NeverStuck
PROPERTIES
  RunReturns
