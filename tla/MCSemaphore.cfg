CONSTANTS
  a1 = a1
  a2 = a2
  a3 = a3
  x1 = x1
  x2 = x2
  x3 = x3
  Stub = Stub
  Null = Null
  Actors <- MCActors
  Nodes <- MCNodes
  Heap <- MCOwnNode
  Permits = 1
  MayDrop = FALSE
  MaxCancels = 0
  Repolls = FALSE
  DebugAsserts = TRUE
SPECIFICATION FairSpec
INVARIANTS
  GrantIsAnnounced
PROPERTIES
  WaiterServed
