CONSTANTS
  p = p
  u1 = u1
  u2 = u2
  u3 = u3
  None = None
  Parking = p
  Unparkers <- MCUnparkers
SPECIFICATION FairSpec
INVARIANTS
  IInv
  NoPanic
  NoLostWakeup
  SeesUnparkWrites
PROPERTIES
  ImplementsToken
  ParkReturns
