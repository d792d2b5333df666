CONSTANTS
  MaxThreads = 3
  None = None
  AX = AX
  AY = AY
  MU = MU
  MV = MV
  CE = CE
  Atomics = {AX, AY}
  Cells = {CE}
  Mutexes = {MU, MV}
  Programs <- MCPrograms
  Interval = 2
  MaxCrashes = 1
SPECIFICATION Spec
INVARIANTS TypeOK ReplayFits NoExecutionTwice NothingSkipped Exhaustive LoadsAreAllowed RacesAreReal
PROPERTY SearchEnds
CHECK_DEADLOCK FALSE
