CONSTANTS
  None = None
  Root = r
  Threads = {r, f}
  Futures = {f}
  Mutexes = {}
SPECIFICATION ToldSpec
INVARIANT NotifiedPollsAgain
CHECK_DEADLOCK FALSE
