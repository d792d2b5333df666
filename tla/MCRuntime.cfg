CONSTANTS
  r = r
  a = a
  f = f
  m1 = m1
  None = None
  Root = r
  Threads <- MCThreads
  Futures <- MCFutures
  Mutexes <- MCMutexes
CONSTRAINT ShortQueue
SPECIFICATION Spec
INVARIANTS
  TypeOK
  NoPanic
  MutexExclusion
  BlockedForAReason
  RunnableMayGoOn
CHECK_DEADLOCK FALSE
