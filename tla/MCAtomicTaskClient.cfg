CONSTANTS
  c = c
  p1 = p1
  p2 = p2
  k1 = k1
  k2 = k2
  None = None
  Consumer = c
  Rounds = 2
  Total = 4
  Threads <- MCThreads
  Tasks <- MCTasks
SPECIFICATION ClientSpec
INVARIANTS
  NoLostWakeup
  RegistrationStands
PROPERTIES
  ConsumerFinishes
