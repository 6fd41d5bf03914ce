SPECIFICATION Spec
CONSTANTS
  OS_LOWEST_PRIO = 10
  OSUnMapTbl <- MCUnMapTbl
  OS_TICKS_PER_SEC = 200
  Request <- MCRequest
  OSQSize = 3
  Msg = {m1, m2, m3, m4}
  Junk = Junk
  Outranks = TRUE
  OSMemNBlks = 3
  Null = Null
  Data = {0, 1, 2, 3}
  Node = {n1, n2, n3}
  NullNode = NullNode
  Window = 20
  PerTick = 500
  Share = {0, 250, 500}
  Before = {0, 17, 40}
CHECK_DEADLOCK FALSE
INVARIANTS
  GroupExact
  RoundedToNearest
  ResumeCutsOnePart
  UsageRight
PROPERTIES
  ImplementsPrioSet
  ImplementsMsgBuffer
  SentOnce
  ImplementsBlockPool
  ImplementsWaitSet
