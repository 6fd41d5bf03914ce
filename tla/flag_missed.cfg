SPECIFICATION Spec
CONSTANTS
  t1 = t1
  t2 = t2
  g1 = g1
  Task = {t1, t2}
  Idle = Idle
  Event = {g1}
  InitFlags = {g1}
  NullTcb = NullTcb
  Reserved = Reserved
  NullEvent = NullEvent
  OS_LOWEST_PRIO = 2
  LockMax = 1
  MaxTicks = 1
  Bit = {1, 2}
  Masks <- MCMasks
  Waits <- MCWaits
  OneSense = FALSE
  InitPrio <- MCInitPrio
  TaskCalls = {"OSFlagPend"}
  IsrCalls = {"OSTimeTick", "OSFlagPost"}
INVARIANTS
  NoMissedFlags
