SPECIFICATION Spec
CONSTANTS
  t1 = t1
  t2 = t2
  t3 = t3
  m1 = m1
  mutex = m1
  Task = {t1, t2, t3}
  Idle = Idle
  Event = {m1}
  NullTcb = NullTcb
  Reserved = Reserved
  NullEvent = NullEvent
  OS_LOWEST_PRIO = 4
  LockMax = 1
  MaxTicks = 1
  DelRule = TRUE
  Pips = {0}
  InitPrio <- MCInitPrio
  TaskCalls = {"OSMutexCreate", "OSMutexPend", "OSMutexPost", "OSMutexAccept", "OSTaskSuspend", "OSTimeDly", "OSMutexDel", "OSMutexDelAlways"}
  IsrCalls = {"OSTimeTick", "OSTaskResume", "OSTimeDlyResume"}
INVARIANTS
  MutexInv
  MutualExclusion
  NoInversion
  PriorityGivenBack
  OutrankedOnlyAfterPost
  ReadyIsDispatchable
PROPERTIES
  ImplementsPrioLock
