SPECIFICATION Spec
CONSTANTS
  t1 = t1
  t2 = t2
  t3 = t3
  e1 = e1
  e2 = e2
  sem = e1
  Task = {t1, t2, t3}
  Idle = Idle
  Event = {e1}
  NullTcb = NullTcb
  Reserved = Reserved
  NullEvent = NullEvent
  OS_LOWEST_PRIO = 3
  LockMax = 1
  MaxTicks = 1
  CntMax = 2
  InitPrio <- MCInitPrio
  InitCnt <- MCInitCnt
  TaskCalls = {"OSTaskSuspend", "OSTaskResume", "OSSemPend", "OSSemPost", "OSTimeDlyResume"}
  IsrCalls = {"OSTimeTick", "OSSemPost", "OSSemSet", "OSSemAccept"}
INVARIANTS
  SemTypeOK
  WaitListExact
  PendTellsTruth
  SemInv
PROPERTIES
  ImplementsPrioSem
