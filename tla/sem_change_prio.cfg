SPECIFICATION Spec
CONSTANTS
  t1 = t1
  t2 = t2
  t3 = t3
  e1 = e1
  e2 = e2
  sem = e1
  Task = {t1, t2}
  Idle = Idle
  Event = {e1}
  NullTcb = NullTcb
  Reserved = Reserved
  NullEvent = NullEvent
  OS_LOWEST_PRIO = 3
  LockMax = 1
  MaxTicks = 1
  CntMax = 2
  InitPrio <- MCInitPrio2
  InitCnt <- MCInitCnt0
  TaskCalls = {"OSSemPend", "OSTaskChangePrio", "OSTaskDel"}
  IsrCalls = {"OSTimeTick"}
INVARIANTS
  WaitersAreTasks
