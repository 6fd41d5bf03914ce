SPECIFICATION FairSpec
CONSTANTS
  t1 = t1
  t2 = t2
  t3 = t3
  e1 = e1
  e2 = e2
  sem = e1
  Task = {t1, t2}
  Idle = Idle
  Event = {e1}
  NullTcb = NullTcb
  Reserved = Reserved
  NullEvent = NullEvent
  OS_LOWEST_PRIO = 2
  LockMax = 1
  MaxTicks = 1
  CntMax = 1
  InitPrio <- MCInitPrio2
  InitCnt <- MCInitCnt
  TaskCalls = {"OSSemPend", "OSSemPost", "OSTimeDly", "OSTaskSuspend", "OSTaskResume", "OSSemAccept", "OSSemSet", "OSSemDel", "OSSemDelAlways", "OSSemCreate"}
  IsrCalls = {"OSTimeTick", "OSSemPost", "OSTaskResume"}
INVARIANTS
  NoUnitWhileWaiting
  ReadyIffNotWaiting
PROPERTIES
  TimedPendReturns
  DelayIsFinite
