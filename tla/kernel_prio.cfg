SPECIFICATION KernelSpec
CONSTANTS
  t1 = t1
  t2 = t2
  t3 = t3
  Task = {t1, t2, t3}
  Idle = Idle
  Event = {}
  NullTcb = NullTcb
  Reserved = Reserved
  NullEvent = NullEvent
  OS_LOWEST_PRIO = 4
  LockMax = 2
  MaxTicks = 1
  InitPrio <- MCInitPrio
  TaskCalls = {"OSTaskCreate", "OSTaskDel", "OSTaskSuspend", "OSTaskResume", "OSTaskChangePrio", "OSTimeDly"}
  IsrCalls = {"OSTimeTick"}
INVARIANTS
  TablesAgree
  KernelInv
