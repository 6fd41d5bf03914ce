SPECIFICATION Spec
CONSTANTS
  t1 = t1
  t2 = t2
  e1 = e1
  e2 = e2
  block = e1
  Task = {t1, t2}
  Idle = Idle
  Event = {e1, e2}
  NullTcb = NullTcb
  Reserved = Reserved
  NullEvent = NullEvent
  OS_LOWEST_PRIO = 2
  LockMax = 1
  MaxTicks = 1
  Msg = {m1, m2}
  NoMsg = NoMsg
  QSize = 2
  OS_MAX_QS = 1
  InitType <- MCInitType
  PostOpts <- MCPostOpts
  InitPrio <- MCInitPrio
  TaskCalls = {"OSQPend", "OSQPost", "OSQAccept", "OSQFlush", "OSMboxPend", "OSMboxPost", "OSMboxAccept", "OSQCreate", "OSMboxCreate", "OSQDel", "OSMboxDel"}
  IsrCalls = {"OSTimeTick", "OSQPost", "OSMboxPost"}
INVARIANTS
  MsgInv
  NoMessageWhileWaiting
  PoolsExact
  OutrankedOnlyByChoice
PROPERTIES
  ImplementsPrioQueue
