------------------------------ MODULE UcosCore ------------------------------
(***************************************************************************)
(* The core of uC/OS-II V2.83 as this port builds it (os_core.c, with the  *)
(* context switch and interrupt entry of arm/Os_cpu_a.S): TCBs, the ready  *)
(* table, the table of tasks by priority, event wait lists, the scheduler, *)
(* the scheduler lock and the timer interrupt.                             *)
(*                                                                         *)
(* One step is one OS_ENTER_CRITICAL ... OS_EXIT_CRITICAL region: CPSR is  *)
(* saved and interrupts masked there, so nothing interleaves inside one,   *)
(* and an interrupt may come between any two.  A priority bitmap           *)
(* (OSRdyGrp/OSRdyTbl, OSEventGrp/OSEventTbl) is the set of its priorities *)
(* here; UcosBitmap shows that the bitmaps implement that set.             *)
(***************************************************************************)
EXTENDS Naturals, FiniteSets

CONSTANTS
  Task,            \* the TCBs of OSTCBTbl, the idle task's excepted
  Idle,            \* the TCB of OS_TaskIdle
  Event,           \* the event control blocks of OSEventTbl
  NullTcb,         \* (OS_TCB *)0
  Reserved,        \* (OS_TCB *)1: a priority taken, but by no task
  NullEvent,       \* (OS_EVENT *)0, and the null pointer of OSEventPtr
  OS_LOWEST_PRIO,  \* the idle task's priority
  LockMax,         \* where OSLockNesting saturates: 255 in the code
  MaxTicks,        \* bound: the longest delay or timeout asked for
  InitPrio,        \* the tasks created before OSStart, with their priorities
  TaskCalls,       \* the services the application's tasks call, by name
  IsrCalls         \* the services its interrupt handlers call, by name

Tcb == Task \cup {Idle}
Prio == 0 .. OS_LOWEST_PRIO
Ticks == 0 .. MaxTicks

ASSUME CoreAssumption ==
  /\ Idle \notin Task
  /\ NullTcb \notin Tcb /\ Reserved \notin Tcb /\ NullTcb # Reserved
  /\ NullEvent \notin Event
  /\ OS_LOWEST_PRIO \in Nat /\ LockMax \in Nat \ {0} /\ MaxTicks \in Nat
  /\ DOMAIN InitPrio \subseteq Task
  /\ \A t \in DOMAIN InitPrio : /\ InitPrio[t] \in Prio \ {OS_LOWEST_PRIO}
                                /\ \A u \in DOMAIN InitPrio :
                                     InitPrio[t] = InitPrio[u] => t = u

VARIABLES
  OSRdyTbl,        \* the priorities that are ready
  OSTCBPrioTbl,    \* the task of each priority
  OSTCBList,       \* the TCBs in use
  OSTCBFreeList,   \* the TCBs free for a new task
  OSTCBPrio, OSTCBStat, OSTCBDly, OSTCBPendTO, OSTCBEventPtr,
  OSEventTbl,      \* the priorities waiting for each event
  OSTCBCur,        \* the running (or interrupted) task
  OSPrioCur,       \* the priority it was switched in at
  OSLockNesting, OSIntNesting,
  served,          \* the interrupt handler has made its call
  at,              \* where each task stands between two critical regions
  loc              \* the locals live at that point

tcbVars == <<OSTCBPrio, OSTCBStat, OSTCBDly, OSTCBPendTO, OSTCBEventPtr>>
tblVars == <<OSTCBPrioTbl, OSTCBList, OSTCBFreeList>>
cpuVars == <<OSTCBCur, OSPrioCur, OSIntNesting>>
coreVars == <<OSRdyTbl, OSEventTbl, OSLockNesting, served, at, loc,
              tcbVars, tblVars, cpuVars>>

---------------------------------------------------------------------------
\* Points of a task between two critical regions: in application code, at the
\* call of OS_Sched that ends a service, and inside the services that have
\* more than one region (the module of the service says which line each one is).
Label == {"app", "sched", "tcbinit", "tcblink", "unreserve", "delwin",
          "create", "take", "qinit", "pend", "pendwait", "pendwake", "post",
          "accept", "set", "flush", "del", "delalways"}
Locals == [prio : Prio, tcb : Tcb, ev : Event \cup {NullEvent}, arg : Ticks]
NoLocals == [prio |-> OS_LOWEST_PRIO, tcb |-> Idle, ev |-> NullEvent, arg |-> 0]

\* OSTCBStat: OS_STAT_SUSPEND and the events a task pends on (OS_STAT_PEND_ANY).
PendAny == {"SEM", "MBOX", "Q", "MUTEX", "FLAG"}
Stat == PendAny \cup {"SUSPEND"}

CoreInit ==
  LET used == DOMAIN InitPrio
      prio == [t \in Tcb |-> IF t \in used THEN InitPrio[t] ELSE OS_LOWEST_PRIO]
  IN  /\ OSTCBList = used \cup {Idle}
      /\ OSTCBFreeList = Task \ used
      /\ OSTCBPrio = prio
      /\ OSTCBPrioTbl = [p \in Prio |-> IF \E t \in OSTCBList : prio[t] = p
                                        THEN CHOOSE t \in OSTCBList : prio[t] = p
                                        ELSE NullTcb]
      /\ OSRdyTbl = {prio[t] : t \in OSTCBList}
      /\ OSTCBStat = [t \in Tcb |-> {}]
      /\ OSTCBDly = [t \in Tcb |-> 0]
      /\ OSTCBPendTO = [t \in Tcb |-> FALSE]
      /\ OSTCBEventPtr = [t \in Tcb |-> NullEvent]
      /\ OSEventTbl = [e \in Event |-> {}]
      /\ OSPrioCur \in OSRdyTbl /\ \A p \in OSRdyTbl : OSPrioCur <= p  \* OSStart
      /\ OSTCBCur = OSTCBPrioTbl[OSPrioCur]
      /\ OSLockNesting = 0 /\ OSIntNesting = 0 /\ served = FALSE
      /\ at = [t \in Tcb |-> "app"]
      /\ loc = [t \in Tcb |-> NoLocals]

---------------------------------------------------------------------------
\* Who may call a service: the running task, from application code, or an
\* interrupt handler that has not made its call yet.  The idle task calls none.
TaskCall(s) == /\ OSIntNesting = 0 /\ s \in TaskCalls
               /\ OSTCBCur # Idle /\ at[OSTCBCur] = "app"
IsrCall(s) == OSIntNesting > 0 /\ s \in IsrCalls /\ ~served
Call(s) == TaskCall(s) \/ IsrCall(s)

\* The running task stands at label l of a service.
InTask(l) == OSIntNesting = 0 /\ at[OSTCBCur] = l

\* The region ends and control goes to l; in a handler it goes back to it.
Goto(l) == IF OSIntNesting = 0
           THEN at' = [at EXCEPT ![OSTCBCur] = l] /\ UNCHANGED served
           ELSE served' = TRUE /\ UNCHANGED at
Keep(l) == loc' = [loc EXCEPT ![OSTCBCur] = l]

\* The service is done: its locals are gone.
Return(l) == /\ Goto(l)
             /\ IF OSIntNesting = 0 THEN Keep(NoLocals) ELSE UNCHANGED loc

\* The delete services "must be used with care" (note 1 of each): no other task is
\* inside a service of the block, except the ones that wait (a rule of use; UcosSem
\* goes without it).
Apart(e) == \A t \in Tcb \ {OSTCBCur} :
  at[t] \in {"pend", "post", "accept", "flush", "del", "delalways"} => loc[t].ev # e

\* OSTCBPrioTbl[p], where it is neither 0 nor 1.
HasTcb(p) == OSTCBPrioTbl[p] \notin {NullTcb, Reserved}

---------------------------------------------------------------------------
\* OS_SchedNew and the switch: HPT becomes current unless OSPrioCur is its own.
HighestIn(p, S) == p \in S /\ \A q \in S : p <= q
Dispatch ==
  \E p \in OSRdyTbl :
    /\ HighestIn(p, OSRdyTbl)
    /\ IF p # OSPrioCur
       THEN OSTCBCur' = OSTCBPrioTbl[p] /\ OSPrioCur' = p
       ELSE UNCHANGED <<OSTCBCur, OSPrioCur>>

\* OS_Sched, at the end of a service or in the middle of a pend.
OS_Sched ==
  /\ OSIntNesting = 0
  /\ \/ InTask("sched") /\ at' = [at EXCEPT ![OSTCBCur] = "app"]
     \/ InTask("pendwait") /\ at' = [at EXCEPT ![OSTCBCur] = "pendwake"]
  /\ IF OSLockNesting = 0 THEN Dispatch ELSE UNCHANGED <<OSTCBCur, OSPrioCur>>
  /\ UNCHANGED <<OSRdyTbl, OSEventTbl, OSLockNesting, OSIntNesting, served, loc,
                 tcbVars, tblVars>>

OSSchedLock ==
  /\ TaskCall("OSSchedLock") /\ OSLockNesting < LockMax
  /\ OSLockNesting' = OSLockNesting + 1
  /\ UNCHANGED <<OSRdyTbl, OSEventTbl, served, at, loc, tcbVars, tblVars, cpuVars>>

\* Mutant: the nesting level is decremented even where it is 0 already.
OSSchedUnlock_NoCheck ==
  /\ TaskCall("OSSchedLock")
  /\ OSLockNesting' = IF OSLockNesting > 0 THEN OSLockNesting - 1 ELSE 255
  /\ IF OSLockNesting = 1 THEN Goto("sched") ELSE Goto("app")
  /\ UNCHANGED <<OSRdyTbl, OSEventTbl, loc, tcbVars, tblVars, cpuVars>>

\* Mutant: the last unlock does not call the scheduler.
OSSchedUnlock_NoSched ==
  /\ TaskCall("OSSchedLock") /\ OSLockNesting > 0
  /\ OSLockNesting' = OSLockNesting - 1
  /\ Goto("app")
  /\ UNCHANGED <<OSRdyTbl, OSEventTbl, loc, tcbVars, tblVars, cpuVars>>

OSSchedUnlock ==
  /\ TaskCall("OSSchedLock") /\ OSLockNesting > 0
  /\ OSLockNesting' = OSLockNesting - 1
  /\ IF OSLockNesting = 1 THEN Goto("sched") ELSE Goto("app")
  /\ UNCHANGED <<OSRdyTbl, OSEventTbl, loc, tcbVars, tblVars, cpuVars>>

---------------------------------------------------------------------------
\* OS_CPU_IRQ_ISR: interrupts stay masked until OSIntExit, so it never nests.
OSIntEnter ==
  /\ OSIntNesting = 0
  /\ OSIntNesting' = OSIntNesting + 1
  /\ UNCHANGED <<OSRdyTbl, OSEventTbl, OSLockNesting, OSTCBCur, OSPrioCur, served,
                 at, loc, tcbVars, tblVars>>

OSIntExit ==
  /\ OSIntNesting > 0
  /\ OSIntNesting' = OSIntNesting - 1
  /\ served' = FALSE
  /\ IF OSLockNesting = 0 THEN Dispatch ELSE UNCHANGED <<OSTCBCur, OSPrioCur>>
  /\ UNCHANGED <<OSRdyTbl, OSEventTbl, OSLockNesting, at, loc, tcbVars, tblVars>>

\* The TCBs whose delay or timeout is running; OSTimeTick stops at the idle task.
\* Mutant: only the tasks that wait for nothing else are counted down.
Delayed_Ready == {t \in OSTCBList \ {Idle} : OSTCBDly[t] # 0 /\ OSTCBStat[t] = {}}
Delayed == {t \in OSTCBList \ {Idle} : OSTCBDly[t] # 0}

\* Mutant: the end of a delay clears all of OSTCBStat, a suspension included.
DelayEnds_Clear(T) ==
  /\ OSTCBPendTO' = [t \in Tcb |-> IF t \in T THEN OSTCBStat[t] \cap PendAny # {}
                                   ELSE OSTCBPendTO[t]]
  /\ OSTCBStat' = [t \in Tcb |-> IF t \in T THEN {} ELSE OSTCBStat[t]]
  /\ OSRdyTbl' = OSRdyTbl \cup {OSTCBPrio[t] : t \in T}

\* A TCB's delay ends, by the tick or by OSTimeDlyResume: a pend is marked timed
\* out, and the task is ready unless it is suspended.  T are the TCBs it ends for.
DelayEnds(T) ==
  /\ OSTCBPendTO' = [t \in Tcb |-> IF t \in T THEN OSTCBStat[t] \cap PendAny # {}
                                   ELSE OSTCBPendTO[t]]
  /\ OSTCBStat' = [t \in Tcb |-> IF t \in T THEN OSTCBStat[t] \ PendAny
                                 ELSE OSTCBStat[t]]
  /\ OSRdyTbl' = OSRdyTbl \cup {OSTCBPrio[t] : t \in {u \in T : "SUSPEND" \notin OSTCBStat[u]}}

OSTimeTick ==
  /\ IsrCall("OSTimeTick")
  /\ OSTCBDly' = [t \in Tcb |-> IF t \in Delayed THEN OSTCBDly[t] - 1 ELSE OSTCBDly[t]]
  /\ DelayEnds({t \in Delayed : OSTCBDly[t] = 1})
  /\ served' = TRUE
  /\ UNCHANGED <<OSTCBPrio, OSTCBEventPtr, OSEventTbl, OSLockNesting, at, loc,
                 tblVars, cpuVars>>

---------------------------------------------------------------------------
\* The event wait lists, as the event services use them.

\* OS_EventTaskWait: the running task leaves the ready table for e's list.
OS_EventTaskWait(e) ==
  /\ OSTCBEventPtr' = [OSTCBEventPtr EXCEPT ![OSTCBCur] = e]
  /\ OSRdyTbl' = OSRdyTbl \ {OSTCBPrio[OSTCBCur]}
  /\ OSEventTbl' = [OSEventTbl EXCEPT ![e] = @ \cup {OSTCBPrio[OSTCBCur]}]

\* Mutants: the timeout keeps running; a timeout that came first still counts.
EventTaskRdy_Dly(S, e, P, msk) ==
  LET woken == {OSTCBPrioTbl[p] : p \in P}
  IN  /\ OSEventTbl' = [OSEventTbl EXCEPT ![e] = @ \ P]
      /\ OSTCBEventPtr' = [t \in Tcb |-> IF t \in woken THEN NullEvent ELSE OSTCBEventPtr[t]]
      /\ OSTCBPendTO' = [t \in Tcb |-> IF t \in woken THEN FALSE ELSE OSTCBPendTO[t]]
      /\ OSTCBStat' = [t \in Tcb |-> IF t \in woken THEN OSTCBStat[t] \ {msk} ELSE OSTCBStat[t]]
      /\ OSRdyTbl' = S \cup {p \in P : OSTCBStat[OSTCBPrioTbl[p]] \subseteq {msk}}
      /\ UNCHANGED OSTCBDly
EventTaskRdy_PendTO(S, e, P, msk) ==
  LET woken == {OSTCBPrioTbl[p] : p \in P}
  IN  /\ OSEventTbl' = [OSEventTbl EXCEPT ![e] = @ \ P]
      /\ OSTCBDly' = [t \in Tcb |-> IF t \in woken THEN 0 ELSE OSTCBDly[t]]
      /\ OSTCBEventPtr' = [t \in Tcb |-> IF t \in woken THEN NullEvent ELSE OSTCBEventPtr[t]]
      /\ OSTCBStat' = [t \in Tcb |-> IF t \in woken THEN OSTCBStat[t] \ {msk} ELSE OSTCBStat[t]]
      /\ OSRdyTbl' = S \cup {p \in P : OSTCBStat[OSTCBPrioTbl[p]] \subseteq {msk}}
      /\ UNCHANGED OSTCBPendTO

\* OS_EventTaskRdy, for each priority of P: the wait ends, and a task that waits
\* for nothing else is ready.  A post passes the highest; a delete, all of them.
\* S is the ready table as the caller has left it.
EventTaskRdy(S, e, P, msk) ==
  LET woken == {OSTCBPrioTbl[p] : p \in P}
  IN  /\ OSEventTbl' = [OSEventTbl EXCEPT ![e] = @ \ P]
      /\ OSTCBDly' = [t \in Tcb |-> IF t \in woken THEN 0 ELSE OSTCBDly[t]]
      /\ OSTCBEventPtr' = [t \in Tcb |-> IF t \in woken THEN NullEvent ELSE OSTCBEventPtr[t]]
      /\ OSTCBPendTO' = [t \in Tcb |-> IF t \in woken THEN FALSE ELSE OSTCBPendTO[t]]
      /\ OSTCBStat' = [t \in Tcb |-> IF t \in woken THEN OSTCBStat[t] \ {msk} ELSE OSTCBStat[t]]
      /\ OSRdyTbl' = S \cup {p \in P : OSTCBStat[OSTCBPrioTbl[p]] \subseteq {msk}}
OS_EventTaskRdy(e, P, msk) == EventTaskRdy(OSRdyTbl, e, P, msk) /\ UNCHANGED OSTCBPrio

\* Mutant: the task stays in the wait list after its timeout.
OS_EventTO_Listed(e) ==
  /\ OSTCBPendTO' = [OSTCBPendTO EXCEPT ![OSTCBCur] = FALSE]
  /\ OSTCBStat' = [OSTCBStat EXCEPT ![OSTCBCur] = {}]
  /\ OSTCBEventPtr' = [OSTCBEventPtr EXCEPT ![OSTCBCur] = NullEvent]
  /\ UNCHANGED OSEventTbl

\* OS_EventTO: the running task's wait timed out.
OS_EventTO(e) ==
  /\ OSEventTbl' = [OSEventTbl EXCEPT ![e] = @ \ {OSTCBPrio[OSTCBCur]}]
  /\ OSTCBPendTO' = [OSTCBPendTO EXCEPT ![OSTCBCur] = FALSE]
  /\ OSTCBStat' = [OSTCBStat EXCEPT ![OSTCBCur] = {}]
  /\ OSTCBEventPtr' = [OSTCBEventPtr EXCEPT ![OSTCBCur] = NullEvent]
=============================================================================
