----------------------------- MODULE UcosKernel -----------------------------
(***************************************************************************)
(* The kernel without its event services: scheduler, interrupts, task and  *)
(* time management together, and what must hold of them.  UcosSem adds the *)
(* semaphores to this module.                                              *)
(***************************************************************************)
EXTENDS UcosTask, UcosTime

KernelStep ==
  \/ OSIntEnter \/ OSTimeTick \/ OSIntExit
  \/ OS_Sched \/ OSSchedLock \/ OSSchedUnlock
  \/ TaskStep \/ TimeStep

KernelSpec == CoreInit /\ [][KernelStep]_coreVars

---------------------------------------------------------------------------
\* Types of the kernel's variables; OSTCBCur in Tcb says that no step switches
\* to a null pointer.
KernelTypeOK ==
  /\ OSRdyTbl \subseteq Prio
  /\ OSTCBPrioTbl \in [Prio -> Tcb \cup {NullTcb, Reserved}]
  /\ OSTCBList \subseteq Tcb /\ OSTCBFreeList \subseteq Task
  /\ OSTCBPrio \in [Tcb -> Prio]
  /\ OSTCBStat \in [Tcb -> SUBSET Stat]
  /\ OSTCBDly \in [Tcb -> Ticks]
  /\ OSTCBPendTO \in [Tcb -> BOOLEAN]
  /\ OSTCBEventPtr \in [Tcb -> Event \cup {NullEvent}]
  /\ OSEventTbl \in [Event -> SUBSET Prio]
  /\ OSTCBCur \in Tcb /\ OSPrioCur \in Prio
  /\ OSLockNesting \in 0 .. LockMax /\ OSIntNesting \in 0 .. 1
  /\ served \in BOOLEAN
  /\ at \in [Tcb -> Label] /\ loc \in [Tcb -> Locals]

\* The TCB that the running task is half-way through deleting.
Deleting(t) == at[OSTCBCur] = "delwin" /\ loc[OSTCBCur].tcb = t

\* The application has mutexes: the owner of one may be at the priority that it
\* inherited, and keeps the entry of its own in OSTCBPrioTbl.
Inherits == "OSMutexPend" \in TaskCalls

\* The list of TCBs, the free list and OSTCBPrioTbl tell the same story: a task
\* in use has its entry, at its priority and nowhere else unless it inherited that,
\* and a free TCB has none (OS_TCBInit, OSTaskDel, OSTaskChangePrio and the mutexes
\* each update all of them).
TablesAgree ==
  /\ OSTCBList \cap OSTCBFreeList = {}
  /\ \A t \in OSTCBList : OSTCBPrioTbl[OSTCBPrio[t]] = t
  /\ \A p \in Prio : HasTcb(p) => /\ OSTCBPrioTbl[p] \in OSTCBList
                                  /\ Inherits \/ OSTCBPrio[OSTCBPrioTbl[p]] = p

\* A task is ready exactly when it waits for nothing: no task is lost by a
\* service, a tick or a resume that comes at the wrong moment, and none runs
\* while it is suspended, delayed or pending.
ReadyIffNotWaiting ==
  \A t \in OSTCBList :
    ~Deleting(t) => (OSTCBPrio[t] \in OSRdyTbl <=> OSTCBStat[t] = {} /\ OSTCBDly[t] = 0)

\* Whatever priority OS_SchedNew picks belongs to a task in use that has it and is
\* not being deleted: the switch never loads a null, a reserved or a dead TCB.
ReadyIsDispatchable ==
  \A p \in OSRdyTbl : /\ HasTcb(p) /\ OSTCBPrio[OSTCBPrioTbl[p]] = p
                      /\ ~Deleting(OSTCBPrioTbl[p])
                      /\ OSTCBPrioTbl[p] \notin OSTCBFreeList

\* The scheduler's promise: with no interrupt and no lock, once the running
\* task is past the OS_Sched of its last service, nothing ready outranks it.
Settled == OSIntNesting = 0 /\ OSLockNesting = 0
           /\ at[OSTCBCur] \notin {"sched", "pendwait"}
RunsHighest == Settled => HighestIn(OSTCBPrio[OSTCBCur], OSRdyTbl)

\* OSTaskResume "is the only call that will remove an explicit task suspension"
\* (os_task.c:833): not a tick, a post, OSTimeDlyResume or a change of priority.
OnlyResumeEndsSuspension ==
  [][\A t \in OSTCBList :
       "SUSPEND" \in OSTCBStat[t] /\ "SUSPEND" \notin OSTCBStat'[t]
         => \/ \E p \in UserPrio : OSTaskResume(p) /\ p = OSTCBPrio[t]
            \/ Deleting(t)']_coreVars

---------------------------------------------------------------------------
\* The rules of use under which the kernel keeps all of the above, for any
\* number of tasks and priorities: interrupt handlers neither suspend tasks nor
\* change priorities (nothing in the code stops them), an application that locks
\* the scheduler does not change priorities, and one that has mutexes makes all its
\* tasks before OSStart and leaves them their priorities (OSTaskDel frees one of an
\* owner's two entries only; note 2 of OSMutexPend).
SafeUse ==
  /\ {"OSTaskSuspend", "OSTaskChangePrio"} \cap IsrCalls = {}
  /\ "OSTaskChangePrio" \notin TaskCalls \/ "OSSchedLock" \notin TaskCalls
  /\ Inherits => {"OSTaskCreate", "OSTaskDel", "OSTaskChangePrio"} \cap TaskCalls = {}

\* A task that suspends itself passes OS_PRIO_SELF: by its own number, while it
\* inherits, OSTaskSuspend would not know it and not schedule (a rule of use).
NamesSelf == "SUSPEND" \in OSTCBStat'[OSTCBCur] \ OSTCBStat[OSTCBCur]
               => at'[OSTCBCur] = "sched"

\* The running task is in use and at OSPrioCur, or it has just deleted itself or
\* changed its priority and OS_Sched is going to see that OSPrioCur is free, or a
\* mutex took back the priority it was switched in at.
CurrentKnown ==
  \/ OSTCBCur \in OSTCBList /\ OSPrioCur = OSTCBPrio[OSTCBCur]
  \/ at[OSTCBCur] = "sched" /\ OSLockNesting = 0 /\ OSTCBPrioTbl[OSPrioCur] = NullTcb
  \/ Inherits /\ OSTCBCur \in OSTCBList /\ ~HasTcb(OSPrioCur)

\* A creation under way owns its reservation and, later, a TCB nobody else has.
Creating(t) == at[t] \in {"tcbinit", "tcblink", "unreserve"}
CreationsApart ==
  /\ \A t \in Tcb : Creating(t) => OSTCBPrioTbl[loc[t].prio] = Reserved /\ ~Inherits
  /\ \A t \in Tcb : at[t] = "tcblink" =>
       /\ loc[t].tcb \notin OSTCBList \cup OSTCBFreeList
       /\ OSTCBPrio[loc[t].tcb] = loc[t].prio
       /\ OSTCBStat[loc[t].tcb] = {} /\ OSTCBDly[loc[t].tcb] = 0
  /\ \A t, u \in Tcb : t # u /\ Creating(t) /\ Creating(u) => loc[t].prio # loc[u].prio

\* A deletion under way holds the scheduler, with the only lock there is if the
\* task deletes itself, and has disabled its victim.
DeletionHolds ==
  \A t \in Tcb : at[t] = "delwin" =>
    /\ "OSTaskDel" \in TaskCalls /\ ~Inherits
    /\ t = OSTCBCur /\ OSLockNesting > 0
    /\ loc[t].tcb = t \/ "OSSchedLock" \notin TaskCalls => OSLockNesting = 1
    /\ OSTCBPrioTbl[loc[t].prio] = loc[t].tcb
    /\ loc[t].tcb # Idle
    /\ OSTCBStat[loc[t].tcb] = {} /\ OSTCBDly[loc[t].tcb] = 0

IdleStays ==
  /\ OSTCBPrio[Idle] = OS_LOWEST_PRIO
  /\ \A p \in Prio : OSTCBPrioTbl[p] = Idle <=> p = OS_LOWEST_PRIO
  /\ at[Idle] = "app"

LockUnused == "OSSchedLock" \notin TaskCalls /\ OSLockNesting > 0 => at[OSTCBCur] = "delwin"

\* What is inductive whatever the services of events do to the scheduler's promise
\* (a post may be made without OS_Sched), and with that promise, where no task
\* inherits a priority.
CoreInv ==
  /\ KernelTypeOK /\ TablesAgree /\ ReadyIffNotWaiting /\ ReadyIsDispatchable
  /\ CurrentKnown /\ CreationsApart /\ DeletionHolds /\ IdleStays /\ LockUnused
KernelInv == CoreInv /\ RunsHighest /\ ~Inherits

---------------------------------------------------------------------------
\* A delay ends, whatever the other tasks and the handlers do meanwhile (given that
\* the timer goes on ticking: Fairness of UcosSem).
DelayIsFinite == \A t \in Task : OSTCBDly[t] > 0 ~> OSTCBDly[t] = 0
=============================================================================
