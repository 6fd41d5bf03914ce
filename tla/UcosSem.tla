------------------------------ MODULE UcosSem ------------------------------
(***************************************************************************)
(* Counting semaphores (os_sem.c) on the kernel.                           *)
(***************************************************************************)
EXTENDS UcosEvent

CONSTANTS
  CntMax,          \* the largest count: 65535 in the code
  InitCnt          \* the semaphores created before OSStart, with their counts

ASSUME SemAssumption ==
  /\ IsFiniteSet(Event)
  /\ CntMax \in Nat
  /\ DOMAIN InitCnt \subseteq Event
  /\ \A e \in DOMAIN InitCnt : InitCnt[e] \in 0 .. CntMax

VARIABLES
  err,             \* what each task's last OSSemPend told it
  given            \* history: that pend was given a unit of the count

semVars == <<ecbVars, err, given>>
vars == <<coreVars, semVars>>

SemInit ==
  /\ CoreInit /\ EventInit([e \in DOMAIN InitCnt |-> "SEM"], InitCnt)
  /\ err = [t \in Tcb |-> "none"]
  /\ given = [t \in Tcb |-> FALSE]

---------------------------------------------------------------------------
\* OSSemPend: no pend in a handler or under the scheduler lock.
OSSemPend(e, n) ==
  /\ OSLockNesting = 0
  /\ Check("OSSemPend", "SEM", e, "pend", n)
  /\ err' = [err EXCEPT ![OSTCBCur] = "none"]
  /\ given' = [given EXCEPT ![OSTCBCur] = FALSE]

OSSemPend_Take ==
  /\ InTask("pend")
  /\ LET e == loc[OSTCBCur].ev
     IN OSEventCnt[e] > 0 /\ OSEventCnt' = [OSEventCnt EXCEPT ![e] = @ - 1]
  /\ err' = [err EXCEPT ![OSTCBCur] = "OS_NO_ERR"]
  /\ given' = [given EXCEPT ![OSTCBCur] = TRUE]
  /\ Return("app")
  /\ UNCHANGED <<OSRdyTbl, OSEventTbl, OSLockNesting, tcbVars, tblVars, cpuVars,
                 OSEventType, OSEventPtr, OSEventFreeList>>

OSSemPend_Wait ==
  /\ InTask("pend")
  /\ LET e == loc[OSTCBCur].ev
     IN OSEventCnt[e] = 0 /\ PendWait(e, "SEM", loc[OSTCBCur].arg)
  /\ UNCHANGED <<OSTCBPrio, OSLockNesting, loc, tblVars, cpuVars, semVars>>

\* Back from OS_Sched: timed out, or (as far as the code can tell) served.
OSSemPend_Timeout ==
  /\ InTask("pendwake") /\ OSTCBPendTO[OSTCBCur]
  /\ OS_EventTO(loc[OSTCBCur].ev)
  /\ err' = [err EXCEPT ![OSTCBCur] = "OS_TIMEOUT"]
  /\ Return("app")
  /\ UNCHANGED <<OSRdyTbl, OSLockNesting, OSTCBPrio, OSTCBDly, tblVars, cpuVars,
                 ecbVars, given>>

OSSemPend_Done ==
  /\ InTask("pendwake") /\ ~OSTCBPendTO[OSTCBCur]
  /\ OSTCBEventPtr' = [OSTCBEventPtr EXCEPT ![OSTCBCur] = NullEvent]
  /\ err' = [err EXCEPT ![OSTCBCur] = "OS_NO_ERR"]
  /\ Return("app")
  /\ UNCHANGED <<OSRdyTbl, OSEventTbl, OSLockNesting, OSTCBPrio, OSTCBStat, OSTCBDly,
                 OSTCBPendTO, tblVars, cpuVars, ecbVars, given>>

---------------------------------------------------------------------------
\* Mutants: the served task is not scheduled; a task of any priority is served.
OSSemPost_Serve_NoSched(e) ==
  /\ Runs("OSSemPost", "SEM", e, "post")
  /\ \E p \in OSEventTbl[e] :
       /\ HighestIn(p, OSEventTbl[e])
       /\ OS_EventTaskRdy(e, {p}, "SEM")
       /\ given' = [given EXCEPT ![OSTCBPrioTbl[p]] = TRUE]
  /\ Return("app")
  /\ UNCHANGED <<OSLockNesting, tblVars, cpuVars, ecbVars, err>>
OSSemPost_Serve_Any(e) ==
  /\ Runs("OSSemPost", "SEM", e, "post")
  /\ \E p \in OSEventTbl[e] :
       /\ OS_EventTaskRdy(e, {p}, "SEM")
       /\ given' = [given EXCEPT ![OSTCBPrioTbl[p]] = TRUE]
  /\ Return("sched")
  /\ UNCHANGED <<OSLockNesting, tblVars, cpuVars, ecbVars, err>>

\* OSSemPost: the highest-priority waiter is served, or the count goes up, or it
\* is at its limit already (OS_SEM_OVF).
OSSemPost_Serve(e) ==
  /\ Runs("OSSemPost", "SEM", e, "post")
  /\ \E p \in OSEventTbl[e] :
       /\ HighestIn(p, OSEventTbl[e])
       /\ OS_EventTaskRdy(e, {p}, "SEM")
       /\ given' = [given EXCEPT ![OSTCBPrioTbl[p]] = TRUE]
  /\ Return("sched")
  /\ UNCHANGED <<OSLockNesting, tblVars, cpuVars, ecbVars, err>>

\* Mutant: the count passes its limit.
OSSemPost_Count_NoLimit(e) ==
  /\ Runs("OSSemPost", "SEM", e, "post") /\ OSEventTbl[e] = {}
  /\ OSEventCnt' = [OSEventCnt EXCEPT ![e] = @ + 1]
  /\ Return("app")
  /\ UNCHANGED <<OSRdyTbl, OSEventTbl, OSLockNesting, tcbVars, tblVars, cpuVars,
                 OSEventType, OSEventPtr, OSEventFreeList, err, given>>

OSSemPost_Count(e) ==
  /\ Runs("OSSemPost", "SEM", e, "post") /\ OSEventTbl[e] = {}
  /\ OSEventCnt' = [OSEventCnt EXCEPT ![e] = IF @ < CntMax THEN @ + 1 ELSE @]
  /\ Return("app")
  /\ UNCHANGED <<OSRdyTbl, OSEventTbl, OSLockNesting, tcbVars, tblVars, cpuVars,
                 OSEventType, OSEventPtr, OSEventFreeList, err, given>>

OSSemAccept(e) ==
  /\ Runs("OSSemAccept", "SEM", e, "accept")
  /\ OSEventCnt' = [OSEventCnt EXCEPT ![e] = IF @ > 0 THEN @ - 1 ELSE @]
  /\ Return("app")
  /\ UNCHANGED <<OSRdyTbl, OSEventTbl, OSLockNesting, tcbVars, tblVars, cpuVars,
                 OSEventType, OSEventPtr, OSEventFreeList, err, given>>

\* The counts a caller asks for (bound: the locals hold them beside delays).
Counts == Ticks \cap 0 .. CntMax

\* OSSemSet: refused (OS_ERR_TASK_WAITING) when the count is 0 and tasks wait.
OSSemSet(e, n) ==
  /\ Runs("OSSemSet", "SEM", e, "set") /\ (InTask("set") => loc[OSTCBCur].arg = n)
  /\ OSEventCnt' = [OSEventCnt EXCEPT ![e] =
       IF @ > 0 \/ OSEventTbl[e] = {} THEN n ELSE @]
  /\ Return("app")
  /\ UNCHANGED <<OSRdyTbl, OSEventTbl, OSLockNesting, tcbVars, tblVars, cpuVars,
                 OSEventType, OSEventPtr, OSEventFreeList, err, given>>

---------------------------------------------------------------------------
\* OSSemCreate: a block leaves the free list; it is initialised afterwards, with
\* interrupts enabled, and only then does the caller get to know it.
OSSemCreate(n) ==
  /\ TaskCall("OSSemCreate") /\ TakeEvent
  /\ Goto("create") /\ Keep([NoLocals EXCEPT !.ev = OSEventFreeList, !.arg = n])
  /\ UNCHANGED <<OSRdyTbl, OSEventTbl, OSLockNesting, tcbVars, tblVars, cpuVars,
                 OSEventType, OSEventCnt, OSEventPtr, err, given>>

\* Mutant: the wait list is not initialised.
OSSemCreate_Init_NoList ==
  /\ InTask("create")
  /\ LET e == loc[OSTCBCur].ev
     IN  /\ OSEventType' = [OSEventType EXCEPT ![e] = "SEM"]
         /\ OSEventCnt' = [OSEventCnt EXCEPT ![e] = loc[OSTCBCur].arg]
         /\ OSEventPtr' = [OSEventPtr EXCEPT ![e] = NullEvent]
  /\ Return("app")
  /\ UNCHANGED <<OSRdyTbl, OSEventTbl, OSLockNesting, tcbVars, tblVars, cpuVars,
                 OSEventFreeList, err, given>>

OSSemCreate_Init ==
  /\ InTask("create")
  /\ LET e == loc[OSTCBCur].ev
     IN  /\ OSEventType' = [OSEventType EXCEPT ![e] = "SEM"]
         /\ OSEventCnt' = [OSEventCnt EXCEPT ![e] = loc[OSTCBCur].arg]
         /\ OSEventPtr' = [OSEventPtr EXCEPT ![e] = NullEvent]
         /\ OSEventTbl' = [OSEventTbl EXCEPT ![e] = {}]   \* OS_EventWaitListInit
  /\ Return("app")
  /\ UNCHANGED <<OSRdyTbl, OSLockNesting, tcbVars, tblVars, cpuVars, OSEventFreeList,
                 err, given>>

OSSemDel_NoPend(e) ==
  /\ InTask("del") /\ loc[OSTCBCur].ev = e
  /\ IF OSEventTbl[e] = {} THEN FreeEvent(e) ELSE UNCHANGED ecbVars
  /\ Return("app")
  /\ UNCHANGED <<OSRdyTbl, OSEventTbl, OSLockNesting, tcbVars, tblVars, cpuVars, err, given>>

OSSemDel_Always(e) ==
  /\ InTask("delalways") /\ loc[OSTCBCur].ev = e
  /\ OS_EventTaskRdy(e, OSEventTbl[e], "SEM")
  /\ FreeEvent(e)
  /\ IF OSEventTbl[e] = {} THEN Return("app") ELSE Return("sched")
  /\ UNCHANGED <<OSLockNesting, tblVars, cpuVars, err, given>>

---------------------------------------------------------------------------
PendStep ==
  \/ OSSemPend_Take \/ OSSemPend_Wait \/ OSSemPend_Timeout \/ OSSemPend_Done

SemStep ==
  \/ PendStep
  \/ OSSemCreate_Init
  \/ \E n \in Counts : OSSemCreate(n)
  \/ \E e \in Event :
       \/ \E n \in Ticks : OSSemPend(e, n)
       \/ Check("OSSemPost", "SEM", e, "post", 0) /\ UNCHANGED <<err, given>>
       \/ OSSemPost_Serve(e) \/ OSSemPost_Count(e)
       \/ Check("OSSemAccept", "SEM", e, "accept", 0) /\ UNCHANGED <<err, given>>
       \/ OSSemAccept(e)
       \/ \E n \in Counts : \/ Check("OSSemSet", "SEM", e, "set", n) /\ UNCHANGED <<err, given>>
                           \/ OSSemSet(e, n)
       \/ Check("OSSemDel", "SEM", e, "del", 0) /\ UNCHANGED <<err, given>>
       \/ OSSemDel_NoPend(e)
       \/ Check("OSSemDelAlways", "SEM", e, "delalways", 0) /\ UNCHANGED <<err, given>>
       \/ OSSemDel_Always(e)

Next == SemStep \/ (KernelStep /\ UNCHANGED semVars)

Spec == SemInit /\ [][Next]_vars

---------------------------------------------------------------------------
\* Types of the semaphores' own variables.
SemTypeOK ==
  /\ KernelTypeOK
  /\ OSEventType \in [Event -> {"SEM", "UNUSED"}]
  /\ OSEventCnt \in [Event -> 0 .. CntMax]
  /\ OSEventPtr \in [Event -> Event \cup {NullEvent}]
  /\ OSEventFreeList \in Event \cup {NullEvent}
  /\ err \in [Tcb -> {"none", "OS_NO_ERR", "OS_TIMEOUT"}]
  /\ given \in [Tcb -> BOOLEAN]

\* No lost wakeup: units are never left in the count while a task waits for one.
NoUnitWhileWaiting == \A e \in Event : OSEventCnt[e] > 0 => OSEventTbl[e] = {}

\* OSSemPend tells the truth: OS_NO_ERR to a task that was given a unit, and
\* OS_TIMEOUT only to one that was not, however post, tick and the task's own
\* return from OS_Sched interleave (no unit is swallowed by a timeout).
PendTellsTruth ==
  \A t \in Tcb : /\ err[t] = "OS_NO_ERR" => given[t]
                 /\ err[t] = "OS_TIMEOUT" => ~given[t]

---------------------------------------------------------------------------
\* The rules of use under which all of the above holds, for any number of tasks,
\* semaphores and units: the kernel's, no change of priority (it may leave a phantom
\* in a wait list), by inheritance neither, and semaphores made before OSStart that
\* nobody deletes.
SemSafeUse ==
  /\ SafeUse /\ ~Inherits /\ "OSTaskChangePrio" \notin TaskCalls
  /\ {"OSSemCreate", "OSSemDel", "OSSemDelAlways"} \cap TaskCalls = {}

\* OSTCBEventPtr is set exactly while a task waits or has timed out unnoticed, and
\* then it points to the semaphore the task is inside OSSemPend for; without it,
\* such a task has been given a unit.
PendExact ==
  \A t \in OSTCBList : ~Deleting(t) =>
    /\ OSTCBStat[t] \subseteq {"SEM", "SUSPEND"}
    /\ OSTCBEventPtr[t] # NullEvent <=> OSTCBPendTO[t] \/ "SEM" \in OSTCBStat[t]
    /\ OSTCBEventPtr[t] # NullEvent => Pending(t) /\ loc[t].ev = OSTCBEventPtr[t]
    /\ OSTCBPendTO[t] => OSTCBDly[t] = 0
    /\ Pending(t) => (given[t] <=> OSTCBEventPtr[t] = NullEvent) /\ err[t] = "none"
    /\ at[t] = "pend" => ~given[t] /\ err[t] = "none" /\ loc[t].ev \in Event

\* Outside OSTCBList nobody is inside a service, and nobody creates or deletes.
OthersOutside == \A t \in Tcb \ OSTCBList : at[t] \in {"app", "sched"}
NoneMade == \A t \in Tcb : at[t] \notin {"create", "del", "delalways"}

\* The inductive invariant.
PendInv ==
  /\ WaitListExact /\ PendExact /\ WaitersStay /\ NewTcbsClean /\ OthersOutside
  /\ NoPendLocked /\ NoneMade
SemInv == KernelInv /\ SemTypeOK /\ PendInv /\ PendTellsTruth

---------------------------------------------------------------------------
\* Fairness.  The timer interrupts for as long as the board runs and a handler
\* returns; the tick is among the interrupts that come again and again; and
\* interrupts leave the running task time for the regions and the OS_Sched of a
\* pend (they come at the rate of the tick, hundreds of thousands of instructions).
Fairness ==
  /\ WF_vars(OSIntEnter /\ UNCHANGED semVars)
  /\ WF_vars(OSIntExit /\ UNCHANGED semVars)
  /\ SF_vars(OSTimeTick /\ UNCHANGED semVars)
  /\ SF_vars(OS_Sched /\ UNCHANGED semVars)
  /\ SF_vars(PendStep)

FairSpec == Spec /\ Fairness

\* "If non-zero, your task will wait for the resource up to the amount of time
\* specified" (os_sem.c:267): a pend with a timeout returns, in the task that no
\* other outranks, unless it is suspended; one that others outrank may wait for
\* the processor.
TimedPendReturns ==
  \A t \in DOMAIN InitPrio :
    (\A u \in DOMAIN InitPrio : InitPrio[t] <= InitPrio[u]) =>
      (at[t] \in {"pendwait", "pendwake"} /\ OSTCBDly[t] > 0
         ~> at[t] = "app" \/ "SUSPEND" \in OSTCBStat[t])
=============================================================================
