-------------------------- MODULE UcosEventProofs --------------------------
(***************************************************************************)
(* What the services of event blocks rest on, whatever the kind of block:  *)
(* wait lists and TCBs agree, a block taken by a create service is that    *)
(* service's alone, and the list of free blocks ends.  The kernel's steps  *)
(* keep EventInv, also where priorities are inherited; then each thing     *)
(* that a region of a service does with a block keeps it.                  *)
(***************************************************************************)
EXTENDS UcosEvent, UcosKernelProofs, FiniteSetTheorems

---------------------------------------------------------------------------
\* What a step may do to a task in use: it waits on, or its timeout ends ...
Stays(t) ==
  /\ t \in OSTCBList /\ ~Deleting(t)
  /\ OSTCBPrio'[t] = OSTCBPrio[t] /\ OSTCBEventPtr'[t] = OSTCBEventPtr[t]
  /\ Pending(t) => Pending(t)' /\ loc'[t] = loc[t]
  /\ OSTCBPendTO'[t] \/ OSTCBStat'[t] \cap PendAny # {}
       <=> OSTCBPendTO[t] \/ OSTCBStat[t] \cap PendAny # {}
  /\ OSTCBStat'[t] \cap PendAny \subseteq OSTCBStat[t]
  /\ OSTCBPendTO'[t] => OSTCBDly'[t] = 0
\* ... or it has just been made and waits for nothing.
Fresh(t) ==
  OSTCBEventPtr'[t] = NullEvent /\ ~OSTCBPendTO'[t] /\ OSTCBStat'[t] \cap PendAny = {}

\* Points in no service of a block, and what the kernel does to where tasks stand.
Elsewhere == {"app", "sched", "tcbinit", "tcblink", "unreserve", "delwin"}
PlacesKept ==
  /\ \A t \in Tcb : \/ at'[t] = at[t] /\ loc'[t] = loc[t]
                    \/ at[t] = "pendwait" /\ at'[t] = "pendwake" /\ loc'[t] = loc[t]
                    \/ at'[t] \in Elsewhere /\ (Making(t) => "OSTaskDel" \in TaskCalls)

TasksKept == \A t \in OSTCBList' : ~Deleting(t)' => Stays(t) \/ Fresh(t)
WaitersKept ==
  \A e \in Event :
    /\ OSEventTbl'[e] \subseteq OSEventTbl[e]
    /\ \A p \in OSEventTbl[e] :
         /\ OSTCBPrioTbl'[p] = OSTCBPrioTbl[p]
         /\ IF p \in OSEventTbl'[e]
            THEN Stays(OSTCBPrioTbl[p]) /\ ~Deleting(OSTCBPrioTbl[p])'
            ELSE Deleting(OSTCBPrioTbl[p])'
Framed == TasksKept /\ WaitersKept /\ PlacesKept /\ NewTcbsClean' /\ NoPendLocked'

\* What EventInv says of the priorities in a wait list.
LEMMA WaiterAt ==
  ASSUME EventInv, NEW e \in Event, NEW p \in OSEventTbl[e]
  PROVE  /\ p \in Prio /\ HasTcb(p) /\ OSTCBPrioTbl[p] \in OSTCBList /\ OSTCBPrioTbl[p] \in Tcb
         /\ OSTCBPrio[OSTCBPrioTbl[p]] = p /\ OSTCBEventPtr[OSTCBPrioTbl[p]] = e
         /\ ~Deleting(OSTCBPrioTbl[p])
  <1>1. p \in Prio
    BY DEF EventInv, CoreInv, KernelTypeOK
  <1> QED BY <1>1, TaskAt DEF EventInv, WaitsExact, WaitListExact, WaitersRanked, WaitersStay

\* What it says of one task in use.
LEMMA PenderAt ==
  ASSUME EventInv, NEW t \in OSTCBList, ~Deleting(t)
  PROVE  /\ t \in Tcb
         /\ OSTCBEventPtr[t] # NullEvent <=> OSTCBPendTO[t] \/ OSTCBStat[t] \cap PendAny # {}
         /\ OSTCBEventPtr[t] # NullEvent =>
              /\ Pending(t) /\ loc[t].ev = OSTCBEventPtr[t] /\ OSTCBEventPtr[t] \in Event
              /\ OSTCBPrio[t] \in OSEventTbl[OSTCBEventPtr[t]]
              /\ OSTCBStat[t] \cap PendAny \subseteq {OSEventType[OSTCBEventPtr[t]]}
         /\ OSTCBPendTO[t] => OSTCBDly[t] = 0
  BY DEF EventInv, WaitsExact, PendLinked, WaitListExact, CoreInv, KernelTypeOK

\* A step of the kernel that does no more than that keeps EventInv.
LEMMA FrameKeeps ==
  ASSUME EventInv, CoreInv', Framed, RunnerReady', UNCHANGED OSEventType PROVE EventInv'
  <1>1. \A e \in Event : \A p \in OSEventTbl'[e] :
          LET t == OSTCBPrioTbl[p]
          IN /\ p \in OSEventTbl[e] /\ p \in Prio /\ OSTCBPrioTbl'[p] = t /\ Stays(t) /\ ~Deleting(t)'
             /\ HasTcb(p) /\ OSTCBPrio[t] = p /\ OSTCBEventPtr[t] = e
    BY WaiterAt DEF Framed, WaitersKept
  <1>2. WaitListExact'
    <2>1. \A e \in Event : \A p \in OSEventTbl'[e] :
            HasTcb(p)' /\ OSTCBEventPtr'[OSTCBPrioTbl'[p]] = e
      BY <1>1 DEF HasTcb, Stays
    <2>2. ASSUME NEW t \in OSTCBList', OSTCBEventPtr'[t] # NullEvent, ~Deleting(t)'
          PROVE  OSTCBPrio'[t] \in OSEventTbl'[OSTCBEventPtr'[t]]
      <3>1. Stays(t)
        BY <2>2 DEF Framed, TasksKept, Fresh
      <3>2. OSTCBPrio[t] \in OSEventTbl[OSTCBEventPtr[t]] /\ OSTCBEventPtr[t] \in Event
        BY <2>2, <3>1, PenderAt DEF Stays
      <3>3. OSTCBPrioTbl[OSTCBPrio[t]] = t
        BY <3>1 DEF Stays, EventInv, CoreInv, TablesAgree
      <3>4. OSTCBPrio[t] \in OSEventTbl'[OSTCBEventPtr[t]]
        BY <2>2, <3>2, <3>3 DEF Framed, WaitersKept, Deleting
      <3> QED BY <3>1, <3>4 DEF Stays
    <2> QED BY <2>1, <2>2 DEF WaitListExact
  <1>3. PendLinked'
    <2> SUFFICES ASSUME NEW t \in OSTCBList', ~Deleting(t)'
        PROVE /\ OSTCBEventPtr'[t] # NullEvent
                   <=> OSTCBPendTO'[t] \/ OSTCBStat'[t] \cap PendAny # {}
              /\ OSTCBEventPtr'[t] # NullEvent =>
                   /\ Pending(t)' /\ loc'[t].ev = OSTCBEventPtr'[t]
                   /\ OSTCBStat'[t] \cap PendAny \subseteq {OSEventType[OSTCBEventPtr'[t]]}
              /\ OSTCBPendTO'[t] => OSTCBDly'[t] = 0
      BY Zenon DEF PendLinked
    <2>1. CASE Fresh(t)
      BY <2>1 DEF Fresh
    <2>2. CASE Stays(t)
      <3>1. /\ OSTCBEventPtr[t] # NullEvent <=> OSTCBPendTO[t] \/ OSTCBStat[t] \cap PendAny # {}
            /\ OSTCBEventPtr[t] # NullEvent =>
                 /\ Pending(t) /\ loc[t].ev = OSTCBEventPtr[t]
                 /\ OSTCBStat[t] \cap PendAny \subseteq {OSEventType[OSTCBEventPtr[t]]}
        BY <2>2, PenderAt DEF Stays
      <3>2. OSTCBEventPtr'[t] # NullEvent
              <=> OSTCBPendTO'[t] \/ OSTCBStat'[t] \cap PendAny # {}
        BY <2>2, <3>1, Zenon DEF Stays
      <3> QED BY <2>2, <3>1, <3>2 DEF Stays
    <2> QED BY <2>1, <2>2 DEF Framed, TasksKept
  <1>4. WaitersStay' /\ WaitersRanked'
    BY <1>1 DEF WaitersStay, WaitersRanked, Stays
  <1>5. PendersKnow' /\ BlocksApart'
    <2>1. \A t \in Tcb : /\ at'[t] = "pend" \/ Pending(t)' =>
                              (at[t] = "pend" \/ Pending(t)) /\ loc'[t] = loc[t]
                         /\ Making(t)' => Making(t) /\ loc'[t] = loc[t]
      BY DEF Framed, PlacesKept, Pending, Making, Elsewhere
    <2>2. \A e \in Event : OSEventTbl'[e] \subseteq OSEventTbl[e]
      BY DEF Framed, WaitersKept
    <2>3. PendersKnow'
      BY <2>1 DEF EventInv, WaitsExact, PendersKnow
    <2>4. \A e \in Event : OSEventType[e] = "UNUSED" => OSEventTbl'[e] = {}
      BY <2>2 DEF EventInv, BlocksApart
    <2>5. /\ \A t \in Tcb : Making(t)' => loc'[t].ev \in Event /\ OSEventType[loc'[t].ev] = "UNUSED"
          /\ \A t, u \in Tcb : t # u /\ Making(t)' /\ Making(u)' => loc'[t].ev # loc'[u].ev
      BY <2>1 DEF EventInv, BlocksApart
    <2> QED BY <2>3, <2>4, <2>5, Zenon DEF BlocksApart
  <1> QED BY <1>2, <1>3, <1>4, <1>5 DEF EventInv, WaitsExact, Framed

\* A step that leaves the wait lists, the event pointers, the priorities and the list
\* of TCBs alone, if a wait that ends is marked as timed out.
LEMMA SimpleFrame ==
  ASSUME EventInv,
         UNCHANGED <<OSTCBPrio, OSTCBEventPtr, OSEventTbl, OSTCBList>>,
         \A p \in Prio : HasTcb(p) => OSTCBPrioTbl'[p] = OSTCBPrioTbl[p],
         \A t \in Tcb : Deleting(t)' <=> Deleting(t),
         PlacesKept,
         \A t \in Tcb : Pending(t) => Pending(t)',
         \A t \in Tcb : at'[t] = "tcblink" => at[t] = "tcblink" /\ loc'[t] = loc[t],
         \A t \in OSTCBList : ~Deleting(t) =>
           /\ OSTCBPendTO'[t] \/ OSTCBStat'[t] \cap PendAny # {}
                <=> OSTCBPendTO[t] \/ OSTCBStat[t] \cap PendAny # {}
           /\ OSTCBStat'[t] \cap PendAny \subseteq OSTCBStat[t]
           /\ OSTCBPendTO'[t] => OSTCBDly'[t] = 0,
         \A t \in Tcb \ OSTCBList : OSTCBPendTO'[t] = OSTCBPendTO[t],
         NoPendLocked'
  PROVE  Framed
  <1>1. OSTCBList \subseteq Tcb
    BY DEF EventInv, CoreInv, KernelTypeOK
  <1>2. \A t \in Tcb : Pending(t) => loc'[t] = loc[t]
    BY DEF PlacesKept, Pending, Elsewhere
  <1>3. \A t \in OSTCBList : ~Deleting(t) => Stays(t)
    BY <1>1, <1>2, Zenon DEF Stays
  <1>4. TasksKept
    BY <1>1, <1>3 DEF TasksKept
  <1>5. WaitersKept
    BY <1>3, WaiterAt DEF WaitersKept
  <1>6. NewTcbsClean'
    <2>1. \A t \in Tcb : at[t] = "tcblink" => loc[t].tcb \in Tcb \ OSTCBList
      BY DEF EventInv, CoreInv, KernelTypeOK, CreationsApart, Locals
    <2> QED BY <2>1 DEF EventInv, WaitsExact, NewTcbsClean
  <1> QED BY <1>4, <1>5, <1>6 DEF Framed

---------------------------------------------------------------------------
\* The running task stays ready up to its next OS_Sched.

\* A suspension of another task leaves the running one ready; of itself, it leads to
\* OS_Sched, if the task knows that it is itself.
LEMMA SuspendLeavesRunner ==
  ASSUME CoreInv, RunnerReady, SafeUse, Inherits => NamesSelf,
         NEW p \in UserPrio, OSTaskSuspend(p)
  PROVE  RunnerReady'
  <1> DEFINE t == OSTCBPrioTbl[p]
             l == IF p = OSTCBPrio[OSTCBCur] THEN "sched" ELSE "app"
  <1>1. /\ OSIntNesting = 0 /\ at[OSTCBCur] = "app" /\ OSTCBCur \in Tcb /\ p \in Prio /\ HasTcb(p)
    BY DEF OSTaskSuspend, Call, TaskCall, IsrCall, SafeUse, CoreInv, KernelTypeOK, UserPrio
  <1>2. t \in Tcb /\ t \in OSTCBList /\ (Inherits \/ OSTCBPrio[t] = p)
    BY <1>1, TaskAt
  <1>3. /\ OSRdyTbl' = OSRdyTbl \ {OSTCBPrio[t]}
        /\ OSTCBStat' = [OSTCBStat EXCEPT ![t] = @ \cup {"SUSPEND"}]
        /\ at' = [at EXCEPT ![OSTCBCur] = l]
        /\ UNCHANGED <<OSTCBPrio, OSLockNesting, OSTCBCur, OSIntNesting>>
    BY <1>1, <1>2 DEF OSTaskSuspend, Goto, cpuVars
  <1>4. at'[OSTCBCur] = l /\ "SUSPEND" \in OSTCBStat'[t]
    BY <1>1, <1>2, <1>3 DEF CoreInv, KernelTypeOK
  <1> SUFFICES ASSUME at'[OSTCBCur] # "sched", OSLockNesting = 0
               PROVE  OSTCBPrio[OSTCBCur] \in OSRdyTbl'
    BY <1>3 DEF RunnerReady, Settled
  <1>5. OSTCBPrio[OSTCBCur] \in OSRdyTbl /\ OSTCBCur \in OSTCBList /\ ~Deleting(OSTCBCur)
    BY <1>1 DEF RunnerReady, Settled, CoreInv, CurrentKnown, Deleting
  <1>6. t # OSTCBCur
    <2>1. OSTCBStat[OSTCBCur] = {}
      BY <1>5 DEF CoreInv, ReadyIffNotWaiting
    <2> QED BY <1>2, <1>4, <2>1 DEF NamesSelf
  <1>7. OSTCBPrio[t] # OSTCBPrio[OSTCBCur]
    BY <1>2, <1>5, <1>6, OneTaskPerPrio DEF CoreInv
  <1> QED BY <1>3, <1>5, <1>7

LEMMA RunnerStays ==
  ASSUME CoreInv, RunnerReady, SafeUse, Inherits => NamesSelf,
         "OSTaskChangePrio" \notin TaskCalls, KernelStep
  PROVE  RunnerReady'
  <1>0. /\ OSTCBCur \in Tcb /\ at \in [Tcb -> Label] /\ OSLockNesting \in Nat /\ OSIntNesting \in Nat
        /\ OSTCBPrio \in [Tcb -> Prio]
    BY CoreAssumption DEF CoreInv, KernelTypeOK
  <1>1. CASE OS_Sched \/ OSIntExit
    <2>1. CASE OSLockNesting = 0
      BY <1>1, <2>1, SchedSettles DEF RunsHighest, RunnerReady, HighestIn
    <2>2. CASE OSLockNesting # 0
      BY <1>1, <2>2 DEF OS_Sched, OSIntExit, RunnerReady, Settled
    <2> QED BY <2>1, <2>2
  <1>2. CASE OSIntEnter \/ OSTimeTick
    BY <1>0, <1>2 DEF OSIntEnter, OSTimeTick, IsrCall, cpuVars, RunnerReady, Settled
  <1>3. CASE OSSchedLock \/ OSSchedUnlock
    <2>1. CASE OSSchedLock
      BY <1>0, <2>1 DEF OSSchedLock, RunnerReady, Settled
    <2>2. CASE OSSchedUnlock
      BY <1>0, <2>2 DEF OSSchedUnlock, TaskCall, Goto, cpuVars, RunnerReady, Settled
    <2> QED BY <1>3, <2>1, <2>2
  <1>4. CASE TimeStep
    <2>1. ASSUME NEW n \in Ticks, OSTimeDly(n) PROVE RunnerReady'
      BY <1>0, <2>1 DEF OSTimeDly, TaskCall, Goto, cpuVars, RunnerReady, Settled
    <2>2. ASSUME NEW p \in UserPrio, OSTimeDlyResume(p) PROVE RunnerReady'
      <3>1. /\ OSRdyTbl \subseteq OSRdyTbl' /\ UNCHANGED <<OSTCBPrio, OSTCBCur, OSIntNesting, OSLockNesting>>
            /\ at[OSTCBCur] = "app" \/ at' = at
        BY <2>2 DEF OSTimeDlyResume, DelayEnds, Call, TaskCall, IsrCall, Goto, cpuVars
      <3> QED BY <3>1 DEF RunnerReady, Settled
    <2> QED BY <1>4, <2>1, <2>2 DEF TimeStep, UserPrio
  <1>5. CASE TaskStep
    <2>1. \A p, q \in UserPrio : ~OSTaskChangePrio(p, q)
      BY DEF OSTaskChangePrio, Call, TaskCall, IsrCall, SafeUse
    <2>2. CASE OS_TCBInit_Take
      <3>1. /\ OSTCBCur \in OSTCBList /\ at[OSTCBCur] = "tcbinit" /\ OSIntNesting = 0
            /\ UNCHANGED <<OSRdyTbl, OSTCBCur, OSIntNesting, OSLockNesting>>
        BY <2>2 DEF OS_TCBInit_Take, InTask, cpuVars, CoreInv, CurrentKnown
      <3>2. OSTCBPrio'[OSTCBCur] = OSTCBPrio[OSTCBCur]
        BY <1>0, <2>2, <3>1 DEF OS_TCBInit_Take, tcbVars, CoreInv, TablesAgree
      <3> QED BY <3>1, <3>2 DEF RunnerReady, Settled
    <2>3. CASE OS_TCBInit_Link
      BY <1>0, <2>3 DEF OS_TCBInit_Link, InTask, Goto, cpuVars, RunnerReady, Settled
    <2>4. CASE OSTaskCreate_Undo
      BY <1>0, <2>4 DEF OSTaskCreate_Undo, InTask, Goto, tcbVars, cpuVars, RunnerReady, Settled
    <2>5. CASE OSTaskDel_Free
      <3>1. at'[OSTCBCur] = "sched" /\ UNCHANGED OSTCBCur
        BY <1>0, <2>5 DEF OSTaskDel_Free, cpuVars
      <3> QED BY <3>1 DEF RunnerReady, Settled
    <2>6. ASSUME NEW p \in UserPrio, OSTaskCreate(p) PROVE RunnerReady'
      BY <1>0, <2>6 DEF OSTaskCreate, TaskCall, Goto, tcbVars, cpuVars, RunnerReady, Settled
    <2>7. ASSUME NEW p \in UserPrio, OSTaskDel(p) PROVE RunnerReady'
      BY <1>0, <2>7, CoreAssumption DEF OSTaskDel, RunnerReady, Settled
    <2>8. ASSUME NEW p \in UserPrio, OSTaskResume(p) PROVE RunnerReady'
      <3>1. /\ OSRdyTbl \subseteq OSRdyTbl' /\ UNCHANGED <<OSTCBPrio, OSTCBCur, OSIntNesting, OSLockNesting>>
            /\ at[OSTCBCur] = "app" \/ at' = at
        BY <2>8 DEF OSTaskResume, Call, TaskCall, IsrCall, Goto, cpuVars
      <3> QED BY <3>1 DEF RunnerReady, Settled
    <2> QED BY <1>5, <2>1, <2>2, <2>3, <2>4, <2>5, <2>6, <2>7, <2>8, SuspendLeavesRunner DEF TaskStep
  <1> QED BY <1>1, <1>2, <1>3, <1>4, <1>5 DEF KernelStep

---------------------------------------------------------------------------
\* Each step of the kernel is Framed, except OSTaskChangePrio.

\* OSIntEnter and OSIntExit, whichever task that one switches to.
LEMMA InterruptFramed == ASSUME EventInv, OSIntEnter \/ OSIntExit PROVE Framed
  <1>1. UNCHANGED <<OSTCBPrio, OSTCBEventPtr, OSTCBStat, OSTCBPendTO, OSTCBDly, OSEventTbl,
                    OSTCBList, OSTCBPrioTbl, OSLockNesting, at, loc>>
    BY DEF OSIntEnter, OSIntExit, tcbVars, tblVars
  <1>2. OSLockNesting = 0 \/ OSTCBCur' = OSTCBCur
    BY DEF OSIntEnter, OSIntExit
  <1>3. \A t \in Tcb : Deleting(t)' <=> Deleting(t)
    <2>1. CASE OSLockNesting = 0 /\ OSIntExit
      <3>1. CoreInv /\ OSTCBCur' \in Tcb /\ OSTCBCur \in Tcb
        BY <2>1, DispatchKeeps DEF OSIntExit, EventInv, CoreInv, KernelTypeOK, tcbVars
      <3> QED BY <1>1, <2>1, <3>1, NobodyDeletes DEF Deleting
    <2>2. CASE OSTCBCur' = OSTCBCur
      BY <1>1, <2>2 DEF Deleting
    <2> QED BY <1>2, <2>1, <2>2 DEF OSIntEnter
  <1>4. NoPendLocked'
    BY <1>1, <1>2 DEF NoPendLocked, Pending, EventInv, WaitsExact, CoreInv, KernelTypeOK
  <1>5. \A t \in OSTCBList : ~Deleting(t) => (OSTCBPendTO[t] => OSTCBDly[t] = 0)
    BY PenderAt
  <1>6. PlacesKept /\ \A t \in Tcb : Pending(t) => Pending(t)'
    BY <1>1 DEF PlacesKept, Pending
  <1> QED BY <1>1, <1>3, <1>4, <1>5, <1>6, SimpleFrame

\* OS_Sched, at the end of a service and in the middle of a pend.
LEMMA SchedFramed == ASSUME EventInv, CoreInv', OS_Sched PROVE Framed
  <1>1. UNCHANGED <<OSTCBPrio, OSTCBEventPtr, OSTCBStat, OSTCBPendTO, OSTCBDly, OSEventTbl,
                    OSTCBList, OSTCBPrioTbl, OSLockNesting, loc>>
    BY DEF OS_Sched, tcbVars, tblVars
  <1>2. /\ OSTCBCur \in Tcb
        /\ \A t \in Tcb \ {OSTCBCur} : at'[t] = at[t]
        /\ \/ at[OSTCBCur] = "sched" /\ at'[OSTCBCur] = "app"
           \/ at[OSTCBCur] = "pendwait" /\ at'[OSTCBCur] = "pendwake"
    BY DEF OS_Sched, InTask, EventInv, CoreInv, KernelTypeOK
  <1>3. \A t \in Tcb : at[t] # "delwin" /\ at'[t] # "delwin"
    BY <1>2 DEF EventInv, CoreInv, DeletionHolds
  <1>4. \A t \in Tcb : Deleting(t)' <=> Deleting(t)
    BY <1>2, <1>3 DEF Deleting, CoreInv, KernelTypeOK
  <1>5. NoPendLocked'
    <2>1. OSLockNesting > 0 => OSTCBCur' = OSTCBCur /\ at[OSTCBCur] # "pendwait"
      BY DEF OS_Sched, EventInv, WaitsExact, NoPendLocked, Pending
    <2> QED BY <1>1, <1>2, <2>1 DEF NoPendLocked, Pending
  <1>6. \A t \in OSTCBList : ~Deleting(t) => (OSTCBPendTO[t] => OSTCBDly[t] = 0)
    BY PenderAt
  <1>7. PlacesKept /\ \A t \in Tcb : Pending(t) => Pending(t)'
    BY <1>1, <1>2 DEF PlacesKept, Pending, Elsewhere, Making
  <1>8. \A t \in Tcb : at'[t] = "tcblink" => at[t] = "tcblink" /\ loc'[t] = loc[t]
    BY <1>1, <1>2
  <1> QED BY <1>1, <1>4, <1>5, <1>6, <1>7, <1>8, SimpleFrame

\* What a one-region service of the kernel does to where tasks stand: nothing to those
\* inside a service of a block.
LEMMA CallPlaces ==
  ASSUME EventInv, NEW s, Call(s), NEW l \in {"sched", "app"}, Goto(l),
         UNCHANGED <<OSTCBCur, OSLockNesting, loc>>
  PROVE  /\ \A t \in Tcb : Deleting(t)' <=> Deleting(t)
         /\ PlacesKept /\ \A t \in Tcb : Pending(t) => Pending(t)'
         /\ \A t \in Tcb : at'[t] = "tcblink" => at[t] = "tcblink" /\ loc'[t] = loc[t]
         /\ NoPendLocked'
  <1>1. /\ OSTCBCur \in Tcb
        /\ \A t \in Tcb \ {OSTCBCur} : at'[t] = at[t]
        /\ OSIntNesting = 0 => at[OSTCBCur] = "app" /\ at'[OSTCBCur] = l
        /\ OSIntNesting # 0 => at' = at
    BY ServiceReturns DEF EventInv, CoreInv, KernelTypeOK
  <1> QED BY <1>1 DEF Deleting, NoPendLocked, Pending, PlacesKept, Elsewhere, Making, EventInv, WaitsExact

\* OSSchedLock and OSSchedUnlock: who locks is not inside a pend.
LEMMA LockFramed == ASSUME EventInv, OSSchedLock \/ OSSchedUnlock PROVE Framed
  <1>1. UNCHANGED <<OSTCBPrio, OSTCBEventPtr, OSTCBStat, OSTCBPendTO, OSTCBDly, OSEventTbl,
                    OSTCBList, OSTCBPrioTbl, OSTCBCur, loc>>
    BY DEF OSSchedLock, OSSchedUnlock, tcbVars, tblVars, cpuVars
  <1>2. /\ OSTCBCur \in Tcb /\ at[OSTCBCur] = "app" /\ at'[OSTCBCur] \in {"app", "sched"}
        /\ \A t \in Tcb \ {OSTCBCur} : at'[t] = at[t]
    BY DEF OSSchedLock, OSSchedUnlock, TaskCall, Goto, EventInv, CoreInv, KernelTypeOK
  <1>3. (\A t \in Tcb : Deleting(t)' <=> Deleting(t)) /\ NoPendLocked'
    BY <1>1, <1>2 DEF Deleting, NoPendLocked, Pending
  <1>4. \A t \in OSTCBList : ~Deleting(t) => (OSTCBPendTO[t] => OSTCBDly[t] = 0)
    BY PenderAt
  <1>5. PlacesKept /\ \A t \in Tcb : Pending(t) => Pending(t)'
    BY <1>1, <1>2 DEF PlacesKept, Pending, Elsewhere, Making
  <1>6. \A t \in Tcb : at'[t] = "tcblink" => at[t] = "tcblink" /\ loc'[t] = loc[t]
    BY <1>1, <1>2
  <1> QED BY <1>1, <1>3, <1>4, <1>5, <1>6, SimpleFrame

\* The end of some tasks' delays takes the event out of OSTCBStat and marks the pend
\* as timed out in the same step.
LEMMA DelayEndsMarks ==
  ASSUME EventInv, NEW T, DelayEnds(T), NEW t \in OSTCBList, ~Deleting(t),
         t \in T => OSTCBDly[t] # 0 /\ OSTCBDly'[t] = 0,
         OSTCBDly[t] = 0 => OSTCBDly'[t] = 0
  PROVE  /\ OSTCBPendTO'[t] \/ OSTCBStat'[t] \cap PendAny # {}
              <=> OSTCBPendTO[t] \/ OSTCBStat[t] \cap PendAny # {}
         /\ OSTCBStat'[t] \cap PendAny \subseteq OSTCBStat[t]
         /\ OSTCBPendTO'[t] => OSTCBDly'[t] = 0
  <1>1. t \in Tcb /\ (OSTCBPendTO[t] => OSTCBDly[t] = 0)
    BY PenderAt
  <1>2. /\ OSTCBStat'[t] = IF t \in T THEN OSTCBStat[t] \ PendAny ELSE OSTCBStat[t]
        /\ OSTCBPendTO'[t] = IF t \in T THEN OSTCBStat[t] \cap PendAny # {} ELSE OSTCBPendTO[t]
    BY <1>1, Zenon DEF DelayEnds
  <1>3. CASE t \in T
    <2>1. OSTCBStat'[t] = OSTCBStat[t] \ PendAny
      BY <1>2, <1>3
    <2>2. OSTCBPendTO'[t] <=> OSTCBStat[t] \cap PendAny # {}
      BY <1>2, <1>3, Zenon
    <2>3. OSTCBStat'[t] \cap PendAny = {}
      BY <2>1
    <2>4. ~OSTCBPendTO[t] /\ OSTCBDly'[t] = 0
      BY <1>1, <1>3
    <2> QED BY <2>2, <2>3, <2>4, Zenon
  <1>4. CASE t \notin T
    <2>1. OSTCBStat'[t] = OSTCBStat[t] /\ OSTCBPendTO'[t] = OSTCBPendTO[t]
      BY <1>2, <1>4
    <2> QED BY <1>1, <2>1
  <1> QED BY <1>3, <1>4

\* The tick, though it ends any number of timeouts at once.
LEMMA TickFramed == ASSUME EventInv, OSTimeTick PROVE Framed
  <1> DEFINE T == {t \in Delayed : OSTCBDly[t] = 1}
  <1>1. /\ UNCHANGED <<OSTCBPrio, OSTCBEventPtr, OSEventTbl, OSTCBList, OSTCBPrioTbl, OSTCBCur,
                       OSLockNesting, at, loc>>
        /\ DelayEnds(T)
    BY DEF OSTimeTick, tblVars, cpuVars
  <1>2. \A t \in OSTCBList : /\ t \in T => OSTCBDly[t] # 0 /\ OSTCBDly'[t] = 0
                             /\ OSTCBDly[t] = 0 => OSTCBDly'[t] = 0
    BY DEF OSTimeTick, Delayed, EventInv, CoreInv, KernelTypeOK
  <1>3. T \subseteq OSTCBList
    BY DEF Delayed
  <1> HIDE DEF T
  <1>4. \A t \in Tcb \ OSTCBList : OSTCBPendTO'[t] = OSTCBPendTO[t]
    BY <1>1, <1>3, Zenon DEF DelayEnds
  <1>5. (\A t \in Tcb : Deleting(t)' <=> Deleting(t)) /\ NoPendLocked'
    BY <1>1 DEF Deleting, NoPendLocked, Pending, EventInv, WaitsExact
  <1>6. \A t \in OSTCBList : ~Deleting(t) =>
           /\ OSTCBPendTO'[t] \/ OSTCBStat'[t] \cap PendAny # {}
                <=> OSTCBPendTO[t] \/ OSTCBStat[t] \cap PendAny # {}
           /\ OSTCBStat'[t] \cap PendAny \subseteq OSTCBStat[t]
           /\ OSTCBPendTO'[t] => OSTCBDly'[t] = 0
    BY <1>1, <1>2, DelayEndsMarks
  <1>7. PlacesKept /\ \A t \in Tcb : Pending(t) => Pending(t)'
    BY <1>1 DEF PlacesKept, Pending
  <1> QED BY <1>1, <1>4, <1>5, <1>6, <1>7, SimpleFrame

\* OSTimeDly: a task that delays itself does not wait, and has not timed out.
LEMMA DelayFramed == ASSUME EventInv, NEW n \in Ticks, OSTimeDly(n) PROVE Framed
  <1>1. /\ UNCHANGED <<OSTCBPrio, OSTCBEventPtr, OSTCBStat, OSTCBPendTO, OSEventTbl, OSTCBList,
                       OSTCBPrioTbl, OSTCBCur, OSLockNesting, loc>>
        /\ Call("OSTimeDly") /\ Goto("sched") /\ at[OSTCBCur] = "app" /\ OSTCBCur \in Tcb
        /\ OSTCBDly' = [OSTCBDly EXCEPT ![OSTCBCur] = n]
    BY DEF OSTimeDly, TaskCall, Call, tblVars, cpuVars, EventInv, CoreInv, KernelTypeOK
  <1>2. /\ \A t \in Tcb : Deleting(t)' <=> Deleting(t)
        /\ PlacesKept /\ \A t \in Tcb : Pending(t) => Pending(t)'
        /\ \A t \in Tcb : at'[t] = "tcblink" => at[t] = "tcblink" /\ loc'[t] = loc[t]
        /\ NoPendLocked'
    BY <1>1, CallPlaces
  <1>3. \A t \in OSTCBList : ~Deleting(t) => (OSTCBPendTO[t] => OSTCBDly'[t] = 0)
    <2> SUFFICES ASSUME NEW t \in OSTCBList, ~Deleting(t), OSTCBPendTO[t] PROVE OSTCBDly'[t] = 0
      OBVIOUS
    <2>1. t \in Tcb /\ OSTCBDly[t] = 0 /\ Pending(t)
      BY PenderAt
    <2> QED BY <1>1, <2>1 DEF Pending, EventInv, CoreInv, KernelTypeOK
  <1> QED BY <1>1, <1>2, <1>3, SimpleFrame

\* OSTimeDlyResume, also when what it cuts short is a timeout.
LEMMA DelayResumeFramed == ASSUME EventInv, NEW p \in UserPrio, OSTimeDlyResume(p) PROVE Framed
  <1> DEFINE t == OSTCBPrioTbl[p]
             l == IF "SUSPEND" \in OSTCBStat[t] THEN "app" ELSE "sched"
  <1>1. /\ UNCHANGED <<OSTCBPrio, OSTCBEventPtr, OSEventTbl, OSTCBList, OSTCBPrioTbl, OSTCBCur,
                       OSLockNesting, loc>>
        /\ Call("OSTimeDlyResume") /\ Goto(l)
        /\ OSTCBDly[t] # 0 /\ OSTCBDly' = [OSTCBDly EXCEPT ![t] = 0] /\ DelayEnds({t})
        /\ t \in OSTCBList /\ t \in Tcb
    BY TaskAt DEF OSTimeDlyResume, tblVars, cpuVars, UserPrio, EventInv
  <1> HIDE DEF t, l
  <1>2. l \in {"sched", "app"}
    BY DEF l
  <1>3. /\ \A u \in Tcb : Deleting(u)' <=> Deleting(u)
        /\ PlacesKept /\ \A u \in Tcb : Pending(u) => Pending(u)'
        /\ \A u \in Tcb : at'[u] = "tcblink" => at[u] = "tcblink" /\ loc'[u] = loc[u]
        /\ NoPendLocked'
    BY <1>1, <1>2, CallPlaces
  <1>4. \A u \in OSTCBList : /\ u \in {t} => OSTCBDly[u] # 0 /\ OSTCBDly'[u] = 0
                             /\ OSTCBDly[u] = 0 => OSTCBDly'[u] = 0
    BY <1>1 DEF EventInv, CoreInv, KernelTypeOK
  <1>5. \A u \in Tcb \ OSTCBList : OSTCBPendTO'[u] = OSTCBPendTO[u]
    BY <1>1, Zenon DEF DelayEnds
  <1>6. \A u \in OSTCBList : ~Deleting(u) =>
           /\ OSTCBPendTO'[u] \/ OSTCBStat'[u] \cap PendAny # {}
                <=> OSTCBPendTO[u] \/ OSTCBStat[u] \cap PendAny # {}
           /\ OSTCBStat'[u] \cap PendAny \subseteq OSTCBStat[u]
           /\ OSTCBPendTO'[u] => OSTCBDly'[u] = 0
    BY <1>1, <1>4, DelayEndsMarks
  <1> QED BY <1>1, <1>3, <1>5, <1>6, SimpleFrame

\* Suspension and its end leave the event alone.
LEMMA SuspendFramed ==
  ASSUME EventInv, NEW p \in UserPrio, OSTaskSuspend(p) \/ OSTaskResume(p) PROVE Framed
  <1>1. /\ UNCHANGED <<OSTCBPrio, OSTCBEventPtr, OSTCBPendTO, OSTCBDly, OSEventTbl, OSTCBList,
                       OSTCBPrioTbl, OSTCBCur, OSLockNesting, loc>>
        /\ \E s : Call(s) /\ \E l \in {"sched", "app"} : Goto(l)
        /\ \E S \in {OSTCBStat[OSTCBPrioTbl[p]] \cup {"SUSPEND"}, OSTCBStat[OSTCBPrioTbl[p]] \ {"SUSPEND"}} :
             OSTCBStat' = [OSTCBStat EXCEPT ![OSTCBPrioTbl[p]] = S]
    BY DEF OSTaskSuspend, OSTaskResume, tblVars, cpuVars
  <1>2. /\ \A t \in Tcb : Deleting(t)' <=> Deleting(t)
        /\ PlacesKept /\ \A t \in Tcb : Pending(t) => Pending(t)'
        /\ \A t \in Tcb : at'[t] = "tcblink" => at[t] = "tcblink" /\ loc'[t] = loc[t]
        /\ NoPendLocked'
    BY <1>1, CallPlaces
  <1>3. \A t \in OSTCBList : OSTCBStat'[t] \cap PendAny = OSTCBStat[t] \cap PendAny
    BY <1>1 DEF PendAny, EventInv, CoreInv, KernelTypeOK
  <1>4. \A t \in OSTCBList : ~Deleting(t) => (OSTCBPendTO[t] => OSTCBDly[t] = 0)
    BY PenderAt
  <1>5. \A t \in OSTCBList : OSTCBStat'[t] \cap PendAny \subseteq OSTCBStat[t]
    BY <1>3
  <1> QED BY <1>1, <1>2, <1>3, <1>4, <1>5, SimpleFrame

\* Reserving a priority, or giving it back: it is nobody's who waits.
LEMMA ReserveFramed ==
  ASSUME EventInv, OSTaskCreate_Undo \/ \E p \in UserPrio : OSTaskCreate(p) PROVE Framed
  <1>1. /\ UNCHANGED <<OSTCBPrio, OSTCBEventPtr, OSTCBStat, OSTCBPendTO, OSTCBDly, OSEventTbl,
                       OSTCBList, OSTCBCur, OSLockNesting>>
        /\ OSTCBCur \in Tcb
        /\ \A t \in Tcb \ {OSTCBCur} : at'[t] = at[t] /\ loc'[t] = loc[t]
        /\ at[OSTCBCur] \in {"app", "unreserve"} /\ at'[OSTCBCur] \in {"app", "tcbinit"}
    BY DEF OSTaskCreate, OSTaskCreate_Undo, TaskCall, InTask, Goto, Keep, tcbVars, cpuVars,
           EventInv, CoreInv, KernelTypeOK
  <1>2. \A p \in Prio : HasTcb(p) => OSTCBPrioTbl'[p] = OSTCBPrioTbl[p]
    <2>1. CASE OSTaskCreate_Undo
      <3>1. OSTCBPrioTbl[loc[OSTCBCur].prio] = Reserved
        BY <1>1, <2>1 DEF OSTaskCreate_Undo, InTask, EventInv, CoreInv, CreationsApart, Creating
      <3> QED BY <2>1, <3>1 DEF OSTaskCreate_Undo, HasTcb, EventInv, CoreInv, KernelTypeOK
    <2>2. CASE \E p \in UserPrio : OSTaskCreate(p)
      BY <2>2 DEF OSTaskCreate, HasTcb, EventInv, CoreInv, KernelTypeOK
    <2> QED BY <2>1, <2>2
  <1>3. (\A t \in Tcb : Deleting(t)' <=> Deleting(t)) /\ NoPendLocked'
    BY <1>1 DEF Deleting, NoPendLocked, Pending
  <1>4. PlacesKept /\ \A t \in Tcb : Pending(t) => Pending(t)'
    BY <1>1 DEF PlacesKept, Pending, Elsewhere, Making
  <1>5. \A t \in Tcb : at'[t] = "tcblink" => at[t] = "tcblink" /\ loc'[t] = loc[t]
    BY <1>1
  <1>6. \A t \in OSTCBList : ~Deleting(t) => (OSTCBPendTO[t] => OSTCBDly[t] = 0)
    BY PenderAt
  <1> QED BY <1>1, <1>2, <1>3, <1>4, <1>5, <1>6, SimpleFrame

\* OS_TCBInit cleans the TCB that it takes before anyone sees it.
LEMMA TakeTcbFramed == ASSUME EventInv, OS_TCBInit_Take PROVE Framed
  <1> DEFINE me == OSTCBCur
  <1>1. /\ OSIntNesting = 0 /\ me \in Tcb /\ me \in OSTCBList /\ at[me] = "tcbinit"
        /\ UNCHANGED <<OSEventTbl, OSLockNesting, OSTCBPrioTbl, OSTCBList, OSTCBCur>>
    BY DEF OS_TCBInit_Take, InTask, cpuVars, EventInv, CoreInv, KernelTypeOK, CurrentKnown
  <1>2. CASE OSTCBFreeList = {}
    <2>1. /\ UNCHANGED <<OSTCBPrio, OSTCBEventPtr, OSTCBStat, OSTCBPendTO, OSTCBDly, loc>>
          /\ at' = [at EXCEPT ![me] = "unreserve"]
      BY <1>1, <1>2 DEF OS_TCBInit_Take, Goto, tcbVars
    <2>2. at'[me] = "unreserve" /\ \A t \in Tcb \ {me} : at'[t] = at[t]
      BY <1>1, <2>1 DEF EventInv, CoreInv, KernelTypeOK
    <2>3. (\A t \in Tcb : Deleting(t)' <=> Deleting(t)) /\ NoPendLocked'
      BY <1>1, <2>1, <2>2 DEF Deleting, NoPendLocked, Pending
    <2>4. PlacesKept /\ \A t \in Tcb : Pending(t) => Pending(t)'
      BY <1>1, <2>1, <2>2 DEF PlacesKept, Pending, Elsewhere, Making
    <2>5. \A t \in Tcb : at'[t] = "tcblink" => at[t] = "tcblink" /\ loc'[t] = loc[t]
      BY <2>1, <2>2
    <2>6. \A t \in OSTCBList : ~Deleting(t) => (OSTCBPendTO[t] => OSTCBDly[t] = 0)
      BY PenderAt
    <2> QED BY <1>1, <2>1, <2>3, <2>4, <2>5, <2>6, SimpleFrame
  <1>3. CASE OSTCBFreeList # {}
    <2> PICK t \in OSTCBFreeList :
          /\ OSTCBPrio' = [OSTCBPrio EXCEPT ![t] = loc[me].prio]
          /\ OSTCBStat' = [OSTCBStat EXCEPT ![t] = {}]
          /\ OSTCBPendTO' = [OSTCBPendTO EXCEPT ![t] = FALSE]
          /\ OSTCBDly' = [OSTCBDly EXCEPT ![t] = 0]
          /\ OSTCBEventPtr' = [OSTCBEventPtr EXCEPT ![t] = NullEvent]
          /\ at' = [at EXCEPT ![me] = "tcblink"]
          /\ loc' = [loc EXCEPT ![me] = [loc[me] EXCEPT !.tcb = t]]
      BY <1>1, <1>3 DEF OS_TCBInit_Take, Goto, Keep
    <2>1. t \in Tcb /\ t \notin OSTCBList
      BY DEF EventInv, CoreInv, KernelTypeOK, TablesAgree, Tcb
    <2>2. /\ \A u \in Tcb \ {t} : /\ OSTCBPrio'[u] = OSTCBPrio[u] /\ OSTCBStat'[u] = OSTCBStat[u]
                                  /\ OSTCBPendTO'[u] = OSTCBPendTO[u] /\ OSTCBDly'[u] = OSTCBDly[u]
                                  /\ OSTCBEventPtr'[u] = OSTCBEventPtr[u]
          /\ OSTCBPendTO'[t] = FALSE /\ OSTCBEventPtr'[t] = NullEvent
          /\ at'[me] = "tcblink" /\ loc'[me].tcb = t
          /\ \A u \in Tcb \ {me} : at'[u] = at[u] /\ loc'[u] = loc[u]
      BY <1>1, <2>1 DEF EventInv, CoreInv, KernelTypeOK, Locals
    <2>3. \A u \in Tcb : ~Deleting(u)' /\ ~Deleting(u)
      BY <1>1, <2>2 DEF Deleting
    <2>4. \A u \in OSTCBList : Stays(u)
      <3> SUFFICES ASSUME NEW u \in OSTCBList PROVE Stays(u)
        OBVIOUS
      <3>0. u \in Tcb /\ u # t
        BY <2>1 DEF EventInv, CoreInv, KernelTypeOK
      <3>1. u \in Tcb \ {t} /\ (OSTCBPendTO[u] => OSTCBDly[u] = 0)
        BY <2>3, <3>0, PenderAt
      <3>2. Pending(u) => Pending(u)' /\ loc'[u] = loc[u]
        BY <1>1, <2>2, <3>1 DEF Pending
      <3> QED BY <2>2, <2>3, <3>1, <3>2 DEF Stays
    <2>5. TasksKept /\ WaitersKept
      BY <1>1, <2>3, <2>4, WaiterAt DEF TasksKept, WaitersKept
    <2>6. NewTcbsClean'
      <3>1. \A u \in Tcb \ {me} : at'[u] = "tcblink" =>
              /\ loc[u].tcb \in Tcb /\ loc[u].tcb # t /\ at[u] = "tcblink" /\ loc'[u] = loc[u]
        BY <2>2 DEF EventInv, CoreInv, KernelTypeOK, CreationsApart, Locals
      <3> QED BY <1>1, <2>2, <3>1 DEF EventInv, WaitsExact, NewTcbsClean
    <2>7. PlacesKept /\ NoPendLocked'
      BY <1>1, <2>2 DEF PlacesKept, NoPendLocked, Pending, Elsewhere, Making
    <2> QED BY <2>5, <2>6, <2>7 DEF Framed
  <1> QED BY <1>2, <1>3

\* The TCB that OS_TCBInit links waits for nothing.
LEMMA LinkFramed == ASSUME EventInv, OS_TCBInit_Link PROVE Framed
  <1> DEFINE me == OSTCBCur
             p == loc[me].prio
             t == loc[me].tcb
  <1>1. /\ OSIntNesting = 0 /\ me \in Tcb /\ me \in OSTCBList /\ at[me] = "tcblink"
        /\ p \in Prio /\ t \in Tcb
        /\ OSTCBPrioTbl[p] = Reserved /\ t \notin OSTCBList
        /\ OSTCBStat[t] = {} /\ ~OSTCBPendTO[t] /\ OSTCBEventPtr[t] = NullEvent
    BY DEF OS_TCBInit_Link, InTask, EventInv, WaitsExact, NewTcbsClean,
           CoreInv, KernelTypeOK, CurrentKnown, CreationsApart, Creating, Locals
  <1>2. /\ OSTCBPrioTbl' = [OSTCBPrioTbl EXCEPT ![p] = t]
        /\ OSTCBList' = OSTCBList \cup {t}
        /\ at' = [at EXCEPT ![me] = "sched"] /\ loc' = [loc EXCEPT ![me] = NoLocals]
        /\ UNCHANGED <<OSTCBPrio, OSTCBEventPtr, OSTCBStat, OSTCBPendTO, OSTCBDly, OSEventTbl,
                       OSLockNesting, OSTCBCur>>
    BY <1>1 DEF OS_TCBInit_Link, Goto, Keep, tcbVars, cpuVars
  <1>3. /\ at'[me] = "sched" /\ \A u \in Tcb \ {me} : at'[u] = at[u] /\ loc'[u] = loc[u]
        /\ \A q \in Prio \ {p} : OSTCBPrioTbl'[q] = OSTCBPrioTbl[q]
        /\ \A u \in Tcb : ~Deleting(u)' /\ ~Deleting(u)
    BY <1>1, <1>2 DEF Deleting, EventInv, CoreInv, KernelTypeOK
  <1> HIDE DEF p, t
  <1>4. \A u \in OSTCBList : Stays(u)
    <2> SUFFICES ASSUME NEW u \in OSTCBList PROVE Stays(u)
      OBVIOUS
    <2>1. u \in Tcb /\ (OSTCBPendTO[u] => OSTCBDly[u] = 0)
      BY <1>3, PenderAt DEF EventInv, CoreInv, KernelTypeOK
    <2>2. Pending(u) => Pending(u)' /\ loc'[u] = loc[u]
      BY <1>1, <1>3, <2>1 DEF Pending
    <2> QED BY <1>2, <1>3, <2>1, <2>2 DEF Stays
  <1>5. TasksKept
    <2>1. Fresh(t)
      BY <1>1, <1>2 DEF Fresh
    <2> QED BY <1>2, <1>4, <2>1 DEF TasksKept
  <1>6. WaitersKept
    <2>1. \A e \in Event : \A q \in OSEventTbl[e] :
            q \in Prio \ {p} /\ OSTCBPrioTbl[q] \in OSTCBList /\ OSTCBPrioTbl[q] \in Tcb
      BY <1>1, WaiterAt DEF HasTcb
    <2> QED BY <1>2, <1>3, <1>4, <2>1 DEF WaitersKept
  <1>7. NewTcbsClean'
    BY <1>2, <1>3 DEF EventInv, WaitsExact, NewTcbsClean
  <1>8. PlacesKept /\ NoPendLocked'
    BY <1>1, <1>2, <1>3 DEF PlacesKept, NoPendLocked, Pending, Elsewhere, Making
  <1> QED BY <1>5, <1>6, <1>7, <1>8 DEF Framed

\* OSTaskDel, first region: the victim leaves the list it waits in, and nobody else
\* leaves his.
LEMMA DelFramed ==
  ASSUME EventInv, SafeUse, NEW p \in UserPrio, OSTaskDel(p) PROVE Framed
  <1> DEFINE me == OSTCBCur
             t == OSTCBPrioTbl[p]
             mine == [NoLocals EXCEPT !.prio = p, !.tcb = t]
  <1>1. /\ OSIntNesting = 0 /\ me \in Tcb /\ me \in OSTCBList /\ at[me] = "app"
        /\ p \in Prio /\ t \in Tcb /\ t \in OSTCBList /\ OSTCBPrio[t] = p
    <2>1. ~Inherits /\ p \in Prio /\ HasTcb(p)
      BY DEF OSTaskDel, TaskCall, SafeUse, UserPrio
    <2> QED BY <2>1, TaskAt DEF OSTaskDel, TaskCall, EventInv, CoreInv, KernelTypeOK, CurrentKnown
  <1>2. /\ OSTCBStat' = [OSTCBStat EXCEPT ![t] = {}]
        /\ OSTCBDly' = [OSTCBDly EXCEPT ![t] = 0]
        /\ OSTCBPendTO' = [OSTCBPendTO EXCEPT ![t] = FALSE]
        /\ OSEventTbl' = IF OSTCBEventPtr[t] = NullEvent THEN OSEventTbl
                         ELSE [OSEventTbl EXCEPT ![OSTCBEventPtr[t]] = @ \ {p}]
        /\ at' = [at EXCEPT ![me] = "delwin"] /\ loc' = [loc EXCEPT ![me] = mine]
        /\ UNCHANGED <<OSTCBPrio, OSTCBEventPtr, OSTCBPrioTbl, OSTCBList, OSTCBCur>>
    BY <1>1 DEF OSTaskDel, Disable, Goto, Keep, tblVars, cpuVars
  <1>3. mine.tcb = t
    BY <1>1, NoLocalsType DEF NoLocals, Locals
  <1> HIDE DEF mine, t
  <1>4. /\ at'[me] = "delwin"
        /\ \A u \in Tcb \ {me} : at'[u] = at[u] /\ loc'[u] = loc[u]
        /\ \A u \in Tcb : ~Deleting(u)
        /\ \A u \in Tcb : Deleting(u)' <=> u = t
        /\ \A u \in Tcb \ {t} : /\ OSTCBStat'[u] = OSTCBStat[u] /\ OSTCBDly'[u] = OSTCBDly[u]
                                /\ OSTCBPendTO'[u] = OSTCBPendTO[u]
    <2>1. at'[me] = "delwin" /\ loc'[me].tcb = t
      BY <1>1, <1>2, <1>3 DEF EventInv, CoreInv, KernelTypeOK
    <2>2. /\ \A u \in Tcb : ~Deleting(u)
          /\ \A u \in Tcb : Deleting(u)' <=> u = t
      BY <1>1, <1>2, <2>1 DEF Deleting
    <2> QED BY <1>1, <1>2, <2>1, <2>2 DEF EventInv, CoreInv, KernelTypeOK
  <1>5. \A u \in OSTCBList : u # t => Stays(u)
    <2> SUFFICES ASSUME NEW u \in OSTCBList, u # t PROVE Stays(u)
      OBVIOUS
    <2>1. u \in Tcb \ {t} /\ (OSTCBPendTO[u] => OSTCBDly[u] = 0)
      BY <1>4, PenderAt DEF EventInv, CoreInv, KernelTypeOK
    <2>2. Pending(u) => Pending(u)' /\ loc'[u] = loc[u]
      BY <1>1, <1>4, <2>1 DEF Pending
    <2> QED BY <1>2, <1>4, <2>1, <2>2 DEF Stays
  <1>6. TasksKept
    BY <1>2, <1>4, <1>5 DEF TasksKept, EventInv, CoreInv, KernelTypeOK
  <1>7. WaitersKept
    <2> SUFFICES ASSUME NEW e \in Event
        PROVE /\ OSEventTbl'[e] \subseteq OSEventTbl[e]
              /\ \A q \in OSEventTbl[e] :
                   IF q \in OSEventTbl'[e] THEN OSTCBPrioTbl[q] # t ELSE OSTCBPrioTbl[q] = t
      <3>1. \A e \in Event : \A q \in OSEventTbl[e] :
              OSTCBPrioTbl[q] \in OSTCBList /\ OSTCBPrioTbl[q] \in Tcb
        BY WaiterAt
      <3> QED BY <1>2, <1>4, <1>5, <3>1 DEF WaitersKept
    <2>1. \A q \in OSEventTbl[e] : OSTCBPrioTbl[q] = t => q = p /\ OSTCBEventPtr[t] = e
      BY <1>1, WaiterAt
    <2>2. CASE OSTCBEventPtr[t] = e
      <3>1. OSTCBEventPtr[t] # NullEvent
        BY <2>2, CoreAssumption
      <3>2. OSEventTbl'[e] = OSEventTbl[e] \ {p}
        BY <1>2, <2>2, <3>1 DEF EventInv, CoreInv, KernelTypeOK
      <3>3. OSTCBPrioTbl[p] = t
        BY DEF t
      <3> QED BY <2>1, <3>2, <3>3
    <2>3. CASE OSTCBEventPtr[t] # e
      <3>1. OSEventTbl'[e] = OSEventTbl[e]
        BY <1>2, <2>3 DEF EventInv, CoreInv, KernelTypeOK
      <3> QED BY <2>1, <2>3, <3>1
    <2> QED BY <2>2, <2>3
  <1>8. NewTcbsClean'
    <2>1. \A u \in Tcb : at'[u] = "tcblink" =>
            /\ at[u] = "tcblink" /\ loc'[u] = loc[u] /\ loc[u].tcb \in Tcb \ {t}
      BY <1>1, <1>4 DEF EventInv, CoreInv, KernelTypeOK, CreationsApart, Locals
    <2> QED BY <1>2, <1>4, <2>1 DEF EventInv, WaitsExact, NewTcbsClean
  <1>9. PlacesKept /\ NoPendLocked'
    BY <1>1, <1>2, <1>4 DEF PlacesKept, NoPendLocked, Pending, Elsewhere, Making
  <1> QED BY <1>6, <1>7, <1>8, <1>9 DEF Framed

\* OSTaskDel, second region: the victim is in no wait list any more.
LEMMA DelFreeFramed == ASSUME EventInv, OSTaskDel_Free PROVE Framed
  <1> DEFINE me == OSTCBCur
             p == loc[me].prio
             t == loc[me].tcb
  <1>1. /\ OSIntNesting = 0 /\ me \in Tcb /\ at[me] = "delwin" /\ "OSTaskDel" \in TaskCalls
        /\ p \in Prio /\ t \in Tcb /\ OSTCBPrioTbl[p] = t /\ Deleting(t)
    BY DEF OSTaskDel_Free, InTask, EventInv, CoreInv, KernelTypeOK, DeletionHolds, Deleting, Locals
  <1>2. /\ OSTCBPrioTbl' = [OSTCBPrioTbl EXCEPT ![p] = NullTcb]
        /\ OSTCBList' = OSTCBList \ {t}
        /\ at' = [at EXCEPT ![t] = "app", ![me] = "sched"]
        /\ loc' = [loc EXCEPT ![t] = NoLocals, ![me] = NoLocals]
        /\ UNCHANGED <<OSTCBPrio, OSTCBEventPtr, OSTCBStat, OSTCBPendTO, OSTCBDly, OSEventTbl,
                       OSTCBCur>>
    BY DEF OSTaskDel_Free, tcbVars, cpuVars
  <1> HIDE DEF p, t
  <1>3. /\ \A q \in Prio \ {p} : OSTCBPrioTbl'[q] = OSTCBPrioTbl[q]
        /\ at'[me] = "sched" /\ (t # me => at'[t] = "app")
        /\ \A u \in Tcb \ {me, t} : at'[u] = at[u] /\ loc'[u] = loc[u]
        /\ \A u \in Tcb : ~Deleting(u)' /\ (Deleting(u) => u = t)
    BY <1>1, <1>2 DEF Deleting, t, EventInv, CoreInv, KernelTypeOK
  <1>4. \A u \in OSTCBList : u # t => Stays(u)
    <2> SUFFICES ASSUME NEW u \in OSTCBList, u # t PROVE Stays(u)
      OBVIOUS
    <2>0. u \in Tcb
      BY DEF EventInv, CoreInv, KernelTypeOK
    <2>1. ~Deleting(u) /\ (OSTCBPendTO[u] => OSTCBDly[u] = 0)
      BY <1>3, <2>0, PenderAt
    <2>2. Pending(u) => Pending(u)' /\ loc'[u] = loc[u]
      BY <1>1, <1>3, <2>0 DEF Pending
    <2> QED BY <1>2, <2>0, <2>1, <2>2 DEF Stays
  <1>5. TasksKept
    BY <1>2, <1>4 DEF TasksKept
  <1>6. WaitersKept
    <2>1. \A e \in Event : \A q \in OSEventTbl[e] :
            /\ q \in Prio \ {p} /\ OSTCBPrioTbl[q] \in OSTCBList /\ OSTCBPrioTbl[q] \in Tcb
            /\ OSTCBPrioTbl[q] # t
      BY <1>1, WaiterAt
    <2> QED BY <1>2, <1>3, <1>4, <2>1 DEF WaitersKept
  <1>7. NewTcbsClean'
    BY <1>1, <1>2, <1>3 DEF EventInv, WaitsExact, NewTcbsClean
  <1>8. PlacesKept /\ NoPendLocked'
    BY <1>1, <1>2, <1>3 DEF PlacesKept, NoPendLocked, Pending, Elsewhere, Making
  <1> QED BY <1>5, <1>6, <1>7, <1>8 DEF Framed

\* A step of the kernel keeps EventInv: whoever is inside a service of a block stays
\* there, unless he is deleted, and nobody enters a wait list.
LEMMA KernelKeepsEvents ==
  ASSUME EventInv, SafeUse, Inherits => NamesSelf, "OSTaskChangePrio" \notin TaskCalls,
         KernelStep, UNCHANGED OSEventType
  PROVE  /\ EventInv' /\ PlacesKept
         /\ \A e \in Event : OSEventTbl'[e] \subseteq OSEventTbl[e]
         /\ RunsHighest => RunsHighest'
  <1>1. Kept
    BY StepKeeps DEF EventInv
  <1>2. RunnerReady'
    BY RunnerStays DEF EventInv, WaitsExact
  <1>3. Framed
    <2>1. CASE TaskStep
      <3>1. \A p, q \in UserPrio : ~OSTaskChangePrio(p, q)
        BY DEF OSTaskChangePrio, Call, TaskCall, IsrCall, SafeUse
      <3> QED BY <2>1, <3>1, TakeTcbFramed, LinkFramed, ReserveFramed, DelFreeFramed, DelFramed,
                 SuspendFramed DEF TaskStep
    <2>2. CASE TimeStep
      BY <2>2, DelayFramed, DelayResumeFramed DEF TimeStep, UserPrio
    <2> QED BY <1>1, <2>1, <2>2, InterruptFramed, TickFramed, SchedFramed, LockFramed
            DEF KernelStep, Kept
  <1> QED BY <1>1, <1>2, <1>3, FrameKeeps DEF Kept, Framed, WaitersKept

---------------------------------------------------------------------------
\* The regions of the services.

\* Nothing happens to the kernel.
LEMMA EventStutters ==
  ASSUME EventInv, UNCHANGED coreVars, UNCHANGED OSEventType
  PROVE  EventInv' /\ PlacesKept /\ (RunsHighest => RunsHighest')
  <1>1. /\ UNCHANGED <<OSRdyTbl, OSEventTbl, OSLockNesting, at, loc, OSTCBPrio, OSTCBStat, OSTCBDly, OSTCBPendTO>>
        /\ UNCHANGED <<OSTCBEventPtr, OSTCBPrioTbl, OSTCBList, OSTCBCur, OSPrioCur, OSIntNesting>>
    BY DEF coreVars, tcbVars, tblVars, cpuVars
  <1>2. CoreInv'
    BY StutterKeeps DEF EventInv, Kept
  <1>3. PlacesKept /\ NoPendLocked' /\ RunnerReady' /\ (RunsHighest => RunsHighest')
    BY <1>1 DEF EventInv, WaitsExact, PlacesKept, NoPendLocked, Pending, RunnerReady, RunsHighest, Settled
  <1>4. (\A t \in Tcb : (Deleting(t)' <=> Deleting(t)) /\ (Pending(t) => Pending(t)'))
    BY <1>1 DEF Deleting, Pending
  <1>5. Framed
    BY <1>1, <1>3, <1>4, SimpleFrame DEF EventInv, WaitsExact, PendLinked, CoreInv, KernelTypeOK
  <1> QED BY <1>2, <1>3, <1>5, FrameKeeps


\* The task that runs in a region of a service is in use; inside a pend, it is ready.
LEMMA RunnerAt ==
  ASSUME EventInv, OSIntNesting = 0, at[OSTCBCur] \in Points
  PROVE  /\ OSTCBCur \in Tcb /\ OSTCBCur \in OSTCBList /\ \A t \in Tcb : ~Deleting(t)
         /\ OSTCBPrio[OSTCBCur] \in Prio
         /\ at[OSTCBCur] # "pendwake" => OSTCBEventPtr[OSTCBCur] = NullEvent
         /\ at[OSTCBCur] \in {"pend", "pendwake"} =>
              /\ OSTCBCur # Idle /\ OSLockNesting = 0 /\ loc[OSTCBCur].ev \in Event
              /\ OSTCBPrio[OSTCBCur] \in OSRdyTbl
              /\ OSTCBStat[OSTCBCur] = {} /\ OSTCBDly[OSTCBCur] = 0
  <1>1. /\ OSTCBCur \in Tcb /\ OSTCBCur \in OSTCBList /\ OSLockNesting \in Nat
        /\ OSTCBPrio[OSTCBCur] \in Prio
    BY DEF EventInv, CoreInv, KernelTypeOK, CurrentKnown, Points
  <1>2. \A t \in Tcb : ~Deleting(t)
    BY DEF Deleting, Points
  <1>3. at[OSTCBCur] # "pendwake" => OSTCBEventPtr[OSTCBCur] = NullEvent
    BY <1>1, <1>2, PenderAt DEF Pending, Points
  <1>4. ASSUME at[OSTCBCur] \in {"pend", "pendwake"}
        PROVE  /\ OSTCBCur # Idle /\ OSLockNesting = 0 /\ loc[OSTCBCur].ev \in Event
               /\ OSTCBPrio[OSTCBCur] \in OSRdyTbl
    BY <1>1, <1>4 DEF EventInv, CoreInv, IdleStays, WaitsExact, NoPendLocked, PendersKnow, Pending,
                      RunnerReady, Settled
  <1> QED BY <1>1, <1>2, <1>3, <1>4 DEF EventInv, CoreInv, ReadyIffNotWaiting

\* The wait lists and the TCBs agree if who is listed is exactly who waits.
LEMMA WaitListsFrom ==
  ASSUME CoreInv',
         \A f \in Event : \A q \in Prio :
           q \in OSEventTbl'[f]
             <=> \E t \in OSTCBList' : ~Deleting(t)' /\ OSTCBPrio'[t] = q /\ OSTCBEventPtr'[t] = f
  PROVE  WaitListExact' /\ WaitersStay' /\ WaitersRanked'
  <1>1. /\ \A f \in Event : OSEventTbl'[f] \subseteq Prio
        /\ \A t \in OSTCBList' : /\ OSTCBPrioTbl'[OSTCBPrio'[t]] = t /\ t \in Tcb
                                 /\ OSTCBPrio'[t] \in Prio
                                 /\ OSTCBEventPtr'[t] \in Event \cup {NullEvent}
    BY DEF CoreInv, KernelTypeOK, TablesAgree
  <1>2. \A f \in Event : \A q \in OSEventTbl'[f] :
          /\ HasTcb(q)' /\ OSTCBEventPtr'[OSTCBPrioTbl'[q]] = f
          /\ ~Deleting(OSTCBPrioTbl[q])' /\ OSTCBPrio'[OSTCBPrioTbl'[q]] = q
    BY <1>1, CoreAssumption DEF HasTcb
  <1>3. \A t \in OSTCBList' : OSTCBEventPtr'[t] # NullEvent /\ ~Deleting(t)'
          => OSTCBPrio'[t] \in OSEventTbl'[OSTCBEventPtr'[t]]
    BY <1>1
  <1> QED BY <1>2, <1>3 DEF WaitListExact, WaitersStay, WaitersRanked

LEMMA WaitersAre ==
  ASSUME EventInv, NEW f \in Event, NEW q \in Prio
  PROVE  q \in OSEventTbl[f]
           <=> \E t \in OSTCBList : ~Deleting(t) /\ OSTCBPrio[t] = q /\ OSTCBEventPtr[t] = f
  <1>1. \A t \in OSTCBList : ~Deleting(t) /\ OSTCBEventPtr[t] = f => OSTCBPrio[t] \in OSEventTbl[f]
    BY PenderAt, CoreAssumption
  <1> QED BY <1>1, WaiterAt

\* What a region does to where tasks stand is nothing to those inside a pend or a
\* creation, unless it begins one.
LEMMA RegionPlaces ==
  ASSUME EventInv, PlaceTypes, NEW l \in (Points \cup {"sched", "pendwait"}), Moves(Points, l),
         l # "pendwake",
         OSIntNesting = 0 /\ l = "pend" => OSLockNesting = 0 /\ loc'[OSTCBCur].ev \in Event,
         OSIntNesting = 0 /\ l = "pendwait" => at[OSTCBCur] = "pend" /\ loc' = loc,
         UNCHANGED <<OSLockNesting, cpuVars>>
  PROVE  /\ PendersKnow' /\ NoPendLocked'
         /\ \A t \in Tcb : \/ Making(t)' => Making(t) /\ loc'[t] = loc[t]
                           \/ t = OSTCBCur /\ OSIntNesting = 0 /\ l \in {"take", "qinit", "create"}
         /\ \A t \in Tcb : Deleting(t)' <=> Deleting(t)
         /\ \A t \in Tcb : at'[t] = "tcblink" => at[t] = "tcblink" /\ loc'[t] = loc[t]
  <1>1. OSTCBCur \in Tcb /\ OSTCBCur' = OSTCBCur /\ OSIntNesting' = OSIntNesting
    BY DEF EventInv, CoreInv, KernelTypeOK, cpuVars
  <1>2. PendersKnow'
    BY <1>1 DEF Moves, PendersKnow, Pending, EventInv, WaitsExact
  <1>3. NoPendLocked'
    BY <1>1 DEF Moves, NoPendLocked, Pending, EventInv, WaitsExact
  <1>4. \A t \in Tcb : \/ Making(t)' => Making(t) /\ loc'[t] = loc[t]
                       \/ t = OSTCBCur /\ OSIntNesting = 0 /\ l \in {"take", "qinit", "create"}
    BY <1>1 DEF Moves, Making, Points
  <1>5. \A t \in Tcb : Deleting(t)' <=> Deleting(t)
    BY <1>1 DEF Moves, Deleting, Points
  <1>6. \A t \in Tcb : at'[t] = "tcblink" => at[t] = "tcblink" /\ loc'[t] = loc[t]
    BY <1>1 DEF Moves, Points
  <1> QED BY <1>2, <1>3, <1>4, <1>5, <1>6

\* A region that touches neither a TCB nor a wait list: most of them.  A block that
\* changes its type has nobody in its list, and nobody is making it any more.
LEMMA QuietKeeps ==
  ASSUME EventInv, PlaceTypes, NEW l \in ((Points \cup {"sched"}) \ {"pendwake"}), Moves(Points, l),
         UNCHANGED <<OSRdyTbl, OSEventTbl, OSLockNesting, tcbVars, tblVars, cpuVars>>,
         OSIntNesting = 0 => OSTCBEventPtr[OSTCBCur] = NullEvent,
         OSIntNesting = 0 /\ l = "pend" => OSLockNesting = 0 /\ loc'[OSTCBCur].ev \in Event,
         OSIntNesting = 0 /\ l \in {"take", "qinit", "create"} =>
           /\ loc'[OSTCBCur].ev \in Event /\ OSEventType[loc'[OSTCBCur].ev] = "UNUSED"
           /\ \A t \in Tcb \ {OSTCBCur} : Making(t) => loc[t].ev # loc'[OSTCBCur].ev,
         \A f \in Event : OSEventType'[f] # OSEventType[f] =>
           OSEventTbl[f] = {} /\ \A t \in Tcb : Making(t)' => loc'[t].ev # f
  PROVE  EventInv' /\ (RunsHighest => RunsHighest')
  <1>1. /\ UNCHANGED <<OSTCBPrio, OSTCBStat, OSTCBDly, OSTCBPendTO, OSTCBEventPtr, OSTCBPrioTbl,
                       OSTCBList, OSTCBFreeList, OSTCBCur, OSIntNesting>>
        /\ OSTCBCur \in Tcb /\ CoreInv
    BY DEF tcbVars, tblVars, cpuVars, EventInv, CoreInv, KernelTypeOK
  <1>2. /\ PendersKnow' /\ NoPendLocked'
        /\ \A t \in Tcb : \/ Making(t)' => Making(t) /\ loc'[t] = loc[t]
                          \/ t = OSTCBCur /\ OSIntNesting = 0 /\ l \in {"take", "qinit", "create"}
        /\ \A t \in Tcb : Deleting(t)' <=> Deleting(t)
        /\ \A t \in Tcb : at'[t] = "tcblink" => at[t] = "tcblink" /\ loc'[t] = loc[t]
    BY RegionPlaces DEF Points
  <1>3. CoreInv' /\ (RunsHighest => RunsHighest')
    <2>1. ReadyIffNotWaiting' /\ ReadyIsDispatchable'
      BY <1>1, <1>2, TaskAt DEF CoreInv, KernelTypeOK, ReadyIffNotWaiting, ReadyIsDispatchable, HasTcb
    <2> QED BY <1>1, <2>1, ServiceKeeps DEF CoreInv, KernelTypeOK
  <1>4. WaitListExact' /\ WaitersStay' /\ WaitersRanked'
    <2>1. OSTCBList \subseteq Tcb
      BY DEF EventInv, CoreInv, KernelTypeOK
    <2> QED BY <1>1, <1>2, <1>3, <2>1, WaitersAre, WaitListsFrom
  <1>5. PendLinked'
    <2> SUFFICES ASSUME NEW t \in OSTCBList, ~Deleting(t)
        PROVE /\ OSTCBEventPtr[t] # NullEvent <=> OSTCBPendTO[t] \/ OSTCBStat[t] \cap PendAny # {}
              /\ OSTCBEventPtr[t] # NullEvent =>
                   /\ Pending(t)' /\ loc'[t].ev = OSTCBEventPtr[t]
                   /\ OSTCBStat[t] \cap PendAny \subseteq {OSEventType'[OSTCBEventPtr[t]]}
              /\ OSTCBPendTO[t] => OSTCBDly[t] = 0
      BY <1>1, <1>2 DEF PendLinked, EventInv, CoreInv, KernelTypeOK
    <2>1. t \in Tcb
      BY PenderAt
    <2>2. OSTCBEventPtr[t] # NullEvent => (Pending(t)' <=> Pending(t)) /\ loc'[t] = loc[t]
      BY <1>1, <2>1 DEF Moves, Pending
    <2> QED BY <2>2, PenderAt
  <1>6. NewTcbsClean' /\ RunnerReady'
    BY <1>1, <1>2 DEF EventInv, WaitsExact, NewTcbsClean, RunnerReady, Settled, Moves, Points
  <1>7. BlocksApart'
    <2>1. \A f \in Event : OSEventType'[f] = "UNUSED" => OSEventTbl'[f] = {}
      BY <1>1 DEF EventInv, BlocksApart
    <2>2. \A t \in Tcb \ {OSTCBCur} : Making(t)' => Making(t) /\ loc'[t] = loc[t]
      BY <1>2
    <2>3. \A t \in Tcb : Making(t)' => loc'[t].ev \in Event /\ OSEventType[loc'[t].ev] = "UNUSED"
      BY <1>1, <1>2, <2>2 DEF EventInv, BlocksApart
    <2>4. \A t, u \in Tcb : t # u /\ Making(t)' /\ Making(u)' => loc'[t].ev # loc'[u].ev
      BY <1>1, <1>2, <2>2 DEF EventInv, BlocksApart
    <2>5. \A t \in Tcb : Making(t)' => OSEventType'[loc'[t].ev] = "UNUSED"
      BY <2>3
    <2> QED BY <2>1, <2>3, <2>4, <2>5, Zenon DEF BlocksApart
  <1> QED BY <1>2, <1>3, <1>4, <1>5, <1>6, <1>7 DEF EventInv, WaitsExact

\* OS_EventTaskRdy for some of the tasks that wait for e: each waits for nothing of e any
\* more, be it timed out or suspended, and nobody else is disturbed.
LEMMA ServeKeeps ==
  ASSUME EventInv, NEW e \in Event, NEW P \in SUBSET OSEventTbl[e],
         OS_EventTaskRdy(e, P, OSEventType[e]),
         PlaceTypes, NEW l \in {"app", "sched"}, Moves(Points \ {"pendwake"}, l),
         UNCHANGED <<OSLockNesting, tblVars, cpuVars>>,
         \A f \in Event : OSEventType'[f] # OSEventType[f] =>
           OSEventTbl'[f] = {} /\ \A t \in Tcb : Making(t)' => loc'[t].ev # f
  PROVE  /\ EventInv'
         /\ OSEventTbl'[e] = OSEventTbl[e] \ P
         /\ \A f \in Event \ {e} : OSEventTbl'[f] = OSEventTbl[f]
         /\ RunsHighest /\ (OSIntNesting # 0 \/ l = "sched" \/ P = {}) => RunsHighest'
  <1> DEFINE msk == OSEventType[e]
             W == {OSTCBPrioTbl[p] : p \in P}
  <1>1. /\ UNCHANGED <<OSTCBPrio, OSTCBPrioTbl, OSTCBList, OSTCBFreeList, OSTCBCur, OSIntNesting>>
        /\ OSTCBCur \in Tcb /\ CoreInv /\ OSTCBList \subseteq Tcb /\ P \subseteq Prio
    BY DEF OS_EventTaskRdy, tblVars, cpuVars, EventInv, CoreInv, KernelTypeOK
  <1>2. /\ \A p \in P : OSTCBPrioTbl[p] \in W
        /\ \A t \in W : /\ t \in OSTCBList /\ t \in Tcb /\ ~Deleting(t) /\ OSTCBEventPtr[t] = e
                        /\ OSTCBPrio[t] \in P /\ OSTCBPrioTbl[OSTCBPrio[t]] = t
                        /\ OSTCBStat[t] \cap PendAny \subseteq {msk}
        /\ \A t \in OSTCBList : t \in W <=> OSTCBPrio[t] \in P
    <2>1. \A p \in P : /\ OSTCBPrioTbl[p] \in OSTCBList /\ ~Deleting(OSTCBPrioTbl[p])
                       /\ OSTCBEventPtr[OSTCBPrioTbl[p]] = e /\ OSTCBPrio[OSTCBPrioTbl[p]] = p
      BY WaiterAt
    <2>2. \A t \in OSTCBList : OSTCBPrioTbl[OSTCBPrio[t]] = t
      BY DEF EventInv, CoreInv, TablesAgree
    <2>3. \A t \in W : OSTCBStat[t] \cap PendAny \subseteq {msk}
      BY <2>1, PenderAt, CoreAssumption
    <2> QED BY <1>1, <2>1, <2>2, <2>3
  <1>3. /\ OSEventTbl' = [OSEventTbl EXCEPT ![e] = @ \ P]
        /\ OSTCBDly' = [t \in Tcb |-> IF t \in W THEN 0 ELSE OSTCBDly[t]]
        /\ OSTCBEventPtr' = [t \in Tcb |-> IF t \in W THEN NullEvent ELSE OSTCBEventPtr[t]]
        /\ OSTCBPendTO' = [t \in Tcb |-> IF t \in W THEN FALSE ELSE OSTCBPendTO[t]]
        /\ OSTCBStat' = [t \in Tcb |-> IF t \in W THEN OSTCBStat[t] \ {msk} ELSE OSTCBStat[t]]
        /\ OSRdyTbl' = OSRdyTbl \cup {p \in P : OSTCBStat[OSTCBPrioTbl[p]] \subseteq {msk}}
    BY Zenon DEF OS_EventTaskRdy, EventTaskRdy
  <1> HIDE DEF msk, W
  <1>4. /\ \A t \in W : /\ OSTCBEventPtr'[t] = NullEvent /\ OSTCBDly'[t] = 0
                        /\ OSTCBStat'[t] = OSTCBStat[t] \ {msk} /\ ~OSTCBPendTO'[t]
        /\ \A t \in Tcb \ W :
             /\ OSTCBEventPtr'[t] = OSTCBEventPtr[t] /\ OSTCBPendTO'[t] = OSTCBPendTO[t]
             /\ OSTCBStat'[t] = OSTCBStat[t] /\ OSTCBDly'[t] = OSTCBDly[t]
    BY <1>2, <1>3, Zenon
  <1>5. OSEventTbl'[e] = OSEventTbl[e] \ P /\ \A f \in Event \ {e} : OSEventTbl'[f] = OSEventTbl[f]
    BY <1>3 DEF EventInv, CoreInv, KernelTypeOK
  <1>6. /\ PendersKnow' /\ NoPendLocked'
        /\ \A t \in Tcb : Making(t)' => Making(t) /\ loc'[t] = loc[t]
        /\ \A t \in Tcb : Deleting(t)' <=> Deleting(t)
        /\ \A t \in Tcb : at'[t] = "tcblink" => at[t] = "tcblink" /\ loc'[t] = loc[t]
    <2>1. Moves(Points, l) /\ l \in Points \cup {"sched", "pendwait"}
      BY DEF Moves, Points
    <2> QED BY <2>1, RegionPlaces
  <1>7. \A t \in OSTCBList : ~Deleting(t) =>
          (OSTCBPrio[t] \in OSRdyTbl' <=> OSTCBStat'[t] = {} /\ OSTCBDly'[t] = 0)
    <2> SUFFICES ASSUME NEW t \in OSTCBList, ~Deleting(t)
                 PROVE  OSTCBPrio[t] \in OSRdyTbl' <=> OSTCBStat'[t] = {} /\ OSTCBDly'[t] = 0
      OBVIOUS
    <2>1. t \in Tcb /\ (OSTCBPrio[t] \in OSRdyTbl <=> OSTCBStat[t] = {} /\ OSTCBDly[t] = 0)
      BY <1>1 DEF EventInv, CoreInv, ReadyIffNotWaiting
    <2>2. CASE t \in W
      <3>1. OSTCBPrio[t] \in OSRdyTbl' <=> OSTCBPrio[t] \in OSRdyTbl \/ OSTCBStat[t] \subseteq {msk}
        BY <1>2, <1>3, <2>2
      <3> QED BY <1>4, <2>1, <2>2, <3>1
    <2>3. CASE t \notin W
      <3>1. OSTCBPrio[t] \in OSRdyTbl' <=> OSTCBPrio[t] \in OSRdyTbl
        BY <1>2, <1>3, <2>3
      <3> QED BY <1>4, <2>1, <2>3, <3>1
    <2> QED BY <2>2, <2>3
  <1>8. /\ CoreInv'
        /\ RunsHighest /\ (OSIntNesting # 0 \/ l = "sched" \/ P = {}) => RunsHighest'
    <2>1. Moves(Points, l) /\ l \in Points \cup {"sched", "pendwait"}
      BY DEF Moves, Points
    <2>2. /\ OSEventTbl' \in [Event -> SUBSET Prio] /\ OSRdyTbl' \subseteq Prio
          /\ OSTCBEventPtr' \in [Tcb -> Event \cup {NullEvent}]
          /\ OSTCBStat' \in [Tcb -> SUBSET Stat]
      BY <1>1, <1>3 DEF CoreInv, KernelTypeOK
    <2>3. OSTCBPendTO' \in [Tcb -> BOOLEAN]
      BY <1>1, <1>3, Zenon DEF CoreInv, KernelTypeOK
    <2>4. OSTCBDly' \in [Tcb -> Ticks]
      BY <1>1, <1>3, CoreAssumption DEF CoreInv, KernelTypeOK, Ticks
    <2>5. ReadyIffNotWaiting'
      BY <1>1, <1>6, <1>7 DEF ReadyIffNotWaiting
    <2>6. ReadyIsDispatchable'
      <3>1. \A q \in OSRdyTbl' :
              /\ q \in Prio /\ HasTcb(q) /\ OSTCBPrio[OSTCBPrioTbl[q]] = q
              /\ ~Deleting(OSTCBPrioTbl[q]) /\ OSTCBPrioTbl[q] \in OSTCBList
        <4>1. \A q \in P : /\ HasTcb(q) /\ OSTCBPrio[OSTCBPrioTbl[q]] = q
                           /\ ~Deleting(OSTCBPrioTbl[q]) /\ OSTCBPrioTbl[q] \in OSTCBList
          BY WaiterAt
        <4>2. \A q \in OSRdyTbl : /\ q \in Prio /\ HasTcb(q) /\ OSTCBPrio[OSTCBPrioTbl[q]] = q
                                  /\ ~Deleting(OSTCBPrioTbl[q]) /\ OSTCBPrioTbl[q] \in OSTCBList
          BY <1>1, TaskAt DEF CoreInv, ReadyIsDispatchable, KernelTypeOK
        <4> QED BY <1>1, <1>3, <4>1, <4>2
      <3>2. \A t \in OSTCBList : t \notin OSTCBFreeList /\ t \in Tcb
        BY <1>1 DEF CoreInv, TablesAgree
      <3> QED BY <1>1, <1>6, <3>1, <3>2 DEF ReadyIsDispatchable, HasTcb
    <2>7. \A t \in Tcb : Deleting(t) \/ t \notin OSTCBList =>
            OSTCBStat'[t] = OSTCBStat[t] /\ OSTCBDly'[t] = OSTCBDly[t]
      BY <1>2, <1>4
    <2>8. P = {} => OSRdyTbl' = OSRdyTbl
      BY <1>3
    <2> QED BY <1>1, <2>1, <2>2, <2>3, <2>4, <2>5, <2>6, <2>7, <2>8, ServiceKeeps
  <1>9. WaitListExact' /\ WaitersStay' /\ WaitersRanked'
    <2> SUFFICES ASSUME NEW f \in Event, NEW q \in Prio
        PROVE  q \in OSEventTbl'[f]
                 <=> \E t \in OSTCBList : ~Deleting(t) /\ OSTCBPrio[t] = q /\ OSTCBEventPtr'[t] = f
      BY <1>1, <1>6, <1>8, WaitListsFrom
    <2>1. q \in OSEventTbl'[f] <=> q \in OSEventTbl[f] /\ ~(f = e /\ q \in P)
      BY <1>5
    <2>2. \A t \in OSTCBList : OSTCBEventPtr'[t] = f <=> OSTCBEventPtr[t] = f /\ t \notin W
      BY <1>1, <1>4, CoreAssumption
    <2>3. \A t \in W : OSTCBEventPtr[t] = e /\ OSTCBPrio[t] \in P
      BY <1>2
    <2>4. \A t \in OSTCBList : t \in W <=> OSTCBPrio[t] \in P
      BY <1>2
    <2>5. q \in OSEventTbl[f]
             <=> \E t \in OSTCBList : ~Deleting(t) /\ OSTCBPrio[t] = q /\ OSTCBEventPtr[t] = f
      BY WaitersAre
    <2> QED BY <2>1, <2>2, <2>3, <2>4, <2>5
  <1>10. PendLinked'
    <2> SUFFICES ASSUME NEW t \in OSTCBList, ~Deleting(t)
        PROVE /\ OSTCBEventPtr'[t] # NullEvent <=> OSTCBPendTO'[t] \/ OSTCBStat'[t] \cap PendAny # {}
              /\ OSTCBEventPtr'[t] # NullEvent =>
                   /\ Pending(t)' /\ loc'[t].ev = OSTCBEventPtr'[t]
                   /\ OSTCBStat'[t] \cap PendAny \subseteq {OSEventType'[OSTCBEventPtr'[t]]}
              /\ OSTCBPendTO'[t] => OSTCBDly'[t] = 0
      BY <1>1, <1>6 DEF PendLinked
    <2>1. CASE t \in W
      BY <1>2, <1>4, <2>1
    <2>2. CASE t \notin W
      <3>1. /\ OSTCBEventPtr'[t] = OSTCBEventPtr[t] /\ OSTCBPendTO'[t] = OSTCBPendTO[t]
            /\ OSTCBStat'[t] = OSTCBStat[t] /\ OSTCBDly'[t] = OSTCBDly[t] /\ t \in Tcb
        BY <1>1, <1>4, <2>2
      <3>2. OSTCBEventPtr[t] # NullEvent => (Pending(t)' <=> Pending(t)) /\ loc'[t] = loc[t]
        <4>1. OSIntNesting = 0 => OSTCBEventPtr[OSTCBCur] = NullEvent
          BY RunnerAt DEF Moves
        <4> QED BY <3>1, <4>1 DEF Moves, Pending
      <3>3. OSTCBEventPtr[t] # NullEvent =>
              OSEventType'[OSTCBEventPtr[t]] = OSEventType[OSTCBEventPtr[t]]
        BY <1>2, <1>5, <2>2, PenderAt
      <3> QED BY <3>1, <3>2, <3>3, PenderAt
    <2> QED BY <2>1, <2>2
  <1>11. NewTcbsClean'
    <2>1. \A t \in Tcb : at'[t] = "tcblink" =>
            at[t] = "tcblink" /\ loc'[t] = loc[t] /\ loc[t].tcb \in Tcb \ W
      BY <1>1, <1>2, <1>6 DEF CoreInv, KernelTypeOK, CreationsApart, Locals
    <2> QED BY <1>4, <2>1 DEF EventInv, WaitsExact, NewTcbsClean
  <1>12. RunnerReady'
    BY <1>1, <1>3 DEF EventInv, WaitsExact, RunnerReady, Settled, Moves, Points
  <1>13. BlocksApart'
    <2>1. \A f \in Event : OSEventType'[f] = "UNUSED" => OSEventTbl'[f] = {}
      BY <1>5 DEF EventInv, BlocksApart
    <2>2. \A t \in Tcb : Making(t)' =>
            /\ loc'[t].ev \in Event /\ OSEventType[loc'[t].ev] = "UNUSED"
            /\ OSEventType'[loc'[t].ev] = OSEventType[loc'[t].ev]
      BY <1>6 DEF EventInv, BlocksApart
    <2>3. \A t, u \in Tcb : t # u /\ Making(t)' /\ Making(u)' => loc'[t].ev # loc'[u].ev
      BY <1>6 DEF EventInv, BlocksApart
    <2> QED BY <2>1, <2>2, <2>3, Zenon DEF BlocksApart
  <1> QED BY <1>5, <1>6, <1>8, <1>9, <1>10, <1>11, <1>12, <1>13 DEF EventInv, WaitsExact

\* The region of a pend that makes the caller wait, for at most n ticks.
LEMMA WaitKeeps ==
  ASSUME EventInv, InTask("pend"), NEW type \in PendAny, OSEventType[loc[OSTCBCur].ev] = type,
         NEW n \in Ticks, PendWait(loc[OSTCBCur].ev, type, n),
         UNCHANGED <<OSTCBPrio, OSLockNesting, loc, tblVars, cpuVars, OSEventType>>
  PROVE  /\ EventInv'
         /\ OSEventTbl' = [OSEventTbl EXCEPT ![loc[OSTCBCur].ev] = @ \cup {OSTCBPrio[OSTCBCur]}]
         /\ RunsHighest => RunsHighest'
  <1> DEFINE me == OSTCBCur
             e == loc[me].ev
             p == OSTCBPrio[me]
  <1>1. /\ me \in Tcb /\ me \in OSTCBList /\ me # Idle /\ OSIntNesting = 0 /\ OSLockNesting = 0
        /\ at[me] = "pend" /\ (\A t \in Tcb : ~Deleting(t)) /\ OSTCBEventPtr[me] = NullEvent
        /\ OSTCBStat[me] = {} /\ OSTCBDly[me] = 0 /\ p \in OSRdyTbl /\ e \in Event /\ p \in Prio
        /\ OSTCBList \subseteq Tcb /\ CoreInv
    BY RunnerAt DEF InTask, Points, EventInv, CoreInv, KernelTypeOK
  <1>2. UNCHANGED <<OSTCBPrioTbl, OSTCBList, OSTCBFreeList, OSTCBCur, OSIntNesting>>
    BY DEF tblVars, cpuVars
  <1>3. /\ OSTCBEventPtr' = [OSTCBEventPtr EXCEPT ![me] = e]
        /\ OSRdyTbl' = OSRdyTbl \ {p}
        /\ OSEventTbl' = [OSEventTbl EXCEPT ![e] = @ \cup {p}]
        /\ OSTCBStat' = [OSTCBStat EXCEPT ![me] = {type}]
        /\ OSTCBPendTO' = [OSTCBPendTO EXCEPT ![me] = FALSE]
        /\ OSTCBDly' = [OSTCBDly EXCEPT ![me] = n]
        /\ at' = [at EXCEPT ![me] = "pendwait"] /\ UNCHANGED served
    <2>1. [OSTCBStat EXCEPT ![me] = @ \cup {type}] = [OSTCBStat EXCEPT ![me] = {type}]
      BY <1>1 DEF CoreInv, KernelTypeOK
    <2> QED BY <1>1, <2>1 DEF PendWait, OS_EventTaskWait, Goto
  <1>4. OSEventType[e] = type
    OBVIOUS
  <1> HIDE DEF e, p
  <1>5. /\ at'[me] = "pendwait" /\ \A t \in Tcb \ {me} : at'[t] = at[t]
        /\ OSTCBEventPtr'[me] = e /\ OSTCBStat'[me] = {type}
        /\ \A t \in Tcb \ {me} : /\ OSTCBEventPtr'[t] = OSTCBEventPtr[t]
                                 /\ OSTCBStat'[t] = OSTCBStat[t] /\ OSTCBDly'[t] = OSTCBDly[t]
        /\ OSEventTbl'[e] = OSEventTbl[e] \cup {p}
        /\ \A f \in Event \ {e} : OSEventTbl'[f] = OSEventTbl[f]
    BY <1>1, <1>3 DEF CoreInv, KernelTypeOK
  <1>6. OSTCBPendTO'[me] = FALSE /\ \A t \in Tcb \ {me} : OSTCBPendTO'[t] = OSTCBPendTO[t]
    BY <1>1, <1>3 DEF CoreInv, KernelTypeOK
  <1>7. PlaceTypes /\ Moves(Points, "pendwait") /\ "pendwait" \in Points \cup {"sched", "pendwait"}
    BY <1>1, <1>3, <1>5 DEF PlaceTypes, Moves, Points, Label, CoreInv, KernelTypeOK
  <1>8. /\ PendersKnow' /\ NoPendLocked'
        /\ \A t \in Tcb : Making(t)' => Making(t) /\ loc'[t] = loc[t]
        /\ \A t \in Tcb : ~Deleting(t)'
        /\ \A t \in Tcb : at'[t] = "tcblink" => at[t] = "tcblink" /\ loc'[t] = loc[t]
    BY <1>1, <1>7, RegionPlaces
  <1>9. CoreInv' /\ (RunsHighest => RunsHighest')
    <2>1. /\ OSRdyTbl' \subseteq Prio /\ OSEventTbl' \in [Event -> SUBSET Prio]
          /\ OSTCBStat' \in [Tcb -> SUBSET Stat] /\ OSTCBDly' \in [Tcb -> Ticks]
          /\ OSTCBPendTO' \in [Tcb -> BOOLEAN]
          /\ OSTCBEventPtr' \in [Tcb -> Event \cup {NullEvent}]
      BY <1>1, <1>3 DEF CoreInv, KernelTypeOK, Stat
    <2>2. ReadyIffNotWaiting'
      <3> SUFFICES ASSUME NEW t \in OSTCBList, t \in Tcb
                   PROVE  OSTCBPrio[t] \in OSRdyTbl' <=> OSTCBStat'[t] = {} /\ OSTCBDly'[t] = 0
        BY <1>1, <1>2 DEF ReadyIffNotWaiting
      <3>1. CASE t = me
        BY <1>3, <1>5, <3>1 DEF p
      <3>2. CASE t # me
        <4>1. OSTCBPrio[t] # p
          BY <1>1, <3>2, OneTaskPerPrio DEF p, CoreInv
        <4> QED BY <1>1, <1>3, <1>5, <3>2, <4>1 DEF CoreInv, ReadyIffNotWaiting
      <3> QED BY <3>1, <3>2
    <2>3. ReadyIsDispatchable'
      BY <1>1, <1>2, <1>3, <1>8, TaskAt DEF ReadyIsDispatchable, HasTcb, CoreInv, KernelTypeOK
    <2> QED BY <1>1, <1>5, <1>7, <2>1, <2>2, <2>3, ServiceKeeps
  <1>10. WaitListExact' /\ WaitersStay' /\ WaitersRanked'
    <2> SUFFICES ASSUME NEW f \in Event, NEW q \in Prio
        PROVE  q \in OSEventTbl'[f]
                 <=> \E t \in OSTCBList : OSTCBPrio[t] = q /\ OSTCBEventPtr'[t] = f
      BY <1>1, <1>2, <1>8, <1>9, WaitListsFrom
    <2>1. q \in OSEventTbl[f] <=> \E t \in OSTCBList : OSTCBPrio[t] = q /\ OSTCBEventPtr[t] = f
      BY <1>1, WaitersAre
    <2>2. q \in OSEventTbl'[f] <=> q \in OSEventTbl[f] \/ (f = e /\ q = p)
      BY <1>5
    <2>3. \A t \in OSTCBList : OSTCBEventPtr'[t] = f <=> OSTCBEventPtr[t] = f \/ (f = e /\ t = me)
      BY <1>1, <1>5, CoreAssumption
    <2> QED BY <1>1, <2>1, <2>2, <2>3 DEF p
  <1>11. PendLinked'
    <2> SUFFICES ASSUME NEW t \in OSTCBList
        PROVE /\ OSTCBEventPtr'[t] # NullEvent <=> OSTCBPendTO'[t] \/ OSTCBStat'[t] \cap PendAny # {}
              /\ OSTCBEventPtr'[t] # NullEvent =>
                   /\ Pending(t)' /\ loc[t].ev = OSTCBEventPtr'[t]
                   /\ OSTCBStat'[t] \cap PendAny \subseteq {OSEventType[OSTCBEventPtr'[t]]}
              /\ OSTCBPendTO'[t] => OSTCBDly'[t] = 0
      BY <1>1, <1>2 DEF PendLinked
    <2>1. CASE t = me
      BY <1>1, <1>4, <1>5, <1>6, <2>1, CoreAssumption DEF Pending, e
    <2>2. CASE t # me
      <3>1. /\ OSTCBEventPtr'[t] = OSTCBEventPtr[t] /\ OSTCBPendTO'[t] = OSTCBPendTO[t]
            /\ OSTCBStat'[t] = OSTCBStat[t] /\ OSTCBDly'[t] = OSTCBDly[t] /\ t \in Tcb
            /\ (Pending(t)' <=> Pending(t)) /\ ~Deleting(t)
        BY <1>1, <1>5, <1>6, <2>2 DEF Pending
      <3> QED BY <3>1, PenderAt
    <2> QED BY <2>1, <2>2
  <1>12. NewTcbsClean'
    <2>1. \A t \in Tcb : at'[t] = "tcblink" =>
            at[t] = "tcblink" /\ loc'[t] = loc[t] /\ loc[t].tcb \in Tcb \ {me}
      BY <1>1, <1>8 DEF CoreInv, KernelTypeOK, CreationsApart, Locals
    <2> QED BY <1>5, <1>6, <2>1 DEF EventInv, WaitsExact, NewTcbsClean
  <1>13. RunnerReady'
    BY <1>2, <1>5 DEF RunnerReady, Settled
  <1>14. BlocksApart'
    <2>1. \A f \in Event : OSEventType[f] = "UNUSED" => OSEventTbl'[f] = {}
      BY <1>4, <1>5 DEF EventInv, BlocksApart, PendAny
    <2>2. /\ \A t \in Tcb : Making(t)' => loc'[t].ev \in Event /\ OSEventType[loc'[t].ev] = "UNUSED"
          /\ \A t, u \in Tcb : t # u /\ Making(t)' /\ Making(u)' => loc'[t].ev # loc'[u].ev
      BY <1>8 DEF EventInv, BlocksApart
    <2> QED BY <2>1, <2>2, Zenon DEF BlocksApart
  <1> QED BY <1>3, <1>8, <1>9, <1>10, <1>11, <1>12, <1>13, <1>14 DEF EventInv, WaitsExact, e, p

\* OS_EventTO: the task leaves the list that its timeout left it in.
LEMMA TimeoutKeeps ==
  ASSUME EventInv, InTask("pendwake"), OSTCBPendTO[OSTCBCur], OS_EventTO(loc[OSTCBCur].ev),
         PlaceTypes, Moves({"pendwake"}, "app"),
         UNCHANGED <<OSRdyTbl, OSLockNesting, OSTCBPrio, OSTCBDly, tblVars, cpuVars, OSEventType>>
  PROVE  /\ EventInv'
         /\ \A f \in Event : OSEventTbl'[f] \subseteq OSEventTbl[f]
         /\ RunsHighest => RunsHighest'
  <1> DEFINE me == OSTCBCur
             e == loc[me].ev
             p == OSTCBPrio[me]
  <1>1. /\ me \in Tcb /\ me \in OSTCBList /\ me # Idle /\ OSIntNesting = 0 /\ OSLockNesting = 0
        /\ at[me] = "pendwake" /\ (\A t \in Tcb : ~Deleting(t))
        /\ OSTCBStat[me] = {} /\ p \in OSRdyTbl /\ e \in Event /\ p \in Prio
        /\ OSTCBList \subseteq Tcb /\ CoreInv
    BY RunnerAt DEF InTask, Points, EventInv, CoreInv, KernelTypeOK
  <1>2. OSTCBEventPtr[me] = e
    BY <1>1, PenderAt
  <1>3. UNCHANGED <<OSTCBPrioTbl, OSTCBList, OSTCBFreeList, OSTCBCur, OSIntNesting>>
    BY DEF tblVars, cpuVars
  <1>4. /\ OSTCBEventPtr' = [OSTCBEventPtr EXCEPT ![me] = NullEvent]
        /\ OSEventTbl' = [OSEventTbl EXCEPT ![e] = @ \ {p}]
        /\ OSTCBStat' = OSTCBStat
        /\ OSTCBPendTO' = [OSTCBPendTO EXCEPT ![me] = FALSE]
    <2>1. [OSTCBStat EXCEPT ![me] = {}] = OSTCBStat
      BY <1>1 DEF CoreInv, KernelTypeOK
    <2> QED BY <1>1, <2>1 DEF OS_EventTO
  <1> HIDE DEF e, p
  <1>5. /\ OSTCBEventPtr'[me] = NullEvent
        /\ \A t \in Tcb \ {me} : OSTCBEventPtr'[t] = OSTCBEventPtr[t]
        /\ OSEventTbl'[e] = OSEventTbl[e] \ {p}
        /\ \A f \in Event \ {e} : OSEventTbl'[f] = OSEventTbl[f]
    BY <1>1, <1>4 DEF CoreInv, KernelTypeOK
  <1>6. OSTCBPendTO'[me] = FALSE /\ \A t \in Tcb \ {me} : OSTCBPendTO'[t] = OSTCBPendTO[t]
    BY <1>1, <1>4 DEF CoreInv, KernelTypeOK
  <1>7. Moves(Points, "app") /\ "app" \in Points \cup {"sched", "pendwait"}
    BY DEF Moves, Points
  <1>8. /\ PendersKnow' /\ NoPendLocked'
        /\ \A t \in Tcb : Making(t)' => Making(t) /\ loc'[t] = loc[t]
        /\ \A t \in Tcb : ~Deleting(t)'
        /\ \A t \in Tcb : at'[t] = "tcblink" => at[t] = "tcblink" /\ loc'[t] = loc[t]
    BY <1>1, <1>7, RegionPlaces
  <1>9. CoreInv' /\ (RunsHighest => RunsHighest')
    <2>1. /\ OSEventTbl' \in [Event -> SUBSET Prio]
          /\ OSTCBPendTO' \in [Tcb -> BOOLEAN]
          /\ OSTCBEventPtr' \in [Tcb -> Event \cup {NullEvent}]
      BY <1>1, <1>4 DEF CoreInv, KernelTypeOK
    <2>2. ReadyIffNotWaiting' /\ ReadyIsDispatchable'
      BY <1>1, <1>3, <1>4, <1>8, TaskAt
      DEF ReadyIffNotWaiting, ReadyIsDispatchable, HasTcb, CoreInv, KernelTypeOK
    <2> QED BY <1>1, <1>4, <1>7, <2>1, <2>2, ServiceKeeps DEF CoreInv, KernelTypeOK
  <1>10. WaitListExact' /\ WaitersStay' /\ WaitersRanked'
    <2> SUFFICES ASSUME NEW f \in Event, NEW q \in Prio
        PROVE  q \in OSEventTbl'[f]
                 <=> \E t \in OSTCBList : OSTCBPrio[t] = q /\ OSTCBEventPtr'[t] = f
      BY <1>1, <1>3, <1>8, <1>9, WaitListsFrom
    <2>1. q \in OSEventTbl[f] <=> \E t \in OSTCBList : OSTCBPrio[t] = q /\ OSTCBEventPtr[t] = f
      BY <1>1, WaitersAre
    <2>2. q \in OSEventTbl'[f] <=> q \in OSEventTbl[f] /\ ~(f = e /\ q = p)
      BY <1>5
    <2>3. \A t \in OSTCBList : OSTCBEventPtr'[t] = f <=> OSTCBEventPtr[t] = f /\ t # me
      BY <1>1, <1>5, CoreAssumption
    <2>4. \A t \in OSTCBList : OSTCBPrio[t] = p => t = me
      BY <1>1, OneTaskPerPrio DEF p, CoreInv
    <2> QED BY <1>1, <1>2, <2>1, <2>2, <2>3, <2>4 DEF p
  <1>11. PendLinked'
    <2> SUFFICES ASSUME NEW t \in OSTCBList
        PROVE /\ OSTCBEventPtr'[t] # NullEvent <=> OSTCBPendTO'[t] \/ OSTCBStat[t] \cap PendAny # {}
              /\ OSTCBEventPtr'[t] # NullEvent =>
                   /\ Pending(t)' /\ loc'[t].ev = OSTCBEventPtr'[t]
                   /\ OSTCBStat[t] \cap PendAny \subseteq {OSEventType[OSTCBEventPtr'[t]]}
              /\ OSTCBPendTO'[t] => OSTCBDly[t] = 0
      BY <1>1, <1>3, <1>4 DEF PendLinked
    <2>1. CASE t = me
      BY <1>1, <1>5, <1>6, <2>1
    <2>2. CASE t # me
      <3>1. /\ OSTCBEventPtr'[t] = OSTCBEventPtr[t] /\ OSTCBPendTO'[t] = OSTCBPendTO[t]
            /\ t \in Tcb /\ (Pending(t)' <=> Pending(t)) /\ loc'[t] = loc[t] /\ ~Deleting(t)
        BY <1>1, <1>5, <1>6, <2>2 DEF Pending, Moves
      <3> QED BY <3>1, PenderAt
    <2> QED BY <2>1, <2>2
  <1>12. NewTcbsClean'
    <2>1. \A t \in Tcb : at'[t] = "tcblink" =>
            at[t] = "tcblink" /\ loc'[t] = loc[t] /\ loc[t].tcb \in Tcb \ {me}
      BY <1>1, <1>8 DEF CoreInv, KernelTypeOK, CreationsApart, Locals
    <2> QED BY <1>5, <1>6, <2>1 DEF EventInv, WaitsExact, NewTcbsClean
  <1>13. RunnerReady'
    BY <1>1, <1>3 DEF RunnerReady, p
  <1>14. BlocksApart'
    <2>1. \A f \in Event : OSEventType[f] = "UNUSED" => OSEventTbl'[f] = {}
      BY <1>5 DEF EventInv, BlocksApart
    <2>2. /\ \A t \in Tcb : Making(t)' => loc'[t].ev \in Event /\ OSEventType[loc'[t].ev] = "UNUSED"
          /\ \A t, u \in Tcb : t # u /\ Making(t)' /\ Making(u)' => loc'[t].ev # loc'[u].ev
      BY <1>8 DEF EventInv, BlocksApart
    <2> QED BY <2>1, <2>2, Zenon DEF BlocksApart
  <1> QED BY <1>5, <1>8, <1>9, <1>10, <1>11, <1>12, <1>13, <1>14 DEF EventInv, WaitsExact

---------------------------------------------------------------------------
\* Regions that QuietKeeps covers.

\* The check that begins a task's call of a service moves it to the service's point.
LEMMA CheckKeeps ==
  ASSUME EventInv, NEW s, NEW type, NEW e \in Event, NEW n \in Ticks,
         NEW l \in (Points \ {"pendwake", "take", "qinit", "create"}),
         l = "pend" => OSLockNesting = 0, Check(s, type, e, l, n)
  PROVE  /\ EventInv' /\ (RunsHighest => RunsHighest')
         /\ OSTCBCur \in Tcb /\ OSIntNesting = 0 /\ at[OSTCBCur] = "app" /\ at'[OSTCBCur] = l
         /\ s \in TaskCalls /\ loc'[OSTCBCur].ev = e /\ Moves({"app"}, l)
         /\ UNCHANGED <<OSRdyTbl, OSEventTbl, OSLockNesting, tcbVars, tblVars, cpuVars, ecbVars>>
  <1> DEFINE mine == [NoLocals EXCEPT !.ev = e, !.arg = n]
  <1>1. mine \in Locals /\ mine.ev = e
    BY NoLocalsType DEF Locals, NoLocals
  <1>2. /\ OSIntNesting = 0 /\ s \in TaskCalls /\ OSTCBCur # Idle /\ at[OSTCBCur] = "app"
        /\ at' = [at EXCEPT ![OSTCBCur] = l] /\ loc' = [loc EXCEPT ![OSTCBCur] = mine]
        /\ UNCHANGED served /\ OSTCBCur \in Tcb
        /\ UNCHANGED <<OSRdyTbl, OSEventTbl, OSLockNesting, tcbVars, tblVars, cpuVars, ecbVars>>
    BY DEF Check, TaskCall, Goto, Keep, EventInv, CoreInv, KernelTypeOK
  <1> HIDE DEF mine
  <1>3. /\ PlaceTypes /\ at'[OSTCBCur] = l /\ loc'[OSTCBCur].ev = e
        /\ \A t \in Tcb \ {OSTCBCur} : at'[t] = at[t] /\ loc'[t] = loc[t]
    BY <1>1, <1>2 DEF PlaceTypes, EventInv, CoreInv, KernelTypeOK, Label, Points
  <1>4. Moves(Points, l) /\ Moves({"app"}, l)
    BY <1>2, <1>3 DEF Moves, Points
  <1>5. OSTCBEventPtr[OSTCBCur] = NullEvent
    BY <1>2, RunnerAt DEF Points
  <1>6. EventInv' /\ (RunsHighest => RunsHighest')
    BY <1>2, <1>3, <1>4, <1>5, QuietKeeps DEF ecbVars
  <1> QED BY <1>2, <1>3, <1>4, <1>6

\* The last region of a service that leaves TCBs and wait lists alone, in a task or in
\* a handler.
LEMMA ReturnKeeps ==
  ASSUME EventInv, Return("app"),
         OSIntNesting = 0 => at[OSTCBCur] \in Points \ {"app", "pendwake"},
         UNCHANGED <<OSRdyTbl, OSEventTbl, OSLockNesting, tcbVars, tblVars, cpuVars>>,
         \A f \in Event : OSEventType'[f] # OSEventType[f] =>
           OSEventTbl[f] = {} /\ \A t \in Tcb : Making(t)' => loc'[t].ev # f
  PROVE  EventInv' /\ (RunsHighest => RunsHighest') /\ Moves(Points \ {"app", "pendwake"}, "app")
  <1>1. PlaceTypes /\ Moves(Points \ {"app", "pendwake"}, "app")
    BY ReturnMoves DEF EventInv
  <1>2. Moves(Points, "app") /\ "app" \in (Points \cup {"sched"}) \ {"pendwake"}
    BY <1>1 DEF Moves, Points
  <1>3. OSIntNesting = 0 => OSTCBEventPtr[OSTCBCur] = NullEvent
    BY RunnerAt
  <1> QED BY <1>1, <1>2, <1>3, QuietKeeps

\* The end of a pend that was served: there is nothing left to undo in the TCB.
LEMMA DoneKeeps ==
  ASSUME EventInv, InTask("pendwake"), ~OSTCBPendTO[OSTCBCur], Return("app"),
         OSTCBEventPtr' = [OSTCBEventPtr EXCEPT ![OSTCBCur] = NullEvent],
         OSTCBStat' = [OSTCBStat EXCEPT ![OSTCBCur] = {}],
         UNCHANGED <<OSRdyTbl, OSEventTbl, OSLockNesting, OSTCBPrio, OSTCBDly, OSTCBPendTO,
                     tblVars, cpuVars, OSEventType>>
  PROVE  EventInv' /\ (RunsHighest => RunsHighest') /\ Moves({"pendwake"}, "app")
  <1>1. /\ OSIntNesting = 0 /\ at[OSTCBCur] = "pendwake" /\ OSTCBCur \in Tcb
        /\ OSTCBCur \in OSTCBList /\ ~Deleting(OSTCBCur) /\ OSTCBStat[OSTCBCur] = {}
    BY RunnerAt DEF InTask, Points
  <1>2. OSTCBEventPtr[OSTCBCur] = NullEvent
    BY <1>1, PenderAt
  <1>3. UNCHANGED tcbVars
    BY <1>1, <1>2 DEF tcbVars, EventInv, CoreInv, KernelTypeOK
  <1>4. PlaceTypes /\ Moves({"pendwake"}, "app")
    BY <1>1, ReturnMoves DEF EventInv, Points
  <1>5. Moves(Points, "app") /\ "app" \in (Points \cup {"sched"}) \ {"pendwake"}
    BY <1>4 DEF Moves, Points
  <1> QED BY <1>2, <1>3, <1>4, <1>5, QuietKeeps

---------------------------------------------------------------------------
\* The list of free blocks.

\* It cannot be longer than there are blocks, as none is in it twice.
LEMMA ListFits ==
  ASSUME IsFiniteSet(Event), NEW k \in Nat, NEW blk \in [1 .. k -> Event],
         \A i, j \in 1 .. k : blk[i] = blk[j] => i = j
  PROVE  k \in 0 .. Cardinality(Event)
  <1>1. blk \in Injection(1 .. k, Event)
    BY DEF Injection, IsInjective
  <1>2. Cardinality(1 .. k) <= Cardinality(Event)
    BY <1>1, FS_Injection
  <1>3. Cardinality(1 .. k) = k
    BY FS_Interval
  <1> QED BY <1>2, <1>3, FS_CardinalityType

\* blk are the k blocks of the list.
ListIs(k, blk) ==
  /\ Linked(k, blk) /\ {blk[i] : i \in 1 .. k} \subseteq Untaken
  /\ "OSTaskDel" \notin TaskCalls => Untaken \subseteq {blk[i] : i \in 1 .. k}
LEMMA FreeListIs ==
  FreeListSound <=> \E k \in 0 .. Cardinality(Event) : \E blk \in [1 .. k -> Event] : ListIs(k, blk)
  BY DEF FreeListSound, ListIs

\* A step that does not touch the list, and takes no block that is in it.
LEMMA FreeListStays ==
  ASSUME FreeListSound, UNCHANGED OSEventFreeList,
         \A f \in Untaken : OSEventPtr'[f] = OSEventPtr[f], Untaken \subseteq Untaken',
         "OSTaskDel" \notin TaskCalls => Untaken' \subseteq Untaken
  PROVE  FreeListSound'
  <1> PICK k \in 0 .. Cardinality(Event) : \E blk \in [1 .. k -> Event] : ListIs(k, blk)
    BY FreeListIs
  <1> PICK blk \in [1 .. k -> Event] : ListIs(k, blk)
    OBVIOUS
  <1> USE DEF ListIs
  <1>1. \A i \in 1 .. k : blk[i] \in Untaken
    OBVIOUS
  <1>2. Linked(k, blk)'
    BY <1>1 DEF Linked
  <1> QED BY <1>2 DEF FreeListSound

\* A create service takes the first block, which nobody uses.
LEMMA FreeListTakes ==
  ASSUME FreeListSound, IsFiniteSet(Event), TakeEvent, UNCHANGED OSEventPtr,
         Untaken' = Untaken \ {OSEventFreeList}
  PROVE  FreeListSound' /\ OSEventFreeList \in Untaken
  <1> PICK k \in 0 .. Cardinality(Event) : \E blk \in [1 .. k -> Event] : ListIs(k, blk)
    BY FreeListIs
  <1> PICK blk \in [1 .. k -> Event] : ListIs(k, blk)
    OBVIOUS
  <1> USE DEF ListIs
  <1>1. k \in Nat \ {0} /\ OSEventFreeList = blk[1] /\ 1 \in 1 .. k
    BY FS_CardinalityType DEF TakeEvent, Linked
  <1> DEFINE m == k - 1
             rest == [i \in 1 .. m |-> blk[i + 1]]
  <1>2. /\ m \in Nat /\ rest \in [1 .. m -> Event]
        /\ \A i \in 1 .. m : i + 1 \in 1 .. k /\ rest[i] = blk[i + 1]
    BY <1>1
  <1>3. \A i, j \in 1 .. m : rest[i] = rest[j] => i = j
    BY <1>1, <1>2 DEF Linked
  <1>4. m \in 0 .. Cardinality(Event)
    BY <1>2, <1>3, ListFits
  <1>5. {rest[i] : i \in 1 .. m} = {blk[i] : i \in 1 .. k} \ {blk[1]}
    <2>1. \A i \in 1 .. m : rest[i] \in {blk[j] : j \in 1 .. k} /\ rest[i] # blk[1]
      BY <1>1, <1>2 DEF Linked
    <2>2. \A j \in 1 .. k : j # 1 => j - 1 \in 1 .. m /\ blk[j] = rest[j - 1]
      BY <1>1, <1>2
    <2> HIDE DEF rest, m
    <2> QED BY <2>1, <2>2
  <1>6. Linked(m, rest)'
    <2>1. OSEventFreeList' = IF m = 0 THEN NullEvent ELSE rest[1]
      BY <1>1, <1>2 DEF TakeEvent, Linked
    <2>2. \A i \in 1 .. m : OSEventPtr'[rest[i]] = IF i = m THEN NullEvent ELSE rest[i + 1]
      BY <1>1, <1>2 DEF Linked
    <2> HIDE DEF rest, m
    <2> QED BY <1>3, <2>1, <2>2 DEF Linked
  <1>7. /\ {rest[i] : i \in 1 .. m} \subseteq Untaken'
        /\ "OSTaskDel" \notin TaskCalls => Untaken' \subseteq {rest[i] : i \in 1 .. m}
    BY <1>1, <1>5
  <1>8. OSEventFreeList \in Untaken
    BY <1>1
  <1> HIDE DEF rest, m
  <1> QED BY <1>2, <1>4, <1>6, <1>7, <1>8 DEF FreeListSound

\* A block that is not in the list becomes its first one.
LEMMA FreeListGrows ==
  ASSUME FreeListSound, IsFiniteSet(Event), NEW f \in Event, f \notin Untaken,
         DOMAIN OSEventPtr = Event,
         OSEventPtr' = [OSEventPtr EXCEPT ![f] = OSEventFreeList], OSEventFreeList' = f,
         Untaken' = Untaken \cup {f}
  PROVE  FreeListSound'
  <1> PICK k \in 0 .. Cardinality(Event) : \E blk \in [1 .. k -> Event] : ListIs(k, blk)
    BY FreeListIs
  <1> PICK blk \in [1 .. k -> Event] : ListIs(k, blk)
    OBVIOUS
  <1> USE DEF ListIs
  <1> DEFINE m == k + 1
             more == [i \in 1 .. m |-> IF i = 1 THEN f ELSE blk[i - 1]]
  <1>1. k \in Nat /\ m \in Nat /\ m # 0 /\ 1 \in 1 .. m
    BY FS_CardinalityType
  <1>2. /\ more[1] = f /\ \A i \in 1 .. m : i # 1 => i - 1 \in 1 .. k /\ more[i] = blk[i - 1]
        /\ \A i \in 1 .. k : i + 1 \in 1 .. m /\ more[i + 1] = blk[i] /\ blk[i] # f
        /\ more \in [1 .. m -> Event]
    BY <1>1
  <1>3. \A i, j \in 1 .. m : more[i] = more[j] => i = j
    <2> SUFFICES ASSUME NEW i \in 1 .. m, NEW j \in 1 .. m, more[i] = more[j] PROVE i = j
      OBVIOUS
    <2>1. CASE i = 1 \/ j = 1
      BY <1>2, <2>1
    <2>2. CASE i # 1 /\ j # 1
      <3>1. i - 1 = j - 1
        BY <1>2, <2>2 DEF Linked
      <3> QED BY <1>1, <3>1
    <2> QED BY <2>1, <2>2
  <1>4. m \in 0 .. Cardinality(Event)
    BY <1>1, <1>2, <1>3, ListFits
  <1>5. {more[i] : i \in 1 .. m} = {blk[i] : i \in 1 .. k} \cup {f}
    <2>1. \A i \in 1 .. m : more[i] \in {blk[j] : j \in 1 .. k} \cup {f}
      BY <1>2
    <2> HIDE DEF more, m
    <2>2. f \in {more[i] : i \in 1 .. m}
      BY <1>1, <1>2
    <2>3. \A j \in 1 .. k : blk[j] \in {more[i] : i \in 1 .. m}
      <3>1. \A j \in 1 .. k : blk[j] = more[j + 1] /\ j + 1 \in 1 .. m
        BY <1>2
      <3> QED BY <3>1
    <2> QED BY <2>1, <2>2, <2>3
  <1>6. Linked(m, more)'
    <2>1. OSEventFreeList' = more[1]
      BY <1>2
    <2>2. OSEventPtr'[more[1]] = OSEventFreeList
      BY <1>2
    <2>3. OSEventFreeList = IF m = 1 THEN NullEvent ELSE more[2]
      BY <1>1, <1>2 DEF Linked
    <2>4. \A i \in 1 .. m : i # 1 => OSEventPtr'[more[i]] = IF i = m THEN NullEvent ELSE more[i + 1]
      <3> SUFFICES ASSUME NEW i \in 1 .. m, i # 1
                   PROVE  OSEventPtr'[more[i]] = IF i = m THEN NullEvent ELSE more[i + 1]
        OBVIOUS
      <3>1. i - 1 \in 1 .. k /\ more[i] = blk[i - 1] /\ more[i] # f /\ more[i] \in Event
        BY <1>2
      <3>2. OSEventPtr'[more[i]] = OSEventPtr[blk[i - 1]]
        BY <3>1
      <3>3. OSEventPtr[blk[i - 1]] = IF i - 1 = k THEN NullEvent ELSE blk[(i - 1) + 1]
        BY <3>1 DEF Linked
      <3>4. i # m => i \in 1 .. k /\ more[i + 1] = blk[i]
        BY <1>1, <1>2
      <3> QED BY <1>1, <3>2, <3>3, <3>4
    <2> HIDE DEF more
    <2> QED BY <1>1, <1>3, <2>1, <2>2, <2>3, <2>4 DEF Linked
  <1>7. /\ {more[i] : i \in 1 .. m} \subseteq Untaken'
        /\ "OSTaskDel" \notin TaskCalls => Untaken' \subseteq {more[i] : i \in 1 .. m}
    BY <1>5
  <1> HIDE DEF more, m
  <1> QED BY <1>2, <1>4, <1>6, <1>7 DEF FreeListSound

\* A step that neither takes a block nor ends a creation leaves the same ones taken.
LEMMA TakenSame ==
  ASSUME \A t \in Tcb : (Making(t)' <=> Making(t)) /\ (Making(t) => loc'[t].ev = loc[t].ev)
  PROVE  Taken' = Taken
  BY DEF Taken

\* So do the steps of the kernel, unless the creator is deleted.
LEMMA KernelKeepsList ==
  ASSUME FreeListSound, PlacesKept, UNCHANGED ecbVars PROVE FreeListSound'
  <1>1. \A t \in Tcb : /\ Making(t)' => Making(t) /\ loc'[t].ev = loc[t].ev
                       /\ "OSTaskDel" \notin TaskCalls /\ Making(t) => Making(t)'
    BY DEF PlacesKept, Making, Elsewhere
  <1>2. Taken' \subseteq Taken
    BY <1>1 DEF Taken
  <1>3. "OSTaskDel" \notin TaskCalls => Taken' = Taken
    BY <1>1, TakenSame
  <1> QED BY <1>2, <1>3, FreeListStays DEF Untaken, ecbVars

LEMMA ServiceKeepsList ==
  ASSUME FreeListSound, UNCHANGED ecbVars, NEW P, NEW l, Moves(P, l),
         {l} \cup P \subseteq Label \ {"take", "qinit", "create"}
  PROVE  FreeListSound'
  <1>1. \A t \in Tcb : (Making(t)' <=> Making(t)) /\ (Making(t) => loc'[t].ev = loc[t].ev)
    BY DEF Moves, Making
  <1> QED BY <1>1, TakenSame, FreeListStays DEF Untaken, ecbVars

\* A delete service gives back a block that was in use.
LEMMA DeleteFrees ==
  ASSUME EventInv, FreeListSound, IsFiniteSet(Event), NEW e \in Event, OSEventType[e] # "UNUSED",
         DOMAIN OSEventType = Event, DOMAIN OSEventPtr = Event,
         FreeEvent(e), NEW P, NEW l, Moves(P, l),
         {l} \cup P \subseteq Label \ {"take", "qinit", "create"}
  PROVE  FreeListSound' /\ \A t \in Tcb : Making(t)' => loc'[t].ev # e
  <1>1. \A t \in Tcb : (Making(t)' <=> Making(t)) /\ (Making(t) => loc'[t].ev = loc[t].ev)
    BY DEF Moves, Making
  <1>2. Taken' = Taken
    BY <1>1, TakenSame
  <1>3. e \notin Taken /\ \A t \in Tcb : Making(t)' => loc'[t].ev # e
    BY <1>1 DEF Taken, EventInv, BlocksApart
  <1>4. Untaken' = Untaken \cup {e} /\ e \notin Untaken
    BY <1>2, <1>3 DEF Untaken, FreeEvent
  <1> QED BY <1>3, <1>4, FreeListGrows DEF FreeEvent

\* The block that a create service takes next is in the list.
LEMMA FirstFree == ASSUME FreeListSound, IsFiniteSet(Event), TakeEvent PROVE OSEventFreeList \in Untaken
  <1> PICK k \in 0 .. Cardinality(Event) : \E blk \in [1 .. k -> Event] : ListIs(k, blk)
    BY FreeListIs
  <1> PICK blk \in [1 .. k -> Event] : ListIs(k, blk)
    OBVIOUS
  <1>1. k # 0 /\ OSEventFreeList = blk[1] /\ k \in Nat
    BY FS_CardinalityType DEF TakeEvent, ListIs, Linked
  <1>2. 1 \in 1 .. k
    BY <1>1
  <1> QED BY <1>1, <1>2 DEF ListIs

\* A create service takes the first free block.
LEMMA CreateKeeps ==
  ASSUME EventInv, FreeListSound, IsFiniteSet(Event), NEW s, TaskCall(s), TakeEvent,
         NEW l \in {"take", "create"}, Goto(l), Keep([NoLocals EXCEPT !.ev = OSEventFreeList]),
         UNCHANGED <<OSRdyTbl, OSEventTbl, OSLockNesting, tcbVars, tblVars, cpuVars,
                     OSEventType, OSEventPtr>>
  PROVE  /\ EventInv' /\ (RunsHighest => RunsHighest') /\ FreeListSound'
         /\ Moves({"app"}, l) /\ OSEventFreeList \in Event
  <1> DEFINE me == OSTCBCur
             e == OSEventFreeList
             mine == [NoLocals EXCEPT !.ev = e]
  <1>1. /\ OSIntNesting = 0 /\ at[me] = "app" /\ me \in Tcb /\ me # Idle
        /\ OSTCBEventPtr[me] = NullEvent
    BY RunnerAt DEF TaskCall, EventInv, CoreInv, KernelTypeOK, Points
  <1>2. e \in Untaken
    BY FirstFree
  <1>3. /\ e \in Event /\ OSEventType[e] = "UNUSED"
        /\ \A t \in Tcb : Making(t) => loc[t].ev # e
    BY <1>2 DEF Untaken, Taken
  <1>4. mine \in Locals /\ mine.ev = e
    BY <1>3, NoLocalsType DEF Locals, NoLocals
  <1>5. /\ PlaceTypes /\ at'[me] = l /\ loc'[me].ev = e
        /\ \A t \in Tcb \ {me} : at'[t] = at[t] /\ loc'[t] = loc[t]
    <2>1. at' = [at EXCEPT ![me] = l] /\ loc' = [loc EXCEPT ![me] = mine] /\ UNCHANGED served
      BY <1>1 DEF Goto, Keep
    <2> HIDE DEF mine
    <2> QED BY <1>1, <1>4, <2>1 DEF PlaceTypes, EventInv, CoreInv, KernelTypeOK, Label
  <1>6. Moves({"app"}, l) /\ Moves(Points, l)
    BY <1>1, <1>5 DEF Moves, Points
  <1>7. EventInv' /\ (RunsHighest => RunsHighest')
    <2>1. l \in (Points \cup {"sched"}) \ {"pendwake"} /\ l # "pend"
      BY DEF Points
    <2> QED BY <1>1, <1>3, <1>5, <1>6, <2>1, QuietKeeps
  <1>8. Taken' = Taken \cup {e}
    <2>1. /\ at'[me] \in {"take", "create"} /\ ~Making(me)
          /\ \A t \in Tcb \ {me} : (Making(t)' <=> Making(t)) /\ loc'[t] = loc[t]
      BY <1>1, <1>5 DEF Making
    <2> QED BY <1>1, <1>5, <2>1 DEF Taken, Making
  <1>9. Untaken' = Untaken \ {e}
    BY <1>8 DEF Untaken
  <1> QED BY <1>3, <1>6, <1>7, <1>9, FreeListTakes

\* Where a creation ends, its block is nobody's who creates.
LEMMA MakerLeaves ==
  ASSUME EventInv, NEW l \in {"take", "qinit", "create"}, InTask(l), Return("app")
  PROVE  /\ OSTCBCur \in Tcb /\ loc[OSTCBCur].ev \in Event /\ OSEventType[loc[OSTCBCur].ev] = "UNUSED"
         /\ OSEventTbl[loc[OSTCBCur].ev] = {}
         /\ Taken' = Taken \ {loc[OSTCBCur].ev} /\ loc[OSTCBCur].ev \in Taken
         /\ \A t \in Tcb : Making(t)' => Making(t) /\ loc'[t] = loc[t] /\ loc'[t].ev # loc[OSTCBCur].ev
         /\ Moves({"take", "qinit", "create"}, "app") /\ OSIntNesting = 0
  <1> DEFINE me == OSTCBCur
             e == loc[me].ev
  <1>1. PlaceTypes /\ Moves({"take", "qinit", "create"}, "app") /\ me \in Tcb
    BY ReturnMoves DEF EventInv, InTask, Points
  <1>2. /\ Making(me) /\ at'[me] = "app" /\ OSIntNesting = 0
        /\ \A t \in Tcb \ {me} : (Making(t)' <=> Making(t)) /\ loc'[t] = loc[t]
    BY <1>1 DEF Moves, Making, InTask
  <1>3. /\ e \in Event /\ OSEventType[e] = "UNUSED" /\ OSEventTbl[e] = {}
        /\ \A t \in Tcb \ {me} : Making(t) => loc[t].ev # e
    BY <1>1, <1>2 DEF EventInv, BlocksApart
  <1>4. \A t \in Tcb : Making(t)' => t # me
    BY <1>2 DEF Making
  <1>5. Taken' = Taken \ {e} /\ e \in Taken
    BY <1>1, <1>2, <1>3, <1>4 DEF Taken
  <1> QED BY <1>1, <1>2, <1>3, <1>4, <1>5

\* A creation that cannot go on gives its block back ...
LEMMA GiveBackKeeps ==
  ASSUME EventInv, FreeListSound, IsFiniteSet(Event), InTask("take"), Return("app"),
         DOMAIN OSEventPtr = Event,
         OSEventPtr' = [OSEventPtr EXCEPT ![loc[OSTCBCur].ev] = OSEventFreeList],
         OSEventFreeList' = loc[OSTCBCur].ev,
         UNCHANGED <<OSRdyTbl, OSEventTbl, OSLockNesting, tcbVars, tblVars, cpuVars, OSEventType>>
  PROVE  EventInv' /\ (RunsHighest => RunsHighest') /\ FreeListSound'
  <1> DEFINE e == loc[OSTCBCur].ev
  <1>1. /\ e \in Event /\ OSEventType[e] = "UNUSED" /\ Taken' = Taken \ {e} /\ e \in Taken
        /\ at[OSTCBCur] = "take"
    BY MakerLeaves DEF InTask
  <1>2. Untaken' = Untaken \cup {e} /\ e \notin Untaken
    BY <1>1 DEF Untaken
  <1>3. FreeListSound'
    BY <1>1, <1>2, FreeListGrows
  <1> QED BY <1>1, <1>3, ReturnKeeps DEF Points

\* ... and one that ends well puts it into use.
LEMMA InitKeeps ==
  ASSUME EventInv, FreeListSound, NEW l \in {"qinit", "create"}, InTask(l), Return("app"),
         NEW type, type # "UNUSED",
         OSEventType' = [OSEventType EXCEPT ![loc[OSTCBCur].ev] = type],
         OSEventPtr' = [OSEventPtr EXCEPT ![loc[OSTCBCur].ev] = NullEvent],
         OSEventTbl' = [OSEventTbl EXCEPT ![loc[OSTCBCur].ev] = {}],
         DOMAIN OSEventPtr = Event, DOMAIN OSEventType = Event,
         UNCHANGED <<OSRdyTbl, OSLockNesting, tcbVars, tblVars, cpuVars, OSEventFreeList>>
  PROVE  /\ EventInv' /\ (RunsHighest => RunsHighest') /\ FreeListSound' /\ UNCHANGED OSEventTbl
         /\ \A f \in Event \ {loc[OSTCBCur].ev} : OSEventType'[f] = OSEventType[f]
  <1> DEFINE e == loc[OSTCBCur].ev
  <1>1. /\ e \in Event /\ OSEventType[e] = "UNUSED" /\ Taken' = Taken \ {e} /\ e \in Taken
        /\ at[OSTCBCur] = l /\ OSEventTbl[e] = {}
        /\ \A t \in Tcb : Making(t)' => Making(t) /\ loc'[t] = loc[t] /\ loc'[t].ev # e
    BY MakerLeaves DEF InTask
  <1>2. \A f \in Event \ {e} : OSEventType'[f] = OSEventType[f]
    OBVIOUS
  <1>3. UNCHANGED OSEventTbl
    BY <1>1 DEF EventInv, CoreInv, KernelTypeOK
  <1>4. Untaken' = Untaken /\ e \notin Untaken
    BY <1>1, <1>2 DEF Untaken
  <1>5. FreeListSound'
    BY <1>4, FreeListStays DEF Untaken
  <1> QED BY <1>1, <1>2, <1>3, <1>5, ReturnKeeps DEF Points

---------------------------------------------------------------------------
\* OS_InitEventList links each block that is not in use once.
LEMMA InitLinks ==
  ASSUME IsFiniteSet(Event), NEW type, NEW cnt, EventInit(type, cnt), DOMAIN type \subseteq Event,
         \A e \in DOMAIN type : type[e] # "UNUSED", \A t \in Tcb : ~Making(t)
  PROVE  FreeListSound
  <1> DEFINE free == Event \ DOMAIN type
             n == Cardinality(free)
  <1>1. IsFiniteSet(free) /\ n \in 0 .. Cardinality(Event) /\ n \in Nat
    BY FS_Subset, FS_CardinalityType
  <1>2. Untaken = free
    BY DEF Untaken, Taken, EventInit
  <1> PICK rank \in [free -> 1 .. n] :
        /\ \A e, f \in free : rank[e] = rank[f] => e = f
        /\ OSEventPtr = [e \in Event |-> IF \E f \in free : e \in free /\ rank[f] = rank[e] + 1
                                         THEN CHOOSE f \in free : rank[f] = rank[e] + 1
                                         ELSE NullEvent]
        /\ OSEventFreeList = IF free = {} THEN NullEvent ELSE CHOOSE e \in free : rank[e] = 1
    BY Zenon DEF EventInit
  <1>3. \A i \in 1 .. n : \E e \in free : rank[e] = i
    <2>1. rank \in Injection(free, 1 .. n)
      BY DEF Injection, IsInjective
    <2>2. IsFiniteSet(1 .. n) /\ Cardinality(1 .. n) = n
      BY <1>1, FS_Interval
    <2>3. Cardinality(free) = Cardinality(1 .. n)
      BY <2>2
    <2>4. rank \in Surjection(free, 1 .. n)
      BY <2>1, <2>2, <2>3, FS_Injection
    <2> QED BY <2>4 DEF Surjection
  <1>4. free = {} <=> n = 0
    BY <1>1, FS_EmptySet
  <1> HIDE DEF n
  <1> DEFINE blk == [i \in 1 .. n |-> CHOOSE e \in free : rank[e] = i]
  <1>5. \A i \in 1 .. n : blk[i] = (CHOOSE e \in free : rank[e] = i) /\ blk[i] \in free /\ rank[blk[i]] = i
    BY <1>3
  <1>6. blk \in [1 .. n -> Event]
    BY <1>5
  <1>7. Linked(n, blk)
    <2>1. OSEventFreeList = IF n = 0 THEN NullEvent ELSE blk[1]
      BY <1>1, <1>4
    <2>2. ASSUME NEW i \in 1 .. n
          PROVE  OSEventPtr[blk[i]] = IF i = n THEN NullEvent ELSE blk[i + 1]
      <3>1. blk[i] \in free /\ rank[blk[i]] = i
        BY <1>5
      <3>2. CASE i = n
        <4>1. ~ \E f \in free : rank[f] = i + 1
          BY <1>1, <3>2
        <4> HIDE DEF blk
        <4> QED BY <3>1, <3>2, <4>1
      <3>3. CASE i # n
        <4>1. i + 1 \in 1 .. n
          BY <1>1, <3>3
        <4>2. (\E f \in free : rank[f] = i + 1) /\ blk[i + 1] = CHOOSE e \in free : rank[e] = i + 1
          BY <1>3, <1>5, <4>1
        <4> HIDE DEF blk
        <4> QED BY <3>1, <3>3, <4>2
      <3> QED BY <3>2, <3>3
    <2>3. \A i, j \in 1 .. n : blk[i] = blk[j] => i = j
      BY <1>5
    <2> HIDE DEF blk
    <2> QED BY <2>1, <2>2, <2>3 DEF Linked
  <1>8. {blk[i] : i \in 1 .. n} = free
    <2>1. \A e \in free : rank[e] \in 1 .. n /\ blk[rank[e]] = e
      BY <1>5
    <2> HIDE DEF blk
    <2> QED BY <1>5, <2>1
  <1> HIDE DEF blk
  <1> QED BY <1>1, <1>2, <1>6, <1>7, <1>8 DEF FreeListSound, n

\* The initial states, whatever blocks the application makes before OSStart.
LEMMA EventInitHolds ==
  ASSUME CoreInit, IsFiniteSet(Event), NEW type, NEW cnt, EventInit(type, cnt),
         DOMAIN type \subseteq Event, \A e \in DOMAIN type : type[e] # "UNUSED"
  PROVE  EventInv /\ RunsHighest /\ FreeListSound
  <1>1. CoreInv /\ RunsHighest
    BY InitHolds
  <1>2. /\ \A t \in Tcb : /\ OSTCBStat[t] = {} /\ OSTCBPendTO[t] = FALSE
                          /\ OSTCBEventPtr[t] = NullEvent /\ at[t] = "app"
        /\ \A e \in Event : OSEventTbl[e] = {}
        /\ OSLockNesting = 0
    BY DEF CoreInit
  <1>3. FreeListSound
    BY <1>2, InitLinks DEF Making
  <1>4. WaitListExact /\ PendLinked /\ WaitersStay /\ WaitersRanked
    BY <1>1, <1>2 DEF WaitListExact, PendLinked, WaitersStay, WaitersRanked, CoreInv, KernelTypeOK
  <1>5. NewTcbsClean /\ PendersKnow /\ NoPendLocked /\ RunnerReady /\ BlocksApart
    BY <1>1, <1>2 DEF NewTcbsClean, PendersKnow, NoPendLocked, RunnerReady, BlocksApart, Pending,
                      Making, RunsHighest, HighestIn
  <1> QED BY <1>1, <1>3, <1>4, <1>5 DEF EventInv, WaitsExact

=============================================================================
