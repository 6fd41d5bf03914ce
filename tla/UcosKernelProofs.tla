-------------------------- MODULE UcosKernelProofs --------------------------
(***************************************************************************)
(* KernelInv is an invariant of the kernel for any number of tasks and     *)
(* priorities, under the rules of use SafeUse; each of its parts follows.  *)
(* One lemma for each action shows that it keeps CoreInv, with a step for  *)
(* each part of CoreInv that the action can disturb, and that it keeps     *)
(* RunsHighest: the event services that post without OS_Sched lose that    *)
(* for a while and rest on CoreInv alone.                                  *)
(***************************************************************************)
EXTENDS UcosKernel, TLAPS

---------------------------------------------------------------------------
\* Leaving a region keeps the types of at and served.
LEMMA GotoType ==
  ASSUME NEW l \in Label, Goto(l), OSTCBCur \in Tcb,
         at \in [Tcb -> Label], served \in BOOLEAN
  PROVE  at' \in [Tcb -> Label] /\ served' \in BOOLEAN
  <1>1. CASE OSIntNesting = 0
    BY <1>1 DEF Goto
  <1>2. CASE OSIntNesting # 0
    BY <1>2 DEF Goto
  <1> QED BY <1>1, <1>2

\* The locals of a task that is in no service have their type.
LEMMA NoLocalsType == NoLocals \in Locals
  BY CoreAssumption DEF NoLocals, Locals, Prio, Tcb, Ticks

\* Keep stores locals of their type.
LEMMA KeepType ==
  ASSUME NEW r \in Locals, Keep(r), loc \in [Tcb -> Locals]
  PROVE  loc' \in [Tcb -> Locals]
  BY DEF Keep

\* Two tasks in use have different priorities.
LEMMA OneTaskPerPrio ==
  ASSUME TablesAgree, NEW t \in OSTCBList, NEW u \in OSTCBList,
         OSTCBPrio[t] = OSTCBPrio[u]
  PROVE  t = u
  BY DEF TablesAgree

\* What a step of the kernel keeps; while priorities are inherited, only if a task
\* that suspends itself says so.
Kept == CoreInv' /\ (RunsHighest /\ (Inherits => NamesSelf) => RunsHighest')

\* The task found at a priority in OSTCBPrioTbl is in use and, unless it inherited
\* another, at that priority.
LEMMA TaskAt ==
  ASSUME CoreInv, NEW p \in Prio, HasTcb(p)
  PROVE  /\ OSTCBPrioTbl[p] \in OSTCBList /\ OSTCBPrioTbl[p] \in Tcb
         /\ Inherits \/ OSTCBPrio[OSTCBPrioTbl[p]] = p
         /\ p # OS_LOWEST_PRIO => OSTCBPrioTbl[p] # Idle
  BY DEF CoreInv, KernelTypeOK, TablesAgree, IdleStays

\* The end of some tasks' delays makes exactly those ready that wait for nothing
\* more, and none that is being deleted: for OSTimeTick and OSTimeDlyResume.
LEMMA DelayEndsKeeps ==
  ASSUME CoreInv, NEW T \in SUBSET OSTCBList, DelayEnds(T),
         \A t \in T : OSTCBDly[t] # 0 /\ OSTCBDly'[t] = 0,
         \A t \in Tcb \ T : OSTCBDly'[t] = 0 <=> OSTCBDly[t] = 0,
         UNCHANGED <<OSTCBPrio, tblVars, OSTCBCur, loc>>,
         at'[OSTCBCur] = "delwin" => at[OSTCBCur] = "delwin",
         at[OSTCBCur] = "delwin" => at'[OSTCBCur] = "delwin"
  PROVE  /\ OSRdyTbl' \subseteq Prio /\ OSTCBStat' \in [Tcb -> SUBSET Stat]
         /\ OSTCBPendTO' \in [Tcb -> BOOLEAN]
         /\ ReadyIffNotWaiting' /\ ReadyIsDispatchable'
  <1>1. OSRdyTbl' \subseteq Prio
    BY DEF CoreInv, KernelTypeOK, DelayEnds
  <1>2. OSTCBStat' \in [Tcb -> SUBSET Stat]
    BY DEF CoreInv, KernelTypeOK, DelayEnds
  <1>3. OSTCBPendTO' \in [Tcb -> BOOLEAN]
    BY Zenon DEF CoreInv, KernelTypeOK, DelayEnds
  <1>4. \A t \in T : ~Deleting(t)
    BY DEF CoreInv, KernelTypeOK, DeletionHolds, Deleting
  <1>5. \A t \in Tcb : Deleting(t) <=> Deleting(t)'
    BY DEF Deleting
  <1>6. ReadyIffNotWaiting'
    <2> SUFFICES ASSUME NEW t \in OSTCBList, ~Deleting(t)
                 PROVE  OSTCBPrio[t] \in OSRdyTbl' <=> OSTCBStat'[t] = {} /\ OSTCBDly'[t] = 0
      BY <1>5 DEF ReadyIffNotWaiting, tblVars, CoreInv, KernelTypeOK
    <2> t \in Tcb
      BY DEF CoreInv, KernelTypeOK
    <2>1. OSTCBPrio[t] \in OSRdyTbl <=> OSTCBStat[t] = {} /\ OSTCBDly[t] = 0
      BY DEF CoreInv, ReadyIffNotWaiting
    <2>2. OSTCBPrio[t] \in OSRdyTbl' <=>
            OSTCBPrio[t] \in OSRdyTbl \/ (t \in T /\ "SUSPEND" \notin OSTCBStat[t])
      <3>1. \A u \in T : OSTCBPrio[u] = OSTCBPrio[t] => u = t
        BY OneTaskPerPrio DEF CoreInv
      <3>2. OSTCBPrio[t] \in OSRdyTbl' <=>
              \/ OSTCBPrio[t] \in OSRdyTbl
              \/ \E u \in T : "SUSPEND" \notin OSTCBStat[u] /\ OSTCBPrio[u] = OSTCBPrio[t]
        BY DEF DelayEnds
      <3> QED BY <3>1, <3>2
    <2>3. CASE t \in T
      BY <2>1, <2>2, <2>3 DEF DelayEnds, CoreInv, KernelTypeOK, Stat, PendAny
    <2>4. CASE t \notin T
      BY <2>1, <2>2, <2>4 DEF DelayEnds, CoreInv, KernelTypeOK
    <2> QED BY <2>3, <2>4
  <1>7. ReadyIsDispatchable'
    BY <1>4, <1>5, CoreAssumption
    DEF ReadyIsDispatchable, CoreInv, KernelTypeOK, TablesAgree, HasTcb, DelayEnds, tblVars, Tcb
  <1> QED BY <1>1, <1>2, <1>3, <1>6, <1>7

\* With the scheduler unlocked, OS_SchedNew and the switch end at the task in use
\* whose priority is the highest ready: for OS_Sched and OSIntExit.
LEMMA DispatchKeeps ==
  ASSUME CoreInv, OSLockNesting = 0, Dispatch, UNCHANGED <<OSRdyTbl, OSTCBPrio, tblVars>>
  PROVE  /\ OSTCBCur' \in OSTCBList /\ OSPrioCur' = OSTCBPrio[OSTCBCur']
         /\ HighestIn(OSTCBPrio[OSTCBCur'], OSRdyTbl)
         /\ OSTCBCur' \in Tcb /\ OSPrioCur' \in Prio
  <1> PICK p \in OSRdyTbl : /\ HighestIn(p, OSRdyTbl)
                            /\ IF p # OSPrioCur
                               THEN OSTCBCur' = OSTCBPrioTbl[p] /\ OSPrioCur' = p
                               ELSE UNCHANGED <<OSTCBCur, OSPrioCur>>
    BY DEF Dispatch
  <1>1. p \in Prio /\ HasTcb(p)
    BY DEF CoreInv, KernelTypeOK, ReadyIsDispatchable
  <1>2. CASE p # OSPrioCur
    BY <1>1, <1>2, TaskAt DEF CoreInv, ReadyIsDispatchable
  <1>3. CASE p = OSPrioCur
    BY <1>1, <1>3 DEF CoreInv, KernelTypeOK, CurrentKnown, HasTcb
  <1> QED BY <1>2, <1>3

\* A step that neither touches the reservations nor the TCBs in nobody's list
\* keeps the creations under way apart.
LEMMA CreationsKept ==
  ASSUME CoreInv,
         \A t \in Tcb : Creating(t)' => at'[t] = at[t] /\ loc'[t] = loc[t],
         \A p \in Prio : OSTCBPrioTbl[p] = Reserved => OSTCBPrioTbl'[p] = Reserved,
         \A t \in Tcb \ (OSTCBList \cup OSTCBFreeList) :
            /\ t \notin OSTCBList' \cup OSTCBFreeList'
            /\ OSTCBPrio'[t] = OSTCBPrio[t] /\ OSTCBStat'[t] = OSTCBStat[t]
            /\ OSTCBDly'[t] = OSTCBDly[t]
  PROVE  CreationsApart'
  <1>1. \A t \in Tcb : loc[t].prio \in Prio /\ loc[t].tcb \in Tcb
    BY DEF CoreInv, KernelTypeOK, Locals
  <1>2. \A t \in Tcb : Creating(t)' => OSTCBPrioTbl'[loc'[t].prio] = Reserved /\ ~Inherits
    BY <1>1 DEF CoreInv, CreationsApart, Creating
  <1>3. \A t \in Tcb : at'[t] = "tcblink" =>
          /\ loc'[t].tcb \notin OSTCBList' \cup OSTCBFreeList'
          /\ OSTCBPrio'[loc'[t].tcb] = loc'[t].prio
          /\ OSTCBStat'[loc'[t].tcb] = {} /\ OSTCBDly'[loc'[t].tcb] = 0
    BY <1>1 DEF CoreInv, CreationsApart, Creating
  <1>4. \A t, u \in Tcb : t # u /\ Creating(t)' /\ Creating(u)' => loc'[t].prio # loc'[u].prio
    BY DEF CoreInv, CreationsApart, Creating
  <1> QED BY <1>2, <1>3, <1>4 DEF CreationsApart, Inherits

\* No deletion is under way while the scheduler is unlocked.
LEMMA NobodyDeletes ==
  ASSUME CoreInv, OSLockNesting = 0 PROVE \A t \in Tcb : at[t] # "delwin"
  BY DEF CoreInv, DeletionHolds

---------------------------------------------------------------------------
\* OSIntEnter keeps CoreInv and RunsHighest.
LEMMA InterruptEnters == ASSUME CoreInv, OSIntEnter PROVE Kept
  <1>1. KernelTypeOK'
    BY DEF CoreInv, KernelTypeOK, OSIntEnter, tcbVars, tblVars
  <1>2. (RunsHighest => RunsHighest')
    BY <1>1 DEF RunsHighest, Settled, OSIntEnter, KernelTypeOK, CoreInv
  <1>3. TablesAgree' /\ ReadyIffNotWaiting' /\ ReadyIsDispatchable'
    BY DEF CoreInv, TablesAgree, ReadyIffNotWaiting, ReadyIsDispatchable, HasTcb, Deleting,
           OSIntEnter, tcbVars, tblVars
  <1>4. CurrentKnown' /\ CreationsApart' /\ DeletionHolds' /\ IdleStays' /\ LockUnused'
    BY DEF CoreInv, CurrentKnown, CreationsApart, Creating, DeletionHolds, IdleStays,
           LockUnused, HasTcb, OSIntEnter, tcbVars, tblVars, Inherits
  <1> QED BY <1>1, <1>2, <1>3, <1>4 DEF CoreInv, Kept

\* OSTimeTick keeps CoreInv and RunsHighest.
LEMMA TimeTicks == ASSUME CoreInv, OSTimeTick PROVE Kept
  <1> DEFINE T == {t \in Delayed : OSTCBDly[t] = 1}
  <1>1. OSTCBDly' \in [Tcb -> Ticks]
    BY CoreAssumption DEF CoreInv, KernelTypeOK, OSTimeTick, Delayed, Ticks
  <1>2. \A t \in Tcb : OSTCBDly'[t] = 0 <=> t \in T \/ OSTCBDly[t] = 0
    BY CoreAssumption DEF CoreInv, KernelTypeOK, OSTimeTick, Delayed, Ticks
  <1>3. /\ OSRdyTbl' \subseteq Prio /\ OSTCBStat' \in [Tcb -> SUBSET Stat]
        /\ OSTCBPendTO' \in [Tcb -> BOOLEAN]
        /\ ReadyIffNotWaiting' /\ ReadyIsDispatchable'
    <2> HIDE DEF T
    <2>1. T \in SUBSET OSTCBList /\ \A t \in T : OSTCBDly[t] # 0
      BY DEF T, Delayed
    <2>2. T \subseteq Tcb
      BY <2>1 DEF CoreInv, KernelTypeOK
    <2>3. DelayEnds(T) /\ UNCHANGED <<OSTCBPrio, tblVars, OSTCBCur, loc, at>>
      BY DEF OSTimeTick, Delayed, T, cpuVars
    <2> QED BY <1>2, <2>1, <2>2, <2>3, DelayEndsKeeps
  <1>4. KernelTypeOK'
    BY <1>1, <1>3 DEF CoreInv, KernelTypeOK, OSTimeTick, Delayed, tblVars, cpuVars
  <1>5. (RunsHighest => RunsHighest')
    BY DEF RunsHighest, Settled, OSTimeTick, Delayed, IsrCall, cpuVars, CoreInv, KernelTypeOK
  <1>6. TablesAgree' /\ CurrentKnown' /\ IdleStays' /\ LockUnused'
    BY DEF CoreInv, TablesAgree, CurrentKnown, IdleStays, LockUnused, HasTcb, OSTimeTick,
           tblVars, cpuVars
  <1>7. \A t \in Tcb : OSTCBStat[t] = {} /\ OSTCBDly[t] = 0 => OSTCBStat'[t] = {} /\ OSTCBDly'[t] = 0
    BY <1>2 DEF OSTimeTick, Delayed, DelayEnds, CoreInv, KernelTypeOK
  <1>8. CreationsApart' /\ DeletionHolds'
    BY <1>7 DEF CoreInv, KernelTypeOK, CreationsApart, Creating, DeletionHolds, Locals, OSTimeTick,
           tblVars, cpuVars
  <1> QED BY <1>3, <1>4, <1>5, <1>6, <1>8 DEF CoreInv, Kept

\* OSIntExit keeps CoreInv and RunsHighest.
LEMMA InterruptExits == ASSUME CoreInv, OSIntExit PROVE Kept
  <1>0. served' \in BOOLEAN
    BY Zenon DEF OSIntExit
  <1>1. CASE OSLockNesting = 0
    <2>1. /\ OSTCBCur' \in OSTCBList /\ OSPrioCur' = OSTCBPrio[OSTCBCur']
          /\ HighestIn(OSTCBPrio[OSTCBCur'], OSRdyTbl)
          /\ OSTCBCur' \in Tcb /\ OSPrioCur' \in Prio
      BY <1>1, DispatchKeeps DEF OSIntExit, tcbVars
    <2>2. \A t \in Tcb : ~Deleting(t) /\ ~Deleting(t)'
      BY <1>1, <2>1, NobodyDeletes DEF Deleting, OSIntExit, CoreInv, KernelTypeOK
    <2>3. KernelTypeOK'
      BY <1>0, <2>1 DEF CoreInv, KernelTypeOK, OSIntExit, tcbVars, tblVars
    <2>4. TablesAgree' /\ CreationsApart' /\ IdleStays'
      BY DEF CoreInv, TablesAgree, CreationsApart, Creating, IdleStays, HasTcb,
             OSIntExit, tcbVars, tblVars
    <2>5. ReadyIffNotWaiting'
      BY <2>2 DEF CoreInv, KernelTypeOK, ReadyIffNotWaiting, OSIntExit, tcbVars, tblVars
    <2>6. ReadyIsDispatchable'
      BY <2>2, TaskAt
      DEF CoreInv, KernelTypeOK, ReadyIsDispatchable, HasTcb, OSIntExit, tcbVars, tblVars
    <2>7. (RunsHighest => RunsHighest') /\ CurrentKnown'
      BY <2>1 DEF RunsHighest, CurrentKnown, HighestIn, OSIntExit, tcbVars, tblVars
    <2>8. DeletionHolds' /\ LockUnused'
      BY <1>1, NobodyDeletes DEF DeletionHolds, LockUnused, OSIntExit, CoreInv, KernelTypeOK
    <2> QED BY <2>3, <2>4, <2>5, <2>6, <2>7, <2>8 DEF CoreInv, Kept
  <1>2. CASE OSLockNesting # 0
    <2>1. KernelTypeOK'
      BY <1>0, <1>2 DEF CoreInv, KernelTypeOK, OSIntExit, tcbVars, tblVars
    <2>2. TablesAgree' /\ ReadyIffNotWaiting' /\ ReadyIsDispatchable'
      BY <1>2 DEF CoreInv, TablesAgree, ReadyIffNotWaiting, ReadyIsDispatchable, HasTcb,
             Deleting, OSIntExit, tcbVars, tblVars
    <2>3. (RunsHighest => RunsHighest')
      BY <1>2 DEF RunsHighest, Settled, OSIntExit
    <2>4. CurrentKnown' /\ CreationsApart' /\ DeletionHolds' /\ IdleStays' /\ LockUnused'
      BY <1>2 DEF CoreInv, CurrentKnown, CreationsApart, Creating, DeletionHolds, IdleStays,
             LockUnused, HasTcb, OSIntExit, tcbVars, tblVars, Inherits
    <2> QED BY <2>1, <2>2, <2>3, <2>4 DEF CoreInv, Kept
  <1> QED BY <1>1, <1>2

\* OS_Sched keeps CoreInv and RunsHighest.
LEMMA SchedRuns == ASSUME CoreInv, OS_Sched PROVE Kept
  <1>1. at' \in [Tcb -> Label]
    BY DEF CoreInv, KernelTypeOK, OS_Sched, InTask, Label
  <1>2. /\ \A t \in Tcb \ {OSTCBCur} : at'[t] = at[t]
        /\ at'[OSTCBCur] \in {"app", "pendwake"}
        /\ at[OSTCBCur] \in {"sched", "pendwait"}
    BY DEF CoreInv, KernelTypeOK, OS_Sched, InTask
  <1>3. \A t \in Tcb : at[t] # "delwin" /\ at'[t] # "delwin"
    BY <1>2 DEF CoreInv, DeletionHolds
  <1>4. /\ OSTCBCur' \in OSTCBList
        /\ \/ OSPrioCur' = OSTCBPrio[OSTCBCur']
           \/ OSLockNesting # 0 /\ Inherits /\ ~HasTcb(OSPrioCur')
        /\ OSLockNesting = 0 => HighestIn(OSTCBPrio[OSTCBCur'], OSRdyTbl)
        /\ OSTCBCur' \in Tcb /\ OSPrioCur' \in Prio
    <2>1. CASE OSLockNesting = 0
      BY <2>1, DispatchKeeps DEF OS_Sched, tcbVars
    <2>2. CASE OSLockNesting # 0
      BY <2>2 DEF OS_Sched, CoreInv, KernelTypeOK, CurrentKnown, Inherits
    <2> QED BY <2>1, <2>2
  <1>5. KernelTypeOK'
    BY <1>1, <1>4 DEF CoreInv, KernelTypeOK, OS_Sched, tcbVars, tblVars
  <1>6. \A t \in Tcb : ~Deleting(t) /\ ~Deleting(t)'
    BY <1>3, <1>4 DEF Deleting, CoreInv, KernelTypeOK
  <1>7. TablesAgree'
    BY DEF CoreInv, TablesAgree, HasTcb, OS_Sched, tcbVars, tblVars
  <1>8. ReadyIffNotWaiting'
    BY <1>6 DEF CoreInv, KernelTypeOK, ReadyIffNotWaiting, OS_Sched, tcbVars, tblVars
  <1>9. ReadyIsDispatchable'
    BY <1>6, TaskAt
    DEF CoreInv, KernelTypeOK, ReadyIsDispatchable, HasTcb, OS_Sched, tcbVars, tblVars
  <1>10. (RunsHighest => RunsHighest') /\ CurrentKnown'
    BY <1>4 DEF RunsHighest, Settled, CurrentKnown, Inherits, HasTcb, HighestIn, OS_Sched, tcbVars, tblVars
  <1>11. CreationsApart' /\ IdleStays'
    <2>1. \A t \in Tcb : Creating(t)' => at'[t] = at[t]
      BY <1>2 DEF Creating
    <2>2. CreationsApart'
      BY <2>1, CreationsKept DEF OS_Sched, tcbVars, tblVars
    <2>3. IdleStays'
      BY <1>2 DEF CoreInv, IdleStays, OS_Sched, Tcb, tcbVars, tblVars
    <2> QED BY <2>2, <2>3
  <1>12. DeletionHolds' /\ LockUnused'
    BY <1>2, <1>3, <1>4 DEF CoreInv, DeletionHolds, LockUnused, OS_Sched
  <1> QED BY <1>5, <1>7, <1>8, <1>9, <1>10, <1>11, <1>12 DEF CoreInv, Kept

\* OSSchedLock keeps CoreInv and RunsHighest.
LEMMA LockLocks == ASSUME CoreInv, OSSchedLock PROVE Kept
  <1>1. KernelTypeOK'
    BY CoreAssumption DEF CoreInv, KernelTypeOK, OSSchedLock, tcbVars, tblVars, cpuVars
  <1>2. TablesAgree' /\ ReadyIffNotWaiting' /\ ReadyIsDispatchable'
    BY DEF CoreInv, TablesAgree, ReadyIffNotWaiting, ReadyIsDispatchable, HasTcb, Deleting,
           OSSchedLock, tcbVars, tblVars, cpuVars
  <1>3. (RunsHighest => RunsHighest') /\ LockUnused'
    BY DEF RunsHighest, Settled, LockUnused, OSSchedLock, TaskCall, CoreInv, KernelTypeOK
  <1>4. CurrentKnown' /\ DeletionHolds'
    BY DEF CoreInv, KernelTypeOK, CurrentKnown, HasTcb, DeletionHolds, OSSchedLock, TaskCall,
           tcbVars, tblVars, cpuVars, Inherits
  <1>5. CreationsApart' /\ IdleStays'
    BY DEF CoreInv, CreationsApart, Creating, IdleStays, OSSchedLock, tcbVars, tblVars
  <1> QED BY <1>1, <1>2, <1>3, <1>4, <1>5 DEF CoreInv, Kept

\* OSSchedUnlock keeps CoreInv and RunsHighest.
LEMMA LockUnlocks == ASSUME CoreInv, OSSchedUnlock PROVE Kept
  <1>1. \E l \in {"sched", "app"} : at' = [at EXCEPT ![OSTCBCur] = l]
        /\ (l = "app" => OSLockNesting' # 0)
    BY DEF OSSchedUnlock, TaskCall, Goto, CoreInv, KernelTypeOK
  <1> PICK l \in {"sched", "app"} : at' = [at EXCEPT ![OSTCBCur] = l]
        /\ (l = "app" => OSLockNesting' # 0)
    BY <1>1
  <1>2. at[OSTCBCur] = "app" /\ OSTCBCur # Idle /\ "OSSchedLock" \in TaskCalls
    BY DEF OSSchedUnlock, TaskCall
  <1>3. UNCHANGED served
    BY DEF OSSchedUnlock, TaskCall, Goto
  <1>4. KernelTypeOK'
    <2>1. at' \in [Tcb -> Label]
      BY DEF CoreInv, KernelTypeOK, Label
    <2> QED BY <1>3, <2>1, CoreAssumption DEF CoreInv, KernelTypeOK, OSSchedUnlock, tcbVars, tblVars, cpuVars
  <1>5. TablesAgree' /\ ReadyIffNotWaiting' /\ ReadyIsDispatchable'
    BY <1>2 DEF CoreInv, KernelTypeOK, TablesAgree, ReadyIffNotWaiting, ReadyIsDispatchable,
           HasTcb, Deleting, OSSchedUnlock, tcbVars, tblVars, cpuVars
  <1>6. (RunsHighest => RunsHighest') /\ LockUnused'
    BY <1>2 DEF RunsHighest, Settled, LockUnused, OSSchedUnlock, cpuVars, CoreInv, KernelTypeOK
  <1>7. CurrentKnown'
    BY <1>2 DEF CoreInv, KernelTypeOK, CurrentKnown, HasTcb, OSSchedUnlock, tcbVars, tblVars, cpuVars, Inherits
  <1>8. CreationsApart'
    <2>1. \A t \in Tcb : Creating(t)' => at'[t] = at[t]
      BY DEF Creating, CoreInv, KernelTypeOK
    <2> QED BY <2>1, CreationsKept DEF OSSchedUnlock, tcbVars, tblVars
  <1>10. IdleStays'
    BY <1>2 DEF CoreInv, KernelTypeOK, IdleStays, OSSchedUnlock, tcbVars, tblVars
  <1>9. DeletionHolds'
    BY <1>2 DEF CoreInv, KernelTypeOK, DeletionHolds, OSSchedUnlock
  <1> QED BY <1>4, <1>5, <1>6, <1>7, <1>8, <1>9, <1>10 DEF CoreInv, Kept

---------------------------------------------------------------------------
\* OSTaskCreate keeps CoreInv and RunsHighest: the priority it reserves was nobody's.
LEMMA CreateReserves ==
  ASSUME CoreInv, SafeUse, NEW p \in UserPrio, OSTaskCreate(p) PROVE Kept
  <1> DEFINE me == OSTCBCur
  <1>1. /\ OSIntNesting = 0 /\ me \in Tcb /\ me # Idle /\ at[me] = "app"
        /\ at' = [at EXCEPT ![me] = "tcbinit"] /\ UNCHANGED served
        /\ loc' = [loc EXCEPT ![me] = [NoLocals EXCEPT !.prio = p]]
        /\ p \in Prio /\ p # OS_LOWEST_PRIO /\ OSTCBPrioTbl[p] = NullTcb /\ ~Inherits
    BY DEF OSTaskCreate, TaskCall, Goto, Keep, CoreInv, KernelTypeOK, UserPrio, SafeUse
  <1>2. OSTCBPrioTbl' = [OSTCBPrioTbl EXCEPT ![p] = Reserved]
    BY DEF OSTaskCreate
  <1>3. KernelTypeOK'
    <2>1. at' \in [Tcb -> Label]
      BY <1>1 DEF CoreInv, KernelTypeOK, Label
    <2>2. loc' \in [Tcb -> Locals]
      BY <1>1, NoLocalsType DEF CoreInv, KernelTypeOK, NoLocals, Locals
    <2>3. OSTCBPrioTbl' \in [Prio -> Tcb \cup {NullTcb, Reserved}]
      BY <1>2 DEF CoreInv, KernelTypeOK
    <2> QED BY <1>1, <2>1, <2>2, <2>3 DEF CoreInv, KernelTypeOK, OSTaskCreate, tcbVars, cpuVars
  <1>4. TablesAgree' /\ ReadyIsDispatchable'
    BY <1>1, <1>2, CoreAssumption
    DEF CoreInv, KernelTypeOK, TablesAgree, ReadyIsDispatchable, HasTcb, Deleting, Tcb,
        OSTaskCreate, tcbVars, cpuVars
  <1>5. ReadyIffNotWaiting' /\ (RunsHighest => RunsHighest') /\ LockUnused'
    BY <1>1 DEF CoreInv, KernelTypeOK, ReadyIffNotWaiting, RunsHighest, Settled, LockUnused,
                Deleting, OSTaskCreate, tcbVars, cpuVars
  <1>6. CurrentKnown' /\ DeletionHolds'
    BY <1>1, <1>2, CoreAssumption
    DEF CoreInv, KernelTypeOK, CurrentKnown, DeletionHolds, Tcb, Locals, OSTaskCreate, tcbVars, cpuVars, Inherits
  <1>7. IdleStays'
    BY <1>1, <1>2, CoreAssumption DEF CoreInv, KernelTypeOK, IdleStays, Tcb, OSTaskCreate, tcbVars
  <1>8. CreationsApart'
    <2>1. \A t \in Tcb : Creating(t)' => /\ t = me => loc'[t].prio = p
                                         /\ t # me => Creating(t) /\ loc'[t] = loc[t] /\ at'[t] = at[t]
      BY <1>1 DEF Creating, CoreInv, KernelTypeOK, NoLocals
    <2>2. \A t \in Tcb : Creating(t) => loc[t].prio \in Prio \ {p}
      BY <1>1, CoreAssumption DEF CoreInv, KernelTypeOK, CreationsApart, Locals, Tcb
    <2>3. at'[me] # "tcblink"
      BY <1>1 DEF CoreInv, KernelTypeOK
    <2>4. \A t \in Tcb : Creating(t)' => OSTCBPrioTbl'[loc'[t].prio] = Reserved
      BY <1>1, <1>2, <2>1, <2>2 DEF CoreInv, KernelTypeOK, CreationsApart
    <2>5. \A t \in Tcb : at'[t] = "tcblink" =>
            /\ loc'[t].tcb \notin OSTCBList' \cup OSTCBFreeList'
            /\ OSTCBPrio'[loc'[t].tcb] = loc'[t].prio
            /\ OSTCBStat'[loc'[t].tcb] = {} /\ OSTCBDly'[loc'[t].tcb] = 0
      BY <2>1, <2>3 DEF CoreInv, CreationsApart, Creating, OSTaskCreate, tcbVars
    <2>6. \A t, u \in Tcb : t # u /\ Creating(t)' /\ Creating(u)' => loc'[t].prio # loc'[u].prio
      <3> SUFFICES ASSUME NEW t \in Tcb, NEW u \in Tcb, t # u, Creating(t)', Creating(u)'
                   PROVE  loc'[t].prio # loc'[u].prio
        OBVIOUS
      <3>1. CASE t # me /\ u # me
        BY <2>1, <3>1 DEF CoreInv, CreationsApart
      <3>2. CASE t = me \/ u = me
        BY <2>1, <2>2, <3>2 DEF Creating
      <3> QED BY <3>1, <3>2
    <2> QED BY <1>1, <2>4, <2>5, <2>6 DEF CreationsApart, Inherits
  <1> QED BY <1>3, <1>4, <1>5, <1>6, <1>7, <1>8 DEF CoreInv, Kept

\* OS_TCBInit_Take keeps CoreInv and RunsHighest: the TCB it fills in is in no list any more.
LEMMA TcbTaken == ASSUME CoreInv, OS_TCBInit_Take PROVE Kept
  <1> DEFINE me == OSTCBCur
  <1>1. /\ OSIntNesting = 0 /\ me \in Tcb /\ me # Idle /\ at[me] = "tcbinit" /\ ~Inherits
        /\ loc[me] \in Locals /\ loc[me].prio \in Prio
    BY DEF OS_TCBInit_Take, InTask, CoreInv, KernelTypeOK, IdleStays, Locals, CreationsApart, Creating
  <1>2. CASE OSTCBFreeList = {}
    <2>1. /\ at' = [at EXCEPT ![me] = "unreserve"]
          /\ UNCHANGED <<served, OSTCBFreeList, loc, tcbVars>>
      BY <1>1, <1>2 DEF OS_TCBInit_Take, Goto
    <2>2. at' \in [Tcb -> Label]
      BY <2>1 DEF CoreInv, KernelTypeOK, Label
    <2>3. KernelTypeOK'
      BY <2>1, <2>2 DEF CoreInv, KernelTypeOK, OS_TCBInit_Take, tcbVars, cpuVars
    <2>4. TablesAgree' /\ ReadyIffNotWaiting' /\ ReadyIsDispatchable'
      BY <1>1, <2>1 DEF CoreInv, KernelTypeOK, TablesAgree, ReadyIffNotWaiting, ReadyIsDispatchable,
                        HasTcb, Deleting, OS_TCBInit_Take, tcbVars, cpuVars
    <2>5. (RunsHighest => RunsHighest') /\ CurrentKnown' /\ LockUnused'
      BY <1>1, <2>1 DEF CoreInv, KernelTypeOK, RunsHighest, Settled, CurrentKnown, LockUnused,
                        OS_TCBInit_Take, tcbVars, cpuVars, Inherits
    <2>6. DeletionHolds' /\ IdleStays'
      BY <1>1, <2>1 DEF CoreInv, KernelTypeOK, DeletionHolds, IdleStays, OS_TCBInit_Take,
                        tcbVars, cpuVars
    <2>7. CreationsApart'
      <3>1. /\ \A t \in Tcb \ {me} : at'[t] = at[t]
            /\ at'[me] = "unreserve" /\ Creating(me)
        BY <1>1, <2>1 DEF CoreInv, KernelTypeOK, Creating
      <3>2. \A t \in Tcb : /\ Creating(t)' <=> Creating(t)
                           /\ at'[t] = "tcblink" => at[t] = "tcblink"
        BY <3>1 DEF Creating
      <3>3. UNCHANGED <<OSTCBPrioTbl, OSTCBList, OSTCBFreeList, OSTCBPrio, OSTCBStat, OSTCBDly, loc>>
        BY <2>1 DEF OS_TCBInit_Take, tcbVars
      <3> QED BY <3>2, <3>3 DEF CoreInv, CreationsApart, Creating
    <2> QED BY <2>3, <2>4, <2>5, <2>6, <2>7 DEF CoreInv, Kept
  <1>3. CASE OSTCBFreeList # {}
    <2> PICK t \in OSTCBFreeList :
          /\ OSTCBFreeList' = OSTCBFreeList \ {t}
          /\ OSTCBPrio' = [OSTCBPrio EXCEPT ![t] = loc[me].prio]
          /\ OSTCBStat' = [OSTCBStat EXCEPT ![t] = {}]
          /\ OSTCBDly' = [OSTCBDly EXCEPT ![t] = 0]
          /\ OSTCBPendTO' = [OSTCBPendTO EXCEPT ![t] = FALSE]
          /\ OSTCBEventPtr' = [OSTCBEventPtr EXCEPT ![t] = NullEvent]
          /\ Goto("tcblink") /\ Keep([loc[me] EXCEPT !.tcb = t])
      BY <1>3 DEF OS_TCBInit_Take
    <2>1. /\ at' = [at EXCEPT ![me] = "tcblink"] /\ UNCHANGED served
          /\ loc' = [loc EXCEPT ![me] = [loc[me] EXCEPT !.tcb = t]]
          /\ UNCHANGED <<OSRdyTbl, OSEventTbl, OSLockNesting, OSTCBPrioTbl, OSTCBList, cpuVars>>
      BY <1>1 DEF Goto, Keep, OS_TCBInit_Take
    <2>2. /\ t \in Task /\ t \in Tcb /\ t # Idle /\ t \notin OSTCBList
          /\ \A p \in Prio : OSTCBPrioTbl[p] # t
          /\ \A u \in OSTCBList : u \in Tcb /\ u # t
      BY CoreAssumption DEF CoreInv, KernelTypeOK, TablesAgree, HasTcb, Tcb
    <2>3. KernelTypeOK'
      <3>1. at' \in [Tcb -> Label] /\ loc' \in [Tcb -> Locals]
        <4>1. [loc[me] EXCEPT !.tcb = t] \in Locals
          BY <1>1, <2>2 DEF Locals
        <4> QED BY <2>1, <4>1 DEF CoreInv, KernelTypeOK, Label
      <3>2. OSTCBPrio' \in [Tcb -> Prio] /\ OSTCBStat' \in [Tcb -> SUBSET Stat]
        BY <1>1 DEF CoreInv, KernelTypeOK
      <3>5. OSTCBDly' \in [Tcb -> Ticks]
        <4>1. 0 \in Ticks
          BY CoreAssumption DEF Ticks
        <4> QED BY <4>1 DEF CoreInv, KernelTypeOK
      <3>6. OSTCBEventPtr' \in [Tcb -> Event \cup {NullEvent}]
        BY DEF CoreInv, KernelTypeOK
      <3>3. OSTCBPendTO' \in [Tcb -> BOOLEAN]
        BY DEF CoreInv, KernelTypeOK
      <3>4. OSTCBFreeList' \subseteq Task
        BY DEF CoreInv, KernelTypeOK
      <3> QED BY <2>1, <3>1, <3>2, <3>3, <3>4, <3>5, <3>6 DEF CoreInv, KernelTypeOK, cpuVars
    <2>4. \A u \in Tcb \ {t} : /\ OSTCBPrio'[u] = OSTCBPrio[u] /\ OSTCBStat'[u] = OSTCBStat[u]
                               /\ OSTCBDly'[u] = OSTCBDly[u]
      BY DEF CoreInv, KernelTypeOK
    <2>5. /\ \A u \in Tcb \ {me} : at'[u] = at[u] /\ loc'[u] = loc[u]
          /\ at'[me] = "tcblink" /\ loc'[me].prio = loc[me].prio /\ loc'[me].tcb = t
      BY <1>1, <2>1 DEF CoreInv, KernelTypeOK, Locals
    <2>6. \A u \in Tcb : ~Deleting(u) /\ ~Deleting(u)'
      BY <1>1, <2>1, <2>5 DEF Deleting, cpuVars
    <2>7. TablesAgree'
      BY <2>1, <2>2, <2>4, CoreAssumption DEF CoreInv, KernelTypeOK, TablesAgree, HasTcb, Tcb
    <2>8. ReadyIffNotWaiting'
      BY <2>1, <2>2, <2>4, <2>6 DEF CoreInv, ReadyIffNotWaiting
    <2>9. ReadyIsDispatchable'
      BY <2>1, <2>2, <2>6, TaskAt DEF CoreInv, KernelTypeOK, ReadyIsDispatchable, HasTcb
    <2>10. (RunsHighest => RunsHighest') /\ CurrentKnown' /\ LockUnused'
      BY <1>1, <2>1, <2>2, <2>4, <2>5
      DEF CoreInv, RunsHighest, Settled, CurrentKnown, LockUnused, cpuVars, Inherits
    <2>11. DeletionHolds'
      BY <1>1, <2>1, <2>5 DEF CoreInv, DeletionHolds, cpuVars
    <2>12. IdleStays'
      BY <1>1, <2>1, <2>2, <2>4, <2>5 DEF CoreInv, IdleStays, Tcb
    <2>13. CreationsApart'
      <3>1. \A u \in Tcb : Creating(u)' <=> Creating(u)
        BY <1>1, <2>5 DEF Creating
      <3>2. \A u \in Tcb : loc'[u].prio = loc[u].prio /\ loc[u].tcb \in Tcb
        BY <2>5 DEF CoreInv, KernelTypeOK, Locals
      <3>3. \A u \in Tcb : Creating(u)' => OSTCBPrioTbl'[loc'[u].prio] = Reserved
        BY <2>1, <3>1, <3>2 DEF CoreInv, CreationsApart
      <3>4. \A u \in Tcb : at'[u] = "tcblink" =>
              /\ loc'[u].tcb \notin OSTCBList' \cup OSTCBFreeList'
              /\ OSTCBPrio'[loc'[u].tcb] = loc'[u].prio
              /\ OSTCBStat'[loc'[u].tcb] = {} /\ OSTCBDly'[loc'[u].tcb] = 0
        <4> TAKE u \in Tcb
        <4>2. CASE u = me
          BY <2>1, <2>2, <2>5, <4>2 DEF CoreInv, KernelTypeOK
        <4>3. CASE u # me
          BY <2>1, <2>4, <2>5, <3>2, <4>3 DEF CoreInv, CreationsApart
        <4> QED BY <4>2, <4>3
      <3>5. \A u, w \in Tcb : u # w /\ Creating(u)' /\ Creating(w)' => loc'[u].prio # loc'[w].prio
        BY <3>1, <3>2 DEF CoreInv, CreationsApart
      <3> QED BY <1>1, <3>3, <3>4, <3>5 DEF CreationsApart, Inherits
    <2> QED BY <2>3, <2>7, <2>8, <2>9, <2>10, <2>11, <2>12, <2>13 DEF CoreInv, Kept
  <1> QED BY <1>2, <1>3
\* OS_TCBInit_Link keeps CoreInv and RunsHighest: the TCB and the priority are still its own.
LEMMA TaskLinked == ASSUME CoreInv, OS_TCBInit_Link PROVE Kept
  <1> DEFINE me == OSTCBCur
             p == loc[me].prio
             t == loc[me].tcb
  <1>1. /\ OSIntNesting = 0 /\ me \in Tcb /\ me # Idle /\ at[me] = "tcblink"
        /\ p \in Prio /\ t \in Tcb /\ ~Inherits
    BY DEF OS_TCBInit_Link, InTask, CoreInv, KernelTypeOK, IdleStays, Locals, CreationsApart, Creating
  <1>2. /\ OSTCBPrioTbl' = [OSTCBPrioTbl EXCEPT ![p] = t]
        /\ OSTCBList' = OSTCBList \cup {t} /\ OSRdyTbl' = OSRdyTbl \cup {p}
        /\ at' = [at EXCEPT ![me] = "sched"] /\ UNCHANGED served
        /\ loc' = [loc EXCEPT ![me] = NoLocals]
        /\ UNCHANGED <<OSEventTbl, OSLockNesting, OSTCBFreeList, tcbVars, cpuVars>>
    BY <1>1 DEF OS_TCBInit_Link, Goto, Keep
  <1>3. /\ OSTCBPrioTbl[p] = Reserved
        /\ t \notin OSTCBList \cup OSTCBFreeList
        /\ OSTCBPrio[t] = p /\ OSTCBStat[t] = {} /\ OSTCBDly[t] = 0
    BY <1>1 DEF CoreInv, CreationsApart, Creating
  <1>4. /\ OSTCBPrioTbl'[p] = t
        /\ \A r \in Prio \ {p} : OSTCBPrioTbl'[r] = OSTCBPrioTbl[r]
        /\ \A u \in Tcb \ {me} : at'[u] = at[u] /\ loc'[u] = loc[u]
        /\ at'[me] = "sched" /\ me \in OSTCBList /\ OSPrioCur = OSTCBPrio[me]
    BY <1>1, <1>2 DEF CoreInv, KernelTypeOK, CurrentKnown, Inherits
  <1>5. \A u \in Tcb : ~Deleting(u) /\ ~Deleting(u)'
    BY <1>1, <1>2, <1>4 DEF Deleting, cpuVars
  <1>6. KernelTypeOK'
    <2>1. at' \in [Tcb -> Label] /\ loc' \in [Tcb -> Locals]
      BY <1>2, NoLocalsType DEF CoreInv, KernelTypeOK, Label
    <2>2. OSTCBPrioTbl' \in [Prio -> Tcb \cup {NullTcb, Reserved}]
      BY <1>1, <1>2 DEF CoreInv, KernelTypeOK
    <2>3. OSRdyTbl' \subseteq Prio /\ OSTCBList' \subseteq Tcb
      BY <1>1, <1>2 DEF CoreInv, KernelTypeOK
    <2> QED BY <1>2, <2>1, <2>2, <2>3 DEF CoreInv, KernelTypeOK, tcbVars, cpuVars
  <1>7. TablesAgree'
    <2>1. OSTCBList' \cap OSTCBFreeList' = {}
      BY <1>2, <1>3 DEF CoreInv, TablesAgree
    <2>2. \A u \in OSTCBList' : OSTCBPrioTbl'[OSTCBPrio'[u]] = u
      BY <1>2, <1>3, <1>4, CoreAssumption DEF CoreInv, KernelTypeOK, TablesAgree, tcbVars
    <2>3. \A r \in Prio : HasTcb(r)' => /\ OSTCBPrioTbl'[r] \in OSTCBList'
                                        /\ OSTCBPrio'[OSTCBPrioTbl'[r]] = r
      BY <1>1, <1>2, <1>3, <1>4 DEF CoreInv, TablesAgree, HasTcb, tcbVars
    <2> QED BY <2>1, <2>2, <2>3 DEF TablesAgree
  <1>8. ReadyIffNotWaiting'
    <2>1. \A u \in OSTCBList : OSTCBPrio[u] # p
      BY <1>3, CoreAssumption DEF CoreInv, KernelTypeOK, TablesAgree
    <2> QED BY <1>2, <1>3, <1>5, <2>1 DEF CoreInv, KernelTypeOK, ReadyIffNotWaiting, tcbVars
  <1>9. ReadyIsDispatchable'
    <2>1. OSTCBPrioTbl'[p] \notin {NullTcb, Reserved}
      BY <1>1, <1>4, CoreAssumption
    <2>2. \A r \in OSRdyTbl' : /\ HasTcb(r)' /\ OSTCBPrioTbl'[r] \in Tcb
                               /\ OSTCBPrio'[OSTCBPrioTbl'[r]] = r
      BY <1>1, <1>2, <1>3, <1>4, <2>1, TaskAt DEF CoreInv, KernelTypeOK, ReadyIsDispatchable, HasTcb, tcbVars
    <2>3. \A r \in OSRdyTbl' : OSTCBPrioTbl'[r] \notin OSTCBFreeList'
      BY <1>2, <1>3, <1>4 DEF CoreInv, KernelTypeOK, ReadyIsDispatchable
    <2> QED BY <1>5, <2>2, <2>3 DEF ReadyIsDispatchable
  <1>10. (RunsHighest => RunsHighest') /\ CurrentKnown' /\ LockUnused'
    BY <1>1, <1>2, <1>4 DEF CoreInv, RunsHighest, Settled, CurrentKnown, LockUnused, tcbVars, cpuVars
  <1>11. DeletionHolds'
    BY <1>1, <1>2, <1>4 DEF CoreInv, DeletionHolds, cpuVars
  <1>12. IdleStays'
    BY <1>1, <1>2, <1>3, <1>4, CoreAssumption DEF CoreInv, IdleStays, Tcb, Prio, tcbVars
  <1>13. CreationsApart'
    <2>1. \A u \in Tcb : Creating(u)' => u # me /\ Creating(u) /\ at'[u] = at[u] /\ loc'[u] = loc[u]
      BY <1>4 DEF Creating
    <2>2. \A u \in Tcb : Creating(u) /\ u # me => loc[u].prio \in Prio \ {p}
      BY <1>1 DEF CoreInv, KernelTypeOK, CreationsApart, Creating, Locals
    <2>3. \A u \in Tcb : Creating(u)' => OSTCBPrioTbl'[loc'[u].prio] = Reserved
      BY <1>4, <2>1, <2>2 DEF CoreInv, CreationsApart
    <2>4. \A u \in Tcb : at'[u] = "tcblink" =>
            /\ loc'[u].tcb \notin OSTCBList' \cup OSTCBFreeList'
            /\ OSTCBPrio'[loc'[u].tcb] = loc'[u].prio
            /\ OSTCBStat'[loc'[u].tcb] = {} /\ OSTCBDly'[loc'[u].tcb] = 0
      <3> SUFFICES ASSUME NEW u \in Tcb, at'[u] = "tcblink"
                   PROVE  /\ loc'[u].tcb \notin OSTCBList' \cup OSTCBFreeList'
                          /\ OSTCBPrio'[loc'[u].tcb] = loc'[u].prio
                          /\ OSTCBStat'[loc'[u].tcb] = {} /\ OSTCBDly'[loc'[u].tcb] = 0
        OBVIOUS
      <3>1. u # me /\ Creating(u) /\ at[u] = "tcblink" /\ loc'[u] = loc[u]
        BY <1>4, <2>1 DEF Creating
      <3>2. /\ loc[u].tcb \notin OSTCBList \cup OSTCBFreeList
            /\ OSTCBPrio[loc[u].tcb] = loc[u].prio
            /\ OSTCBStat[loc[u].tcb] = {} /\ OSTCBDly[loc[u].tcb] = 0
        BY <3>1 DEF CoreInv, CreationsApart
      <3>3. loc[u].tcb # t
        BY <1>3, <2>2, <3>1, <3>2
      <3> QED BY <1>2, <3>1, <3>2, <3>3 DEF tcbVars
    <2>5. \A u, w \in Tcb : u # w /\ Creating(u)' /\ Creating(w)' => loc'[u].prio # loc'[w].prio
      BY <2>1 DEF CoreInv, CreationsApart
    <2> QED BY <1>1, <2>3, <2>4, <2>5 DEF CreationsApart, Inherits
  <1> QED BY <1>6, <1>7, <1>8, <1>9, <1>10, <1>11, <1>12, <1>13 DEF CoreInv, Kept

\* OSTaskCreate_Undo keeps CoreInv and RunsHighest.
LEMMA CreateGivesUp == ASSUME CoreInv, OSTaskCreate_Undo PROVE Kept
  <1> DEFINE me == OSTCBCur
             p == loc[me].prio
  <1>1. /\ OSIntNesting = 0 /\ me \in Tcb /\ me # Idle /\ at[me] = "unreserve" /\ p \in Prio
        /\ ~Inherits
    BY DEF OSTaskCreate_Undo, InTask, CoreInv, KernelTypeOK, IdleStays, Locals, CreationsApart, Creating
  <1>2. /\ OSTCBPrioTbl' = [OSTCBPrioTbl EXCEPT ![p] = NullTcb]
        /\ at' = [at EXCEPT ![me] = "app"] /\ UNCHANGED served
        /\ loc' = [loc EXCEPT ![me] = NoLocals]
        /\ UNCHANGED <<OSRdyTbl, OSEventTbl, OSLockNesting, OSTCBList, OSTCBFreeList,
                       tcbVars, cpuVars>>
    BY <1>1 DEF OSTaskCreate_Undo, Goto, Keep
  <1>3. /\ OSTCBPrioTbl[p] = Reserved
        /\ \A r \in Prio : HasTcb(r) => r # p
        /\ \A r \in Prio \ {p} : OSTCBPrioTbl'[r] = OSTCBPrioTbl[r]
        /\ OSTCBPrioTbl'[p] = NullTcb
        /\ \A u \in Tcb \ {me} : at'[u] = at[u] /\ loc'[u] = loc[u]
        /\ at'[me] = "app"
    BY <1>1, <1>2 DEF CoreInv, KernelTypeOK, CreationsApart, Creating, HasTcb
  <1>4. \A u \in Tcb : ~Deleting(u) /\ ~Deleting(u)'
    BY <1>1, <1>2, <1>3 DEF Deleting, cpuVars
  <1>5. KernelTypeOK'
    <2>1. at' \in [Tcb -> Label] /\ loc' \in [Tcb -> Locals]
      BY <1>2, NoLocalsType DEF CoreInv, KernelTypeOK, Label
    <2>2. OSTCBPrioTbl' \in [Prio -> Tcb \cup {NullTcb, Reserved}]
      BY <1>2 DEF CoreInv, KernelTypeOK
    <2> QED BY <1>2, <2>1, <2>2 DEF CoreInv, KernelTypeOK, tcbVars, cpuVars
  <1>6. TablesAgree'
    BY <1>2, <1>3, CoreAssumption DEF CoreInv, KernelTypeOK, TablesAgree, HasTcb, tcbVars
  <1>7. ReadyIffNotWaiting'
    BY <1>2, <1>4 DEF CoreInv, KernelTypeOK, ReadyIffNotWaiting, tcbVars
  <1>8. ReadyIsDispatchable'
    BY <1>2, <1>3, <1>4, TaskAt DEF CoreInv, KernelTypeOK, ReadyIsDispatchable, HasTcb, tcbVars
  <1>9. (RunsHighest => RunsHighest') /\ CurrentKnown' /\ LockUnused'
    BY <1>1, <1>2, <1>3 DEF CoreInv, RunsHighest, Settled, CurrentKnown, LockUnused, tcbVars, cpuVars, Inherits
  <1>10. DeletionHolds'
    BY <1>1, <1>2, <1>3 DEF CoreInv, DeletionHolds, cpuVars
  <1>11. IdleStays'
    BY <1>1, <1>2, <1>3, CoreAssumption DEF CoreInv, IdleStays, Tcb, Prio, tcbVars
  <1>12. CreationsApart'
    <2>1. \A u \in Tcb : Creating(u)' => u # me /\ Creating(u) /\ at'[u] = at[u] /\ loc'[u] = loc[u]
      BY <1>3 DEF Creating
    <2>2. \A u \in Tcb : Creating(u) /\ u # me => loc[u].prio \in Prio \ {p}
      BY <1>1 DEF CoreInv, KernelTypeOK, CreationsApart, Creating, Locals
    <2>3. \A u \in Tcb : Creating(u)' => OSTCBPrioTbl'[loc'[u].prio] = Reserved
      BY <1>3, <2>1, <2>2 DEF CoreInv, CreationsApart
    <2>4. UNCHANGED <<OSTCBList, OSTCBFreeList, OSTCBPrio, OSTCBStat, OSTCBDly>>
      BY <1>2 DEF tcbVars
    <2>5. \A u \in Tcb : at'[u] = "tcblink" => Creating(u)'
      BY DEF Creating
    <2> HIDE DEF me
    <2> QED BY <2>1, <2>3, <2>4, <2>5 DEF CoreInv, CreationsApart
  <1> QED BY <1>5, <1>6, <1>7, <1>8, <1>9, <1>10, <1>11, <1>12 DEF CoreInv, Kept

\* OSTaskDel keeps CoreInv and RunsHighest.
LEMMA DelDisables ==
  ASSUME CoreInv, SafeUse, NEW p \in UserPrio, OSTaskDel(p) PROVE Kept
  <1> DEFINE me == OSTCBCur
             t == OSTCBPrioTbl[p]
             mine == [NoLocals EXCEPT !.prio = p, !.tcb = t]
  <1>1. /\ OSIntNesting = 0 /\ me \in Tcb /\ me # Idle /\ at[me] = "app"
        /\ p \in Prio /\ p # OS_LOWEST_PRIO /\ HasTcb(p)
        /\ "OSTaskDel" \in TaskCalls /\ ~Inherits
    BY DEF OSTaskDel, Disable, TaskCall, CoreInv, KernelTypeOK, UserPrio, SafeUse
  <1>2. t \in Tcb /\ t # Idle /\ t \in OSTCBList /\ OSTCBPrio[t] = p
    BY <1>1, TaskAt
  <1>3. /\ OSRdyTbl' = OSRdyTbl \ {p}
        /\ OSTCBDly' = [OSTCBDly EXCEPT ![t] = 0]
        /\ OSTCBStat' = [OSTCBStat EXCEPT ![t] = {}]
        /\ OSTCBPendTO' = [OSTCBPendTO EXCEPT ![t] = FALSE]
        /\ loc' = [loc EXCEPT ![me] = mine]
        /\ at' = [at EXCEPT ![me] = "delwin"] /\ UNCHANGED served
        /\ UNCHANGED <<OSTCBPrio, OSTCBEventPtr, tblVars, cpuVars>>
    BY <1>1, <1>2 DEF OSTaskDel, Disable, Goto, Keep
  <1>4. mine \in Locals /\ mine.prio = p /\ mine.tcb = t
    BY <1>1, <1>2, NoLocalsType DEF NoLocals, Locals
  <1>5. /\ OSLockNesting' \in 1 .. LockMax
        /\ t = me \/ "OSSchedLock" \notin TaskCalls => OSLockNesting' = 1
    BY <1>1, CoreAssumption DEF OSTaskDel, Disable, CoreInv, KernelTypeOK, LockUnused
  <1>6. /\ \A u \in Tcb \ {me} : at'[u] = at[u] /\ loc'[u] = loc[u]
        /\ at'[me] = "delwin" /\ loc'[me].prio = p /\ loc'[me].tcb = t
        /\ OSTCBStat'[t] = {} /\ OSTCBDly'[t] = 0
        /\ \A u \in Tcb \ {t} : OSTCBStat'[u] = OSTCBStat[u] /\ OSTCBDly'[u] = OSTCBDly[u]
    BY <1>1, <1>2, <1>3, <1>4 DEF CoreInv, KernelTypeOK
  <1> HIDE DEF mine
  <1>7. KernelTypeOK'
    <2>1. at' \in [Tcb -> Label] /\ loc' \in [Tcb -> Locals]
      BY <1>3, <1>4 DEF CoreInv, KernelTypeOK, Label
    <2>2. OSEventTbl' \in [Event -> SUBSET Prio]
      BY DEF OSTaskDel, Disable, CoreInv, KernelTypeOK
    <2>3. OSTCBDly' \in [Tcb -> Ticks]
      <3>1. 0 \in Ticks
        BY CoreAssumption DEF Ticks
      <3> QED BY <1>3, <3>1 DEF CoreInv, KernelTypeOK
    <2>4. OSTCBStat' \in [Tcb -> SUBSET Stat] /\ OSTCBPendTO' \in [Tcb -> BOOLEAN]
      BY <1>3 DEF CoreInv, KernelTypeOK
    <2>5. OSRdyTbl' \subseteq Prio
      BY <1>3 DEF CoreInv, KernelTypeOK
    <2> QED BY <1>3, <1>5, <2>1, <2>2, <2>3, <2>4, <2>5 DEF CoreInv, KernelTypeOK, tblVars, cpuVars
  <1>8. TablesAgree'
    BY <1>3 DEF CoreInv, TablesAgree, HasTcb, tblVars
  <1>9. ReadyIffNotWaiting'
    <2> SUFFICES ASSUME NEW u \in OSTCBList, u # t
                 PROVE  OSTCBPrio[u] \in OSRdyTbl' <=> OSTCBStat'[u] = {} /\ OSTCBDly'[u] = 0
      BY <1>3, <1>4, <1>6 DEF ReadyIffNotWaiting, Deleting, tblVars, cpuVars
    <2>1. u \in Tcb /\ OSTCBPrio[u] # p
      BY <1>2, OneTaskPerPrio DEF CoreInv, KernelTypeOK
    <2>2. ~Deleting(u)
      BY <1>1 DEF Deleting
    <2> QED BY <1>3, <1>6, <2>1, <2>2 DEF CoreInv, ReadyIffNotWaiting
  <1>10. ReadyIsDispatchable'
    <2>1. \A r \in OSRdyTbl' : r \in OSRdyTbl /\ OSTCBPrioTbl[r] # t
      BY <1>2, <1>3, TaskAt DEF CoreInv, KernelTypeOK, ReadyIsDispatchable
    <2> QED BY <1>3, <1>4, <1>6, <2>1
            DEF CoreInv, ReadyIsDispatchable, HasTcb, Deleting, tblVars, cpuVars
  <1>11. (RunsHighest => RunsHighest') /\ CurrentKnown' /\ LockUnused'
    BY <1>1, <1>3, <1>5, <1>6
    DEF CoreInv, RunsHighest, Settled, CurrentKnown, LockUnused, tblVars, cpuVars, Inherits
  <1>12. DeletionHolds'
    <2>1. \A u \in Tcb : at'[u] = "delwin" => u = me
      BY <1>1, <1>6 DEF CoreInv, DeletionHolds
    <2> QED BY <1>1, <1>2, <1>3, <1>4, <1>5, <1>6, <2>1 DEF DeletionHolds, tblVars, cpuVars, Inherits
  <1>13. IdleStays'
    BY <1>1, <1>3, <1>6 DEF CoreInv, IdleStays, Tcb, tblVars
  <1>14. CreationsApart'
    <2>1. \A u \in Tcb : Creating(u)' => at'[u] = at[u] /\ loc'[u] = loc[u]
      BY <1>6 DEF Creating
    <2> QED BY <1>2, <1>3, <1>6, <2>1, CreationsKept DEF tblVars
  <1> QED BY <1>7, <1>8, <1>9, <1>10, <1>11, <1>12, <1>13, <1>14 DEF CoreInv, Kept

\* OSTaskDel_Free keeps CoreInv and RunsHighest: after the window the victim is still where
\* OSTaskDel found it, and still disabled.
LEMMA DelFrees == ASSUME CoreInv, OSTaskDel_Free PROVE Kept
  <1> DEFINE me == OSTCBCur
             p == loc[me].prio
             t == loc[me].tcb
  <1>1. /\ OSIntNesting = 0 /\ me \in Tcb /\ me # Idle /\ at[me] = "delwin"
        /\ p \in Prio /\ t \in Tcb /\ ~Inherits
    BY DEF OSTaskDel_Free, InTask, CoreInv, KernelTypeOK, IdleStays, Locals, DeletionHolds
  <1>2. /\ OSLockNesting > 0 /\ OSTCBPrioTbl[p] = t /\ t # Idle
        /\ OSTCBStat[t] = {} /\ OSTCBDly[t] = 0 /\ t \in Task
        /\ \A u \in Tcb : at[u] = "delwin" => u = me
    BY <1>1 DEF CoreInv, DeletionHolds, Tcb
  <1>3. t \in OSTCBList /\ OSTCBPrio[t] = p /\ me \in OSTCBList /\ OSPrioCur = OSTCBPrio[me]
    BY <1>1, <1>2, CoreAssumption DEF CoreInv, KernelTypeOK, TablesAgree, HasTcb, Tcb, CurrentKnown, Inherits
  <1>4. /\ OSTCBPrioTbl' = [OSTCBPrioTbl EXCEPT ![p] = NullTcb]
        /\ OSTCBList' = OSTCBList \ {t} /\ OSTCBFreeList' = OSTCBFreeList \cup {t}
        /\ at' = [at EXCEPT ![t] = "app", ![me] = "sched"]
        /\ loc' = [loc EXCEPT ![t] = NoLocals, ![me] = NoLocals]
        /\ OSLockNesting' = OSLockNesting - 1
        /\ UNCHANGED <<OSRdyTbl, OSEventTbl, served, tcbVars, cpuVars>>
    BY <1>2 DEF OSTaskDel_Free
  <1>5. /\ OSTCBPrioTbl'[p] = NullTcb
        /\ \A r \in Prio \ {p} : OSTCBPrioTbl'[r] = OSTCBPrioTbl[r]
        /\ at'[me] = "sched" /\ (t # me => at'[t] = "app")
        /\ \A u \in Tcb \ {me, t} : at'[u] = at[u] /\ loc'[u] = loc[u]
        /\ \A u \in Tcb : at'[u] # "delwin"
    BY <1>1, <1>2, <1>4 DEF CoreInv, KernelTypeOK
  <1>6. \A u \in Tcb : ~Deleting(u)' /\ (Deleting(u) => u = t)
    BY <1>1, <1>4, <1>5 DEF Deleting, cpuVars
  <1>7. KernelTypeOK'
    <2>1. at' \in [Tcb -> Label] /\ loc' \in [Tcb -> Locals]
      BY <1>4, NoLocalsType DEF CoreInv, KernelTypeOK, Label
    <2>2. OSTCBPrioTbl' \in [Prio -> Tcb \cup {NullTcb, Reserved}]
      BY <1>4 DEF CoreInv, KernelTypeOK
    <2>3. OSLockNesting' \in 0 .. LockMax
      BY <1>2, <1>4, CoreAssumption DEF CoreInv, KernelTypeOK
    <2>4. OSTCBList' \subseteq Tcb /\ OSTCBFreeList' \subseteq Task
      BY <1>2, <1>4 DEF CoreInv, KernelTypeOK
    <2> QED BY <1>4, <2>1, <2>2, <2>3, <2>4 DEF CoreInv, KernelTypeOK, tcbVars, cpuVars
  <1>8. \A u \in OSTCBList' : u \in OSTCBList /\ u \in Tcb /\ u # t /\ OSTCBPrio[u] # p
    BY <1>3, <1>4, OneTaskPerPrio DEF CoreInv, KernelTypeOK
  <1>9. TablesAgree'
    <2>1. OSTCBList' \cap OSTCBFreeList' = {}
      BY <1>4 DEF CoreInv, TablesAgree
    <2>2. \A u \in OSTCBList' : OSTCBPrioTbl'[OSTCBPrio'[u]] = u
      BY <1>4, <1>5, <1>8 DEF CoreInv, KernelTypeOK, TablesAgree, tcbVars
    <2>3. \A r \in Prio : HasTcb(r)' => /\ OSTCBPrioTbl'[r] \in OSTCBList'
                                        /\ OSTCBPrio'[OSTCBPrioTbl'[r]] = r
      BY <1>1, <1>3, <1>4, <1>5 DEF CoreInv, TablesAgree, HasTcb, tcbVars
    <2> QED BY <2>1, <2>2, <2>3 DEF TablesAgree
  <1>10. ReadyIffNotWaiting'
    BY <1>4, <1>6, <1>8 DEF CoreInv, ReadyIffNotWaiting, tcbVars
  <1>11. ReadyIsDispatchable'
    <2>1. \A r \in OSRdyTbl : r \in Prio /\ r # p /\ OSTCBPrioTbl[r] # t /\ OSTCBPrioTbl[r] \in Tcb
      BY <1>1, <1>2, <1>3, TaskAt DEF CoreInv, KernelTypeOK, ReadyIsDispatchable, Deleting
    <2> QED BY <1>4, <1>5, <1>6, <2>1 DEF CoreInv, ReadyIsDispatchable, HasTcb, tcbVars
  <1>12. CurrentKnown'
    <2>1. CASE t = me
      <3>1. OSLockNesting = 1
        BY <1>1, <2>1 DEF CoreInv, DeletionHolds
      <3> QED BY <1>3, <1>4, <1>5, <2>1, <3>1 DEF CurrentKnown, cpuVars
    <2>2. CASE t # me
      BY <1>3, <1>4, <2>2 DEF CurrentKnown, tcbVars, cpuVars
    <2> QED BY <2>1, <2>2
  <1>13. (RunsHighest => RunsHighest') /\ DeletionHolds'
    BY <1>4, <1>5 DEF RunsHighest, Settled, DeletionHolds, cpuVars
  <1>14. LockUnused'
    BY <1>1, <1>4 DEF CoreInv, KernelTypeOK, DeletionHolds, LockUnused
  <1>15. IdleStays'
    BY <1>1, <1>2, <1>3, <1>4, <1>5, CoreAssumption DEF CoreInv, KernelTypeOK, IdleStays, Tcb, tcbVars
  <1>16. CreationsApart'
    <2>1. \A u \in Tcb : Creating(u)' => at'[u] = at[u] /\ loc'[u] = loc[u]
      BY <1>5 DEF Creating
    <2>2. OSTCBPrioTbl[p] # Reserved
      BY <1>2, CoreAssumption DEF Tcb
    <2> HIDE DEF me, p, t
    <2> QED BY <1>3, <1>4, <1>5, <2>1, <2>2, CreationsKept DEF tcbVars
  <1> QED BY <1>7, <1>9, <1>10, <1>11, <1>12, <1>13, <1>14, <1>15, <1>16 DEF CoreInv, Kept

---------------------------------------------------------------------------
\* What the end of a one-region service does to the points the tasks stand at.
LEMMA ServiceReturns ==
  ASSUME CoreInv, NEW s, Call(s), NEW l \in {"sched", "app"}, Goto(l)
  PROVE  /\ at' \in [Tcb -> Label] /\ served' \in BOOLEAN
         /\ OSIntNesting = 0 => at[OSTCBCur] = "app" /\ at'[OSTCBCur] = l /\ OSTCBCur # Idle
         /\ OSIntNesting # 0 => at' = at /\ s \in IsrCalls
         /\ \A t \in Tcb \ {OSTCBCur} : at'[t] = at[t]
         /\ at'[OSTCBCur] = "delwin" <=> at[OSTCBCur] = "delwin"
         /\ \A t \in Tcb : Creating(t)' => at'[t] = at[t]
         /\ at'[Idle] = "app"
         /\ \A t \in Tcb : at'[t] = "delwin" => at[t] = "delwin"
  <1>1. CASE OSIntNesting = 0
    <2>1. /\ at[OSTCBCur] = "app" /\ OSTCBCur # Idle /\ OSTCBCur \in Tcb
          /\ at' = [at EXCEPT ![OSTCBCur] = l] /\ UNCHANGED served
      BY <1>1 DEF Call, TaskCall, IsrCall, Goto, CoreInv, KernelTypeOK
    <2>2. at' \in [Tcb -> Label] /\ served' \in BOOLEAN
      BY <2>1 DEF CoreInv, KernelTypeOK, Label
    <2> QED BY <1>1, <2>1, <2>2 DEF CoreInv, KernelTypeOK, IdleStays, Creating, Tcb
  <1>2. CASE OSIntNesting # 0
    <2>1. at' = at /\ s \in IsrCalls /\ served' = TRUE
      BY <1>2 DEF Call, TaskCall, IsrCall, Goto
    <2>2. at' \in [Tcb -> Label] /\ served' \in BOOLEAN
      BY <2>1, Zenon DEF CoreInv, KernelTypeOK
    <2> QED BY <1>2, <2>1, <2>2 DEF CoreInv, KernelTypeOK, IdleStays, Creating
  <1> QED BY <1>1, <1>2

\* OSTaskSuspend keeps CoreInv and RunsHighest, called by tasks.
LEMMA SuspendSuspends ==
  ASSUME CoreInv, SafeUse, NEW p \in UserPrio, OSTaskSuspend(p) PROVE Kept
  <1> DEFINE t == OSTCBPrioTbl[p]
  <1>1. /\ OSIntNesting = 0 /\ at[OSTCBCur] = "app" /\ OSTCBCur # Idle /\ OSTCBCur \in Tcb
        /\ p \in Prio /\ p # OS_LOWEST_PRIO /\ HasTcb(p)
    BY DEF OSTaskSuspend, Call, TaskCall, IsrCall, SafeUse, CoreInv, KernelTypeOK, UserPrio
  <1>2. t \in Tcb /\ t # Idle /\ t \in OSTCBList /\ (Inherits \/ OSTCBPrio[t] = p)
    BY <1>1, TaskAt
  <1> DEFINE l == IF p = OSTCBPrio[OSTCBCur] THEN "sched" ELSE "app"
  <1>3. /\ OSRdyTbl' = OSRdyTbl \ {OSTCBPrio[t]}
        /\ OSTCBStat' = [OSTCBStat EXCEPT ![t] = @ \cup {"SUSPEND"}]
        /\ at' = [at EXCEPT ![OSTCBCur] = l] /\ UNCHANGED served
        /\ UNCHANGED <<OSTCBPrio, OSTCBDly, OSTCBEventPtr, OSTCBPendTO, OSEventTbl,
                       OSLockNesting, loc, tblVars, cpuVars>>
    BY <1>1, <1>2 DEF OSTaskSuspend, Goto
  <1>4. /\ at'[OSTCBCur] = l /\ \A u \in Tcb \ {OSTCBCur} : at'[u] = at[u]
        /\ \A u \in Tcb \ {t} : OSTCBStat'[u] = OSTCBStat[u]
        /\ OSTCBStat'[t] # {}
    BY <1>1, <1>2, <1>3 DEF CoreInv, KernelTypeOK
  <1>5. /\ \A u \in Tcb : at[u] # "delwin" /\ at'[u] # "delwin"
        /\ \A u \in Tcb : ~Deleting(u) /\ ~Deleting(u)'
    BY <1>1, <1>3, <1>4 DEF CoreInv, DeletionHolds, Deleting, cpuVars
  <1>6. KernelTypeOK'
    <2>1. at' \in [Tcb -> Label]
      BY <1>3 DEF CoreInv, KernelTypeOK, Label
    <2>2. OSRdyTbl' \subseteq Prio
      BY <1>3 DEF CoreInv, KernelTypeOK
    <2>3. OSTCBStat' \in [Tcb -> SUBSET Stat]
      BY <1>3 DEF CoreInv, KernelTypeOK, Stat
    <2> QED BY <1>3, <2>1, <2>2, <2>3 DEF CoreInv, KernelTypeOK, tblVars, cpuVars
  <1>7. TablesAgree'
    BY <1>3 DEF CoreInv, TablesAgree, HasTcb, tblVars
  <1>8. ReadyIffNotWaiting'
    <2>1. \A u \in OSTCBList : u # t => OSTCBPrio[u] # OSTCBPrio[t] /\ u \in Tcb
      BY <1>2, OneTaskPerPrio DEF CoreInv, KernelTypeOK
    <2> QED BY <1>2, <1>3, <1>4, <1>5, <2>1 DEF CoreInv, KernelTypeOK, ReadyIffNotWaiting, tblVars
  <1>9. ReadyIsDispatchable'
    <2>1. \A r \in OSRdyTbl' : r \in OSRdyTbl /\ HasTcb(r) /\ OSTCBPrioTbl[r] \in Tcb
      BY <1>3, TaskAt DEF CoreInv, KernelTypeOK, ReadyIsDispatchable
    <2> QED BY <1>3, <1>5, <2>1 DEF CoreInv, ReadyIsDispatchable, HasTcb, tblVars
  <1>10. RunsHighest /\ (Inherits => NamesSelf) => RunsHighest'
    <2> SUFFICES ASSUME RunsHighest, Inherits => NamesSelf, at'[OSTCBCur] # "sched", OSLockNesting = 0
                 PROVE  HighestIn(OSTCBPrio[OSTCBCur], OSRdyTbl')
      BY <1>1, <1>3 DEF RunsHighest, Settled, cpuVars
    <2>1. HighestIn(OSTCBPrio[OSTCBCur], OSRdyTbl)
      BY <1>1 DEF RunsHighest, Settled
    <2>2. t # OSTCBCur
      <3> SUFFICES ASSUME t = OSTCBCur PROVE FALSE
        OBVIOUS
      <3>1. Inherits /\ "SUSPEND" \in OSTCBStat'[OSTCBCur]
        BY <1>2, <1>3, <1>4 DEF CoreInv, KernelTypeOK
      <3>2. OSTCBStat[OSTCBCur] = {}
        BY <1>2, <1>5, <2>1 DEF CoreInv, ReadyIffNotWaiting, HighestIn
      <3> QED BY <3>1, <3>2 DEF NamesSelf
    <2>3. OSTCBCur \in OSTCBList
      BY <1>1 DEF CoreInv, CurrentKnown
    <2>4. OSTCBPrio[t] # OSTCBPrio[OSTCBCur]
      BY <1>2, <2>2, <2>3, OneTaskPerPrio DEF CoreInv
    <2> QED BY <1>3, <2>1, <2>4 DEF HighestIn
  <1>11. CurrentKnown' /\ DeletionHolds' /\ LockUnused'
    BY <1>1, <1>3, <1>5 DEF CoreInv, CurrentKnown, HasTcb, DeletionHolds, LockUnused, tblVars, cpuVars, Inherits
  <1>12. IdleStays'
    BY <1>1, <1>3, <1>4 DEF CoreInv, IdleStays, Tcb, tblVars
  <1>13. CreationsApart'
    <2>1. \A u \in Tcb : Creating(u)' => at'[u] = at[u]
      BY <1>4 DEF Creating
    <2>2. \A u \in Tcb \ (OSTCBList \cup OSTCBFreeList) : OSTCBStat'[u] = OSTCBStat[u]
      BY <1>2, <1>4
    <2> QED BY <1>3, <2>1, <2>2, CreationsKept DEF tblVars
  <1> QED BY <1>6, <1>7, <1>8, <1>9, <1>10, <1>11, <1>12, <1>13 DEF CoreInv, Kept

\* OSTaskResume keeps CoreInv and RunsHighest, called by tasks or handlers.
LEMMA ResumeResumes ==
  ASSUME CoreInv, NEW p \in UserPrio, OSTaskResume(p) PROVE Kept
  <1> DEFINE t == OSTCBPrioTbl[p]
             free == OSTCBStat[t] = {"SUSPEND"} /\ OSTCBDly[t] = 0
             l == IF free THEN "sched" ELSE "app"
  <1>1. /\ OSTCBCur \in Tcb /\ p \in Prio /\ p # OS_LOWEST_PRIO /\ HasTcb(p)
        /\ Call("OSTaskResume") /\ Goto(l)
    BY DEF OSTaskResume, CoreInv, KernelTypeOK, UserPrio
  <1>2. t \in Tcb /\ t \in OSTCBList
    BY <1>1, TaskAt
  <1>3. /\ "SUSPEND" \in OSTCBStat[t]
        /\ OSRdyTbl' = IF free THEN OSRdyTbl \cup {OSTCBPrio[t]} ELSE OSRdyTbl
        /\ OSTCBStat' = [OSTCBStat EXCEPT ![t] = @ \ {"SUSPEND"}]
        /\ UNCHANGED <<OSTCBPrio, OSTCBDly, OSTCBPendTO, OSTCBEventPtr, OSEventTbl,
                       OSLockNesting, loc, tblVars, cpuVars>>
    BY <1>2 DEF OSTaskResume
  <1>4. /\ at' \in [Tcb -> Label] /\ served' \in BOOLEAN
        /\ OSIntNesting = 0 => at[OSTCBCur] = "app" /\ at'[OSTCBCur] = l
        /\ OSIntNesting # 0 => at' = at
        /\ at'[OSTCBCur] = "delwin" <=> at[OSTCBCur] = "delwin"
        /\ \A u \in Tcb : Creating(u)' => at'[u] = at[u]
        /\ at'[Idle] = "app"
        /\ \A u \in Tcb : at'[u] = "delwin" => at[u] = "delwin"
    BY <1>1, ServiceReturns
  <1>5. \A u \in Tcb \ {t} : OSTCBStat'[u] = OSTCBStat[u]
    BY <1>2, <1>3 DEF CoreInv, KernelTypeOK
  <1>6. /\ \A u \in Tcb : Deleting(u)' <=> Deleting(u)
        /\ ~Deleting(t)
    BY <1>1, <1>3, <1>4 DEF CoreInv, DeletionHolds, Deleting, cpuVars
  <1>7. KernelTypeOK'
    <2>1. OSRdyTbl' \subseteq Prio
      BY <1>2, <1>3 DEF CoreInv, KernelTypeOK
    <2>2. OSTCBStat' \in [Tcb -> SUBSET Stat]
      BY <1>3 DEF CoreInv, KernelTypeOK
    <2> QED BY <1>3, <1>4, <2>1, <2>2 DEF CoreInv, KernelTypeOK, tblVars, cpuVars
  <1>8. TablesAgree'
    BY <1>3 DEF CoreInv, TablesAgree, HasTcb, tblVars
  <1>9. ReadyIffNotWaiting'
    <2> SUFFICES ASSUME NEW u \in OSTCBList, ~Deleting(u)
                 PROVE  OSTCBPrio[u] \in OSRdyTbl' <=> OSTCBStat'[u] = {} /\ OSTCBDly[u] = 0
      BY <1>3, <1>6 DEF ReadyIffNotWaiting, tblVars, CoreInv, KernelTypeOK
    <2>1. /\ u \in Tcb
          /\ OSTCBPrio[u] \in OSRdyTbl <=> OSTCBStat[u] = {} /\ OSTCBDly[u] = 0
      BY DEF CoreInv, KernelTypeOK, ReadyIffNotWaiting
    <2>2. CASE u = t
      <3>1. OSTCBStat'[t] = {} <=> OSTCBStat[t] = {"SUSPEND"}
        BY <1>2, <1>3 DEF CoreInv, KernelTypeOK
      <3> QED BY <1>2, <1>3, <2>1, <2>2, <3>1
    <2>3. CASE u # t
      <3>1. OSTCBPrio[u] # OSTCBPrio[t]
        BY <1>2, <2>3, OneTaskPerPrio DEF CoreInv
      <3> QED BY <1>3, <1>5, <2>1, <2>3, <3>1
    <2> QED BY <2>2, <2>3
  <1>10. ReadyIsDispatchable'
    <2>1. /\ OSTCBPrio[t] \in Prio /\ OSTCBPrioTbl[OSTCBPrio[t]] = t
          /\ t \notin OSTCBFreeList /\ t \notin {NullTcb, Reserved}
      BY <1>1, <1>2, CoreAssumption DEF CoreInv, KernelTypeOK, TablesAgree, Tcb
    <2>2. \A r \in OSRdyTbl' : /\ r \in Prio /\ HasTcb(r) /\ OSTCBPrioTbl[r] \in Tcb
                               /\ OSTCBPrio[OSTCBPrioTbl[r]] = r
                               /\ ~Deleting(OSTCBPrioTbl[r])
                               /\ OSTCBPrioTbl[r] \notin OSTCBFreeList
      BY <1>2, <1>3, <1>6, <2>1, TaskAt DEF CoreInv, KernelTypeOK, ReadyIsDispatchable, HasTcb
    <2> QED BY <1>3, <1>6, <2>2 DEF ReadyIsDispatchable, HasTcb, tblVars
  <1>11. (RunsHighest => RunsHighest')
    BY <1>3, <1>4 DEF CoreInv, RunsHighest, Settled, cpuVars
  <1>12. CurrentKnown' /\ LockUnused'
    BY <1>3, <1>4 DEF CoreInv, CurrentKnown, HasTcb, LockUnused, tblVars, cpuVars, Inherits
  <1>13. DeletionHolds'
    <2>1. \A u \in Tcb : at[u] = "delwin" => OSTCBStat'[loc[u].tcb] = {}
      BY <1>3, <1>5 DEF CoreInv, KernelTypeOK, DeletionHolds, Locals
    <2> QED BY <1>3, <1>4, <2>1 DEF CoreInv, DeletionHolds, tblVars, cpuVars
  <1>14. IdleStays'
    BY <1>3, <1>4 DEF CoreInv, IdleStays, tblVars
  <1>15. CreationsApart'
    <2>1. \A u \in Tcb \ (OSTCBList \cup OSTCBFreeList) : OSTCBStat'[u] = OSTCBStat[u]
      BY <1>2, <1>5
    <2> QED BY <1>3, <1>4, <2>1, CreationsKept DEF tblVars
  <1> QED BY <1>7, <1>8, <1>9, <1>10, <1>11, <1>12, <1>13, <1>14, <1>15 DEF CoreInv, Kept

\* OSTimeDly keeps CoreInv and RunsHighest.
LEMMA DelayDelays ==
  ASSUME CoreInv, NEW n \in Ticks, OSTimeDly(n) PROVE Kept
  <1> DEFINE me == OSTCBCur
  <1>1. /\ OSIntNesting = 0 /\ me \in Tcb /\ me # Idle /\ at[me] = "app"
        /\ me \in OSTCBList /\ n # 0
    BY DEF OSTimeDly, TaskCall, CoreInv, KernelTypeOK, CurrentKnown, Ticks, Inherits
  <1>2. /\ OSRdyTbl' = OSRdyTbl \ {OSTCBPrio[me]}
        /\ OSTCBDly' = [OSTCBDly EXCEPT ![me] = n]
        /\ at' = [at EXCEPT ![me] = "sched"] /\ UNCHANGED served
        /\ UNCHANGED <<OSTCBPrio, OSTCBStat, OSTCBPendTO, OSTCBEventPtr, OSEventTbl,
                       OSLockNesting, loc, tblVars, cpuVars>>
    BY <1>1 DEF OSTimeDly, Goto
  <1>3. /\ at'[me] = "sched" /\ \A u \in Tcb \ {me} : at'[u] = at[u]
        /\ OSTCBDly'[me] = n
        /\ \A u \in Tcb \ {me} : OSTCBDly'[u] = OSTCBDly[u]
    BY <1>1, <1>2 DEF CoreInv, KernelTypeOK
  <1>4. /\ \A u \in Tcb : at[u] # "delwin" /\ at'[u] # "delwin"
        /\ \A u \in Tcb : ~Deleting(u) /\ ~Deleting(u)'
    BY <1>1, <1>2, <1>3 DEF CoreInv, DeletionHolds, Deleting, cpuVars
  <1>5. KernelTypeOK'
    <2>1. at' \in [Tcb -> Label]
      BY <1>2 DEF CoreInv, KernelTypeOK, Label
    <2>2. OSRdyTbl' \subseteq Prio /\ OSTCBDly' \in [Tcb -> Ticks]
      BY <1>2 DEF CoreInv, KernelTypeOK
    <2> QED BY <1>2, <2>1, <2>2 DEF CoreInv, KernelTypeOK, tblVars, cpuVars
  <1>6. TablesAgree'
    BY <1>2 DEF CoreInv, TablesAgree, HasTcb, tblVars
  <1>7. ReadyIffNotWaiting'
    <2>1. \A u \in OSTCBList : u # me => OSTCBPrio[u] # OSTCBPrio[me] /\ u \in Tcb
      BY <1>1, OneTaskPerPrio DEF CoreInv, KernelTypeOK
    <2> QED BY <1>1, <1>2, <1>3, <1>4, <2>1 DEF CoreInv, KernelTypeOK, ReadyIffNotWaiting, tblVars
  <1>8. ReadyIsDispatchable'
    <2>1. \A r \in OSRdyTbl' : r \in OSRdyTbl /\ HasTcb(r) /\ OSTCBPrioTbl[r] \in Tcb
      BY <1>2, TaskAt DEF CoreInv, KernelTypeOK, ReadyIsDispatchable
    <2> QED BY <1>2, <1>4, <2>1 DEF CoreInv, ReadyIsDispatchable, HasTcb, tblVars
  <1>9. (RunsHighest => RunsHighest') /\ CurrentKnown' /\ DeletionHolds' /\ LockUnused'
    BY <1>1, <1>2, <1>3, <1>4
    DEF CoreInv, RunsHighest, Settled, CurrentKnown, HasTcb, Inherits, DeletionHolds, LockUnused, tblVars, cpuVars
  <1>10. IdleStays'
    BY <1>1, <1>2, <1>3 DEF CoreInv, IdleStays, Tcb, tblVars
  <1>11. CreationsApart'
    <2>1. \A u \in Tcb : Creating(u)' => at'[u] = at[u]
      BY <1>3 DEF Creating
    <2>2. \A u \in Tcb \ (OSTCBList \cup OSTCBFreeList) : OSTCBDly'[u] = OSTCBDly[u]
      BY <1>1, <1>3
    <2> QED BY <1>2, <2>1, <2>2, CreationsKept DEF tblVars
  <1> QED BY <1>5, <1>6, <1>7, <1>8, <1>9, <1>10, <1>11 DEF CoreInv, Kept

\* OSTimeDlyResume keeps CoreInv and RunsHighest, called by tasks or handlers.
LEMMA DelayEndsEarly ==
  ASSUME CoreInv, NEW p \in UserPrio, OSTimeDlyResume(p) PROVE Kept
  <1> DEFINE t == OSTCBPrioTbl[p]
             l == IF "SUSPEND" \in OSTCBStat[t] THEN "app" ELSE "sched"
  <1>1. /\ OSTCBCur \in Tcb /\ p \in Prio /\ p # OS_LOWEST_PRIO /\ HasTcb(p)
        /\ Call("OSTimeDlyResume") /\ Goto(l)
    BY DEF OSTimeDlyResume, CoreInv, KernelTypeOK, UserPrio
  <1>2. t \in Tcb /\ t \in OSTCBList
    BY <1>1, TaskAt
  <1>3. /\ OSTCBDly[t] # 0
        /\ OSTCBDly' = [OSTCBDly EXCEPT ![t] = 0]
        /\ DelayEnds({t})
        /\ UNCHANGED <<OSTCBPrio, OSTCBEventPtr, OSEventTbl, OSLockNesting, loc, tblVars, cpuVars>>
    BY DEF OSTimeDlyResume
  <1>4. /\ at' \in [Tcb -> Label] /\ served' \in BOOLEAN
        /\ OSIntNesting = 0 => at[OSTCBCur] = "app" /\ at'[OSTCBCur] = l
        /\ OSIntNesting # 0 => at' = at
        /\ at'[OSTCBCur] = "delwin" <=> at[OSTCBCur] = "delwin"
        /\ \A u \in Tcb : Creating(u)' => at'[u] = at[u]
        /\ at'[Idle] = "app"
        /\ \A u \in Tcb : at'[u] = "delwin" => at[u] = "delwin"
    BY <1>1, ServiceReturns
  <1>5. OSTCBDly'[t] = 0 /\ \A u \in Tcb \ {t} : OSTCBDly'[u] = OSTCBDly[u] /\ OSTCBStat'[u] = OSTCBStat[u]
    BY <1>2, <1>3 DEF DelayEnds, CoreInv, KernelTypeOK
  <1>6. /\ OSRdyTbl' \subseteq Prio /\ OSTCBStat' \in [Tcb -> SUBSET Stat]
        /\ OSTCBPendTO' \in [Tcb -> BOOLEAN]
        /\ ReadyIffNotWaiting' /\ ReadyIsDispatchable'
    <2>1. {t} \in SUBSET OSTCBList
      BY <1>2
    <2> QED BY <1>3, <1>4, <1>5, <2>1, DelayEndsKeeps DEF cpuVars
  <1>7. KernelTypeOK'
    <2>1. OSTCBDly' \in [Tcb -> Ticks]
      <3>1. 0 \in Ticks
        BY CoreAssumption DEF Ticks
      <3> QED BY <1>3, <3>1 DEF CoreInv, KernelTypeOK
    <2> QED BY <1>3, <1>4, <1>6, <2>1 DEF CoreInv, KernelTypeOK, tblVars, cpuVars
  <1>8. TablesAgree'
    BY <1>3 DEF CoreInv, TablesAgree, HasTcb, tblVars
  <1>9. (RunsHighest => RunsHighest')
    <2>1. at'[OSTCBCur] # "sched" /\ OSIntNesting = 0 => OSRdyTbl' = OSRdyTbl
      BY <1>2, <1>3, <1>4 DEF DelayEnds
    <2> QED BY <1>3, <1>4, <2>1 DEF CoreInv, RunsHighest, Settled, HighestIn, cpuVars
  <1>10. CurrentKnown' /\ LockUnused'
    BY <1>3, <1>4 DEF CoreInv, CurrentKnown, HasTcb, LockUnused, tblVars, cpuVars, Inherits
  <1>11. DeletionHolds'
    <2>1. \A u \in Tcb : at[u] = "delwin" => loc[u].tcb \in Tcb \ {t}
      BY <1>3 DEF CoreInv, KernelTypeOK, DeletionHolds, Locals
    <2> HIDE DEF t, l
    <2> QED BY <1>3, <1>4, <1>5, <2>1 DEF CoreInv, DeletionHolds, tblVars, cpuVars
  <1>12. IdleStays'
    BY <1>3, <1>4 DEF CoreInv, IdleStays, tblVars
  <1>13. CreationsApart'
    <2>1. \A u \in Tcb \ (OSTCBList \cup OSTCBFreeList) :
            OSTCBDly'[u] = OSTCBDly[u] /\ OSTCBStat'[u] = OSTCBStat[u]
      BY <1>2, <1>5
    <2> QED BY <1>3, <1>4, <2>1, CreationsKept DEF tblVars
  <1> QED BY <1>6, <1>7, <1>8, <1>9, <1>10, <1>11, <1>12, <1>13 DEF CoreInv, Kept

\* OSTaskChangePrio keeps CoreInv and RunsHighest, called by tasks with no scheduler lock: a
\* running task that changes its own priority leaves OSPrioCur behind, free.
LEMMA PrioChanges ==
  ASSUME CoreInv, SafeUse, NEW p \in UserPrio, NEW q \in UserPrio, OSTaskChangePrio(p, q)
  PROVE  Kept
  <1> DEFINE me == OSTCBCur
             t == OSTCBPrioTbl[p]
  <1>1. /\ OSIntNesting = 0 /\ at[me] = "app" /\ me # Idle /\ me \in Tcb
        /\ p \in Prio /\ p # OS_LOWEST_PRIO /\ HasTcb(p)
        /\ q \in Prio /\ q # OS_LOWEST_PRIO /\ OSTCBPrioTbl[q] = NullTcb /\ q # p
        /\ ~Inherits
    BY DEF OSTaskChangePrio, Call, TaskCall, IsrCall, SafeUse, CoreInv, KernelTypeOK, UserPrio, HasTcb
  <1>2. t \in Tcb /\ t # Idle /\ t \in OSTCBList /\ OSTCBPrio[t] = p
    BY <1>1, TaskAt
  <1>3. OSLockNesting = 0
    BY <1>1 DEF OSTaskChangePrio, Call, TaskCall, IsrCall, SafeUse, CoreInv, KernelTypeOK, LockUnused
  <1>4. /\ OSTCBPrioTbl' = [OSTCBPrioTbl EXCEPT ![p] = NullTcb, ![q] = t]
        /\ OSTCBPrio' = [OSTCBPrio EXCEPT ![t] = q]
        /\ OSRdyTbl' = IF p \in OSRdyTbl THEN (OSRdyTbl \ {p}) \cup {q} ELSE OSRdyTbl
        /\ at' = [at EXCEPT ![me] = "sched"] /\ UNCHANGED served
        /\ UNCHANGED <<OSTCBStat, OSTCBDly, OSTCBPendTO, OSTCBEventPtr, OSLockNesting, loc,
                       OSTCBList, OSTCBFreeList, cpuVars>>
    BY <1>1, <1>2 DEF OSTaskChangePrio, Goto
  <1>5. /\ at'[me] = "sched" /\ \A u \in Tcb \ {me} : at'[u] = at[u]
        /\ OSTCBPrioTbl'[p] = NullTcb /\ OSTCBPrioTbl'[q] = t
        /\ \A r \in Prio \ {p, q} : OSTCBPrioTbl'[r] = OSTCBPrioTbl[r]
        /\ OSTCBPrio'[t] = q
        /\ \A u \in Tcb \ {t} : OSTCBPrio'[u] = OSTCBPrio[u]
    BY <1>1, <1>2, <1>4 DEF CoreInv, KernelTypeOK
  <1>6. /\ \A u \in Tcb : at[u] # "delwin" /\ at'[u] # "delwin"
        /\ \A u \in Tcb : ~Deleting(u) /\ ~Deleting(u)'
    BY <1>1, <1>4, <1>5 DEF CoreInv, DeletionHolds, Deleting, cpuVars
  <1>7. KernelTypeOK'
    <2>1. at' \in [Tcb -> Label]
      BY <1>4 DEF CoreInv, KernelTypeOK, Label
    <2>2. OSTCBPrioTbl' \in [Prio -> Tcb \cup {NullTcb, Reserved}]
      BY <1>1, <1>2, <1>4 DEF CoreInv, KernelTypeOK
    <2>3. OSTCBPrio' \in [Tcb -> Prio] /\ OSRdyTbl' \subseteq Prio
      BY <1>1, <1>4 DEF CoreInv, KernelTypeOK
    <2>4. OSEventTbl' \in [Event -> SUBSET Prio]
      BY <1>1 DEF OSTaskChangePrio, CoreInv, KernelTypeOK
    <2> QED BY <1>4, <2>1, <2>2, <2>3, <2>4 DEF CoreInv, KernelTypeOK, cpuVars
  <1>8. \A u \in OSTCBList : u # t => OSTCBPrio[u] \in Prio \ {p, q} /\ u \in Tcb
    BY <1>1, <1>2, OneTaskPerPrio, CoreAssumption DEF CoreInv, KernelTypeOK, TablesAgree
  <1>9. TablesAgree'
    <2>1. \A u \in OSTCBList : OSTCBPrioTbl'[OSTCBPrio'[u]] = u
      <3> TAKE u \in OSTCBList
      <3>1. CASE u = t
        BY <1>5, <3>1
      <3>2. CASE u # t
        BY <1>5, <1>8, <3>2 DEF CoreInv, TablesAgree
      <3> QED BY <3>1, <3>2
    <2>2. \A r \in Prio : HasTcb(r)' => /\ OSTCBPrioTbl'[r] \in OSTCBList'
                                        /\ OSTCBPrio'[OSTCBPrioTbl'[r]] = r
      <3> SUFFICES ASSUME NEW r \in Prio, OSTCBPrioTbl'[r] \notin {NullTcb, Reserved}
                   PROVE  /\ OSTCBPrioTbl'[r] \in OSTCBList
                          /\ OSTCBPrio'[OSTCBPrioTbl'[r]] = r
        BY <1>4 DEF HasTcb
      <3>1. CASE r = q
        BY <1>2, <1>5, <3>1
      <3>2. CASE r # q
        <4>1. r # p /\ OSTCBPrioTbl'[r] = OSTCBPrioTbl[r] /\ HasTcb(r)
          BY <1>5, <3>2 DEF HasTcb
        <4>2. /\ OSTCBPrioTbl[r] \in OSTCBList /\ OSTCBPrioTbl[r] \in Tcb
              /\ OSTCBPrio[OSTCBPrioTbl[r]] = r
          BY <1>1, <4>1, TaskAt
        <4> QED BY <1>2, <1>5, <4>1, <4>2
      <3> QED BY <3>1, <3>2
    <2> QED BY <1>4, <2>1, <2>2 DEF CoreInv, TablesAgree
  <1>10. q \notin OSRdyTbl
    BY <1>1, CoreAssumption DEF CoreInv, ReadyIsDispatchable, HasTcb
  <1>11. ReadyIffNotWaiting'
    <2> SUFFICES ASSUME NEW u \in OSTCBList
                 PROVE  OSTCBPrio'[u] \in OSRdyTbl' <=> OSTCBStat[u] = {} /\ OSTCBDly[u] = 0
      BY <1>4 DEF ReadyIffNotWaiting
    <2>1. OSTCBPrio[u] \in OSRdyTbl <=> OSTCBStat[u] = {} /\ OSTCBDly[u] = 0
      BY <1>6 DEF CoreInv, KernelTypeOK, ReadyIffNotWaiting
    <2>2. CASE u = t
      BY <1>2, <1>4, <1>5, <1>10, <2>1, <2>2
    <2>3. CASE u # t
      BY <1>4, <1>5, <1>8, <2>1, <2>3
    <2> QED BY <2>2, <2>3
  <1>12. ReadyIsDispatchable'
    <2>1. OSTCBPrioTbl'[q] \notin {NullTcb, Reserved} \cup OSTCBFreeList
      BY <1>2, <1>5, CoreAssumption DEF CoreInv, TablesAgree
    <2>2. \A r \in OSRdyTbl \ {p} : /\ OSTCBPrioTbl'[r] = OSTCBPrioTbl[r]
                                    /\ OSTCBPrioTbl[r] \in Tcb \ {t} /\ OSTCBPrio[OSTCBPrioTbl[r]] = r
      BY <1>2, <1>5, <1>10, TaskAt DEF CoreInv, KernelTypeOK, ReadyIsDispatchable
    <2>3. p \in OSRdyTbl' => FALSE
      BY <1>1, <1>2, <1>4, <1>6, <1>10 DEF CoreInv
    <2>4. \A r \in OSRdyTbl' : /\ OSTCBPrioTbl'[r] \in Tcb /\ OSTCBPrio'[OSTCBPrioTbl'[r]] = r
                               /\ OSTCBPrioTbl'[r] \notin {NullTcb, Reserved} \cup OSTCBFreeList
      <3> TAKE r \in OSRdyTbl'
      <3>1. CASE r = q
        BY <1>2, <1>5, <2>1, <3>1
      <3>2. CASE r # q
        <4>1. r \in OSRdyTbl \ {p}
          BY <1>4, <2>3, <3>2
        <4> QED BY <1>5, <2>2, <4>1 DEF CoreInv, ReadyIsDispatchable, HasTcb
      <3> QED BY <3>1, <3>2
    <2> QED BY <1>4, <1>6, <2>4 DEF ReadyIsDispatchable, HasTcb
  <1>13. (RunsHighest => RunsHighest') /\ LockUnused' /\ DeletionHolds'
    BY <1>3, <1>4, <1>5, <1>6 DEF RunsHighest, Settled, LockUnused, DeletionHolds,
       CoreInv, KernelTypeOK, cpuVars
  <1>14. CurrentKnown'
    <2>1. me \in OSTCBList /\ OSPrioCur = OSTCBPrio[me]
      BY <1>1 DEF CoreInv, CurrentKnown, Inherits
    <2>2. CASE t = me
      BY <1>2, <1>3, <1>4, <1>5, <2>1, <2>2 DEF CurrentKnown, cpuVars
    <2>3. CASE t # me
      BY <1>1, <1>4, <1>5, <2>1, <2>3 DEF CurrentKnown, cpuVars
    <2> QED BY <2>2, <2>3
  <1>15. IdleStays'
    <2>1. OS_LOWEST_PRIO \in Prio \ {p, q} /\ Idle \in Tcb /\ Idle # me
      BY <1>1, CoreAssumption DEF Prio, Tcb
    <2>2. \A r \in Prio : OSTCBPrioTbl'[r] = Idle <=> r = OS_LOWEST_PRIO
      BY <1>2, <1>5, <2>1, CoreAssumption DEF CoreInv, IdleStays, Tcb
    <2> QED BY <1>2, <1>5, <2>1, <2>2 DEF CoreInv, IdleStays
  <1>16. CreationsApart'
    <2>1. \A u \in Tcb : Creating(u)' => at'[u] = at[u]
      BY <1>5 DEF Creating
    <2>2. \A r \in Prio : OSTCBPrioTbl[r] = Reserved => OSTCBPrioTbl'[r] = Reserved
      BY <1>1, <1>5, CoreAssumption DEF HasTcb
    <2>3. \A u \in Tcb \ (OSTCBList \cup OSTCBFreeList) : OSTCBPrio'[u] = OSTCBPrio[u]
      BY <1>2, <1>5
    <2> QED BY <1>4, <2>1, <2>2, <2>3, CreationsKept
  <1> QED BY <1>7, <1>9, <1>11, <1>12, <1>13, <1>14, <1>15, <1>16 DEF CoreInv, Kept

---------------------------------------------------------------------------
\* The state OSStart leaves satisfies KernelInv.
LEMMA InitHolds == CoreInit => CoreInv /\ RunsHighest
  <1> SUFFICES ASSUME CoreInit PROVE CoreInv /\ RunsHighest
    OBVIOUS
  <1> DEFINE used == DOMAIN InitPrio
             prio == [t \in Tcb |-> IF t \in used THEN InitPrio[t] ELSE OS_LOWEST_PRIO]
  <1>1. /\ OSTCBList = used \cup {Idle} /\ OSTCBFreeList = Task \ used
        /\ OSTCBPrio = prio /\ OSRdyTbl = {prio[t] : t \in OSTCBList}
        /\ OSTCBPrioTbl = [p \in Prio |-> IF \E t \in OSTCBList : prio[t] = p
                                          THEN CHOOSE t \in OSTCBList : prio[t] = p
                                          ELSE NullTcb]
    BY DEF CoreInit
  <1>2. /\ used \subseteq Task /\ Idle \notin used /\ OSTCBList \subseteq Tcb
        /\ OS_LOWEST_PRIO \in Prio /\ 0 \in Ticks
        /\ \A t \in Tcb : prio[t] \in Prio /\ (t # Idle /\ t \in used => prio[t] # OS_LOWEST_PRIO)
    BY <1>1, CoreAssumption DEF Tcb, Prio, Ticks
  <1>3. \A t, u \in OSTCBList : prio[t] = prio[u] => t = u
    BY <1>1, <1>2, CoreAssumption DEF Tcb
  <1>4. \A t \in OSTCBList : OSTCBPrioTbl[prio[t]] = t
    <2> TAKE t \in OSTCBList
    <2>1. prio[t] \in Prio
      BY <1>2
    <2> HIDE DEF prio
    <2>2. OSTCBPrioTbl[prio[t]] = CHOOSE u \in OSTCBList : prio[u] = prio[t]
      BY <1>1, <2>1
    <2>3. /\ (CHOOSE u \in OSTCBList : prio[u] = prio[t]) \in OSTCBList
          /\ prio[CHOOSE u \in OSTCBList : prio[u] = prio[t]] = prio[t]
      OBVIOUS
    <2> QED BY <1>3, <2>2, <2>3
  <1>5. \A p \in Prio : OSTCBPrioTbl[p] # NullTcb =>
                          OSTCBPrioTbl[p] \in OSTCBList /\ prio[OSTCBPrioTbl[p]] = p
    <2> TAKE p \in Prio
    <2> HAVE OSTCBPrioTbl[p] # NullTcb
    <2> HIDE DEF prio
    <2>1. PICK t \in OSTCBList : prio[t] = p
      BY <1>1
    <2> QED BY <1>4, <2>1
  <1>6. \A p \in OSRdyTbl : p \in Prio /\ OSTCBPrioTbl[p] \in OSTCBList /\ prio[OSTCBPrioTbl[p]] = p
    <2> HIDE DEF prio
    <2> QED BY <1>1, <1>2, <1>4
  <1>7. OSPrioCur \in OSRdyTbl /\ OSTCBCur = OSTCBPrioTbl[OSPrioCur]
        /\ \A p \in OSRdyTbl : OSPrioCur <= p
    BY DEF CoreInit
  <1>8. /\ OSTCBStat = [t \in Tcb |-> {}] /\ OSTCBDly = [t \in Tcb |-> 0]
        /\ OSTCBPendTO = [t \in Tcb |-> FALSE]
        /\ OSTCBEventPtr = [t \in Tcb |-> NullEvent] /\ OSEventTbl = [e \in Event |-> {}]
        /\ OSLockNesting = 0 /\ OSIntNesting = 0 /\ served = FALSE
        /\ at = [t \in Tcb |-> "app"] /\ loc = [t \in Tcb |-> NoLocals]
    BY DEF CoreInit
  <1>9. OSTCBList \cap OSTCBFreeList = {} /\ Idle \in OSTCBList /\ prio[Idle] = OS_LOWEST_PRIO
    BY <1>1, <1>2, CoreAssumption DEF Tcb
  <1>10. OSTCBPrioTbl \in [Prio -> Tcb \cup {NullTcb, Reserved}] /\ OSTCBPrio \in [Tcb -> Prio]
    <2>1. \A p \in Prio : OSTCBPrioTbl[p] \in Tcb \cup {NullTcb, Reserved}
      BY <1>2, <1>5
    <2> QED BY <1>1, <1>2, <2>1
  <1> HIDE DEF prio, used
  <1>11. KernelTypeOK
    <2>1. OSRdyTbl \subseteq Prio /\ OSTCBFreeList \subseteq Task /\ OSTCBCur \in Tcb /\ OSPrioCur \in Prio
      BY <1>1, <1>2, <1>6, <1>7
    <2>2. /\ OSTCBStat \in [Tcb -> SUBSET Stat] /\ OSTCBDly \in [Tcb -> Ticks]
          /\ OSTCBEventPtr \in [Tcb -> Event \cup {NullEvent}] /\ OSEventTbl \in [Event -> SUBSET Prio]
          /\ at \in [Tcb -> Label] /\ loc \in [Tcb -> Locals]
      BY <1>2, <1>8, NoLocalsType DEF Label
    <2>3. OSTCBPendTO \in [Tcb -> BOOLEAN] /\ served \in BOOLEAN
      BY <1>8
    <2>4. OSLockNesting \in 0 .. LockMax /\ OSIntNesting \in 0 .. 1
      BY <1>8, CoreAssumption
    <2> QED BY <1>2, <1>10, <2>1, <2>2, <2>3, <2>4 DEF KernelTypeOK
  <1>12. TablesAgree
    BY <1>1, <1>4, <1>5, <1>9 DEF TablesAgree, HasTcb
  <1>13. \A t \in Tcb : ~Deleting(t) /\ at[t] = "app"
    BY <1>8, <1>11 DEF Deleting, KernelTypeOK
  <1>14. ReadyIffNotWaiting
    BY <1>1, <1>2, <1>8 DEF ReadyIffNotWaiting
  <1>15. ReadyIsDispatchable
    BY <1>1, <1>2, <1>6, <1>9, <1>13, CoreAssumption DEF ReadyIsDispatchable, HasTcb
  <1>16. RunsHighest /\ CurrentKnown
    BY <1>1, <1>6, <1>7 DEF RunsHighest, HighestIn, CurrentKnown
  <1>17. CreationsApart /\ DeletionHolds /\ LockUnused
    BY <1>8, <1>13 DEF CreationsApart, Creating, DeletionHolds, LockUnused
  <1>18. IdleStays
    <2>1. \A p \in Prio : OSTCBPrioTbl[p] = Idle <=> p = OS_LOWEST_PRIO
      BY <1>2, <1>4, <1>5, <1>9, CoreAssumption DEF Tcb
    <2> QED BY <1>1, <1>9, <1>13, <2>1 DEF IdleStays, Tcb
  <1> QED BY <1>11, <1>12, <1>14, <1>15, <1>16, <1>17, <1>18 DEF CoreInv

\* So does a step that changes nothing.
LEMMA StutterKeeps == ASSUME CoreInv, UNCHANGED coreVars PROVE Kept
  <1>1. KernelTypeOK' /\ TablesAgree' /\ ReadyIffNotWaiting' /\ ReadyIsDispatchable'
    BY DEF CoreInv, KernelTypeOK, TablesAgree, ReadyIffNotWaiting, ReadyIsDispatchable, Deleting,
           HasTcb, Inherits, coreVars, tcbVars, tblVars, cpuVars
  <1>2. CurrentKnown' /\ CreationsApart' /\ DeletionHolds' /\ IdleStays' /\ LockUnused'
    BY DEF CoreInv, CurrentKnown, CreationsApart, Creating, DeletionHolds, IdleStays, LockUnused,
           HasTcb, Inherits, coreVars, tcbVars, tblVars, cpuVars
  <1>3. RunsHighest => RunsHighest'
    BY DEF RunsHighest, Settled, coreVars, tcbVars, cpuVars
  <1> QED BY <1>1, <1>2, <1>3 DEF CoreInv, Kept

\* CoreInv is inductive, and so is RunsHighest with it.
LEMMA StepKeeps == ASSUME CoreInv, SafeUse, [KernelStep]_coreVars PROVE Kept
  <1>1. CASE TaskStep
    BY <1>1, TcbTaken, TaskLinked, CreateGivesUp, DelFrees, CreateReserves, DelDisables,
       SuspendSuspends, ResumeResumes, PrioChanges DEF TaskStep
  <1>2. CASE TimeStep
    BY <1>2, DelayDelays, DelayEndsEarly DEF TimeStep, UserPrio
  <1> QED BY <1>1, <1>2, InterruptEnters, TimeTicks, InterruptExits, SchedRuns, LockLocks,
             LockUnlocks, StutterKeeps DEF KernelStep

\* Without mutexes, so is KernelInv as a whole.
LEMMA KernelStepKeeps ==
  ASSUME KernelInv, SafeUse, [KernelStep]_coreVars PROVE KernelInv'
  BY StepKeeps DEF KernelInv, Kept, Inherits

\* The scheduler, in a task or at the end of a handler, restores what it promises
\* whatever came before.
LEMMA SchedSettles ==
  ASSUME CoreInv, OS_Sched \/ OSIntExit, OSLockNesting = 0 PROVE RunsHighest'
  BY DispatchKeeps DEF OS_Sched, OSIntExit, RunsHighest, HighestIn, tcbVars

---------------------------------------------------------------------------
\* The points of a task at which a region of an event service begins, and what a
\* region may do to where tasks stand: in a handler nothing, in a task to l.
Points == {"app", "take", "qinit", "create", "pend", "pendwake", "post", "accept", "set",
           "flush", "del", "delalways"}
Moves(P, l) ==
  \/ OSIntNesting # 0 /\ at' = at /\ loc' = loc
  \/ /\ OSIntNesting = 0 /\ OSTCBCur # Idle /\ at[OSTCBCur] \in P /\ at'[OSTCBCur] = l
     /\ \A t \in Tcb \ {OSTCBCur} : at'[t] = at[t] /\ loc'[t] = loc[t]
PlaceTypes == at' \in [Tcb -> Label] /\ loc' \in [Tcb -> Locals] /\ served' \in BOOLEAN

\* A service region keeps CoreInv if it keeps the types, makes exactly those ready
\* that wait for nothing, and leaves alone the TCBs that are being created or
\* deleted; and RunsHighest, if it calls OS_Sched where it changed the ready table.
LEMMA ServiceKeeps ==
  ASSUME CoreInv, PlaceTypes, NEW l, Moves(Points, l),
         l \in Points \cup {"sched", "pendwait"},
         UNCHANGED <<OSTCBPrio, OSLockNesting, tblVars, cpuVars>>,
         OSRdyTbl' \subseteq Prio, OSEventTbl' \in [Event -> SUBSET Prio],
         OSTCBStat' \in [Tcb -> SUBSET Stat], OSTCBDly' \in [Tcb -> Ticks],
         OSTCBPendTO' \in [Tcb -> BOOLEAN],
         OSTCBEventPtr' \in [Tcb -> Event \cup {NullEvent}],
         ReadyIffNotWaiting', ReadyIsDispatchable',
         \A t \in Tcb : Deleting(t) \/ t \notin OSTCBList =>
           OSTCBStat'[t] = OSTCBStat[t] /\ OSTCBDly'[t] = OSTCBDly[t]
  PROVE  /\ CoreInv'
         /\ RunsHighest /\ (OSIntNesting # 0 \/ l \in {"sched", "pendwait"} \/ OSRdyTbl' = OSRdyTbl)
              => RunsHighest'
  <1>1. KernelTypeOK'
    BY DEF CoreInv, KernelTypeOK, PlaceTypes, tblVars, cpuVars
  <1>2. TablesAgree'
    BY DEF CoreInv, TablesAgree, HasTcb, tblVars
  <1>3. OSTCBCur \in Tcb /\ UNCHANGED <<OSTCBCur, OSPrioCur, OSIntNesting, OSTCBPrioTbl>>
    BY DEF CoreInv, KernelTypeOK, cpuVars, tblVars
  <1>4. CASE OSIntNesting # 0
    <2>1. at' = at /\ loc' = loc
      BY <1>4 DEF Moves
    <2>2. (RunsHighest => RunsHighest') /\ CurrentKnown' /\ LockUnused' /\ IdleStays'
      BY <1>3, <1>4, <2>1 DEF CoreInv, RunsHighest, Settled, CurrentKnown, HasTcb, LockUnused, IdleStays,
                              tblVars, cpuVars, Inherits
    <2>3. CreationsApart'
      BY <2>1, CreationsKept DEF tblVars
    <2>4. DeletionHolds'
      <3>1. \A t \in Tcb : at[t] = "delwin" => Deleting(loc[t].tcb) /\ loc[t].tcb \in Tcb
        BY DEF CoreInv, KernelTypeOK, DeletionHolds, Deleting, Locals
      <3> QED BY <1>3, <2>1, <3>1 DEF CoreInv, DeletionHolds
    <2> QED BY <1>1, <1>2, <2>2, <2>3, <2>4 DEF CoreInv
  <1>5. CASE OSIntNesting = 0
    <2>1. /\ OSTCBCur # Idle /\ at[OSTCBCur] \in Points /\ at'[OSTCBCur] = l
          /\ \A t \in Tcb \ {OSTCBCur} : at'[t] = at[t] /\ loc'[t] = loc[t]
      BY <1>5 DEF Moves
    <2>2. RunsHighest /\ (l \in {"sched", "pendwait"} \/ OSRdyTbl' = OSRdyTbl) => RunsHighest'
      <3>1. CASE l \in {"sched", "pendwait"}
        BY <1>3, <2>1, <3>1 DEF RunsHighest, Settled
      <3>2. CASE OSRdyTbl' = OSRdyTbl /\ l \notin {"sched", "pendwait"}
        BY <1>3, <1>5, <2>1, <3>2 DEF CoreInv, RunsHighest, Settled, Points
      <3> QED BY <3>1, <3>2
    <2>3. CurrentKnown' /\ LockUnused'
      BY <1>3, <1>5, <2>1 DEF CoreInv, CurrentKnown, HasTcb, LockUnused, Points, tblVars, Inherits
    <2>4. IdleStays'
      BY <1>3, <2>1 DEF CoreInv, IdleStays, Tcb
    <2>5. CreationsApart'
      <3>1. \A t \in Tcb : Creating(t)' => at'[t] = at[t] /\ loc'[t] = loc[t]
        BY <1>3, <2>1 DEF Creating, Points
      <3> QED BY <1>3, <3>1, CreationsKept DEF tblVars
    <2>6. DeletionHolds'
      <3>1. \A t \in Tcb : at'[t] # "delwin"
        BY <1>3, <2>1 DEF CoreInv, DeletionHolds, Points
      <3> QED BY <3>1 DEF DeletionHolds
    <2> QED BY <1>1, <1>2, <2>2, <2>3, <2>4, <1>5, <2>5, <2>6 DEF CoreInv
  <1> QED BY <1>4, <1>5

\* Without mutexes, the task found at a priority has that priority.
LEMMA TaskOwns ==
  ASSUME KernelInv, NEW p \in Prio, HasTcb(p)
  PROVE  /\ OSTCBPrioTbl[p] \in OSTCBList /\ OSTCBPrioTbl[p] \in Tcb
         /\ OSTCBPrio[OSTCBPrioTbl[p]] = p
         /\ p # OS_LOWEST_PRIO => OSTCBPrioTbl[p] # Idle
  BY TaskAt DEF KernelInv

\* A service region that calls OS_Sched where it has to keeps KernelInv.
LEMMA ServiceSettles ==
  ASSUME KernelInv, PlaceTypes, NEW l, Moves(Points, l),
         l \in Points \cup {"sched", "pendwait"},
         OSIntNesting # 0 \/ l \in {"sched", "pendwait"} \/ OSRdyTbl' = OSRdyTbl,
         UNCHANGED <<OSTCBPrio, OSLockNesting, tblVars, cpuVars>>,
         OSRdyTbl' \subseteq Prio, OSEventTbl' \in [Event -> SUBSET Prio],
         OSTCBStat' \in [Tcb -> SUBSET Stat], OSTCBDly' \in [Tcb -> Ticks],
         OSTCBPendTO' \in [Tcb -> BOOLEAN],
         OSTCBEventPtr' \in [Tcb -> Event \cup {NullEvent}],
         ReadyIffNotWaiting', ReadyIsDispatchable',
         \A t \in Tcb : Deleting(t) \/ t \notin OSTCBList =>
           OSTCBStat'[t] = OSTCBStat[t] /\ OSTCBDly'[t] = OSTCBDly[t]
  PROVE  KernelInv'
  <1>1. CoreInv /\ RunsHighest /\ (~Inherits)'
    BY DEF KernelInv, Inherits
  <1> QED BY <1>1, ServiceKeeps DEF KernelInv

\* The region that ends a service: in the task that stands at one of the points P of
\* the service, or in a handler.
LEMMA ReturnMoves ==
  ASSUME CoreInv, NEW l \in {"app", "sched"}, Return(l),
         NEW P \in SUBSET (Points \ {"app"}),
         OSIntNesting = 0 => at[OSTCBCur] \in P
  PROVE  PlaceTypes /\ Moves(P, l) /\ OSTCBCur \in Tcb
  <1>1. OSTCBCur \in Tcb /\ at \in [Tcb -> Label] /\ loc \in [Tcb -> Locals] /\ served \in BOOLEAN
    BY DEF CoreInv, KernelTypeOK
  <1>2. CASE OSIntNesting = 0
    <2>1. /\ at' = [at EXCEPT ![OSTCBCur] = l] /\ loc' = [loc EXCEPT ![OSTCBCur] = NoLocals]
          /\ UNCHANGED served
      BY <1>2 DEF Return, Goto, Keep
    <2>2. OSTCBCur # Idle
      BY <1>2 DEF CoreInv, IdleStays, Points
    <2> QED BY <1>1, <1>2, <2>1, <2>2, NoLocalsType DEF PlaceTypes, Moves, Label
  <1>3. CASE OSIntNesting # 0
    BY <1>1, <1>3 DEF Return, Goto, PlaceTypes, Moves
  <1> QED BY <1>1, <1>2, <1>3

---------------------------------------------------------------------------
\* The inductive invariant holds in every state, for any tasks, priorities and
\* initial assignment, if the application keeps to the rules of use.
THEOREM KernelCorrect == ASSUME SafeUse, ~Inherits PROVE KernelSpec => []KernelInv
  <1>1. CoreInit => KernelInv
    BY InitHolds DEF KernelInv
  <1>2. KernelInv /\ [KernelStep]_coreVars => KernelInv'
    BY KernelStepKeeps
  <1> QED BY <1>1, <1>2, PTL DEF KernelSpec

\* Every variable keeps its type; OSTCBCur is always a TCB, never a null pointer.
THEOREM TypeCorrect == ASSUME SafeUse, ~Inherits PROVE KernelSpec => []KernelTypeOK
  <1>1. KernelInv => KernelTypeOK
    BY DEF KernelInv, CoreInv
  <1> QED BY <1>1, KernelCorrect, PTL

\* The TCB lists and OSTCBPrioTbl agree whenever interrupts are enabled, also in
\* the middle of a creation, a deletion or a change of priority.
THEOREM TablesAlwaysAgree == ASSUME SafeUse, ~Inherits PROVE KernelSpec => []TablesAgree
  <1>1. KernelInv => TablesAgree
    BY DEF KernelInv, CoreInv
  <1> QED BY <1>1, KernelCorrect, PTL

\* No interleaving of services, ticks and handlers loses a task or runs one that
\* waits.
THEOREM NoTaskLost == ASSUME SafeUse, ~Inherits PROVE KernelSpec => []ReadyIffNotWaiting
  <1>1. KernelInv => ReadyIffNotWaiting
    BY DEF KernelInv, CoreInv
  <1> QED BY <1>1, KernelCorrect, PTL

\* The scheduler never picks a free, reserved or half-deleted TCB.
THEOREM DispatchIsSafe == ASSUME SafeUse, ~Inherits PROVE KernelSpec => []ReadyIsDispatchable
  <1>1. KernelInv => ReadyIsDispatchable
    BY DEF KernelInv, CoreInv
  <1> QED BY <1>1, KernelCorrect, PTL

\* The running task is the highest-priority ready one whenever no interrupt, lock
\* or pending OS_Sched is in the way.
THEOREM HighestRuns == ASSUME SafeUse, ~Inherits PROVE KernelSpec => []RunsHighest
  <1>1. KernelInv => RunsHighest
    BY DEF KernelInv, CoreInv
  <1> QED BY <1>1, KernelCorrect, PTL

\* A suspension ends only by OSTaskResume or with the task: no tick,
\* OSTimeDlyResume or other service takes OS_STAT_SUSPEND away.
THEOREM SuspensionHolds == ASSUME SafeUse, ~Inherits PROVE KernelSpec => OnlyResumeEndsSuspension
  <1> DEFINE Ends(t) == "SUSPEND" \in OSTCBStat[t] /\ "SUSPEND" \notin OSTCBStat'[t]
             Allowed(t) == \/ \E p \in UserPrio : OSTaskResume(p) /\ p = OSTCBPrio[t]
                           \/ Deleting(t)'
  <1>1. ASSUME KernelInv, KernelStep, NEW t \in OSTCBList, Ends(t) PROVE Allowed(t)
    <2> USE <1>1
    <2>1. t \in Tcb /\ t \notin OSTCBFreeList
      BY DEF KernelInv, CoreInv, KernelTypeOK, TablesAgree, Inherits
    <2>2. ASSUME NEW p \in UserPrio, OSTaskDel(p) PROVE Deleting(t)'
      <3>1. p \in Prio /\ HasTcb(p) /\ OSTCBCur \in Tcb
        BY <2>2 DEF OSTaskDel, Disable, UserPrio, KernelInv, CoreInv, KernelTypeOK
      <3>2. OSTCBPrioTbl[p] = t
        BY <2>1, <2>2 DEF OSTaskDel, Disable, KernelInv, CoreInv, KernelTypeOK
      <3>3. /\ at' = [at EXCEPT ![OSTCBCur] = "delwin"] /\ OSTCBCur' = OSTCBCur
            /\ loc' = [loc EXCEPT ![OSTCBCur] = [NoLocals EXCEPT !.prio = p, !.tcb = OSTCBPrioTbl[p]]]
        BY <2>2 DEF OSTaskDel, Disable, TaskCall, Goto, Keep, cpuVars
      <3> QED BY <3>1, <3>2, <3>3 DEF Deleting, NoLocals, KernelInv, CoreInv, KernelTypeOK
    <2>3. ASSUME NEW p \in UserPrio, OSTaskResume(p) PROVE p = OSTCBPrio[t]
      <3>1. p \in Prio /\ HasTcb(p)
        BY <2>3 DEF OSTaskResume, UserPrio
      <3>2. OSTCBPrioTbl[p] = t
        BY <2>1, <2>3 DEF OSTaskResume, KernelInv, CoreInv, KernelTypeOK
      <3> QED BY <3>1, <3>2, TaskOwns
    <2>4. ASSUME NEW T, DelayEnds(T) PROVE FALSE
      BY <2>1, <2>4 DEF DelayEnds, PendAny, KernelInv, CoreInv, KernelTypeOK
    <2>5. ASSUME NEW p \in UserPrio, OSTaskSuspend(p) PROVE FALSE
      BY <2>1, <2>5 DEF OSTaskSuspend, KernelInv, CoreInv, KernelTypeOK
    <2>6. ~OS_TCBInit_Take
      BY <2>1 DEF OS_TCBInit_Take, KernelInv, CoreInv, KernelTypeOK, tcbVars
    <2>7. UNCHANGED OSTCBStat => FALSE
      OBVIOUS
    <2>8. CASE TaskStep
      BY <2>2, <2>3, <2>5, <2>6, <2>7, <2>8
      DEF TaskStep, OS_TCBInit_Link, OSTaskCreate_Undo, OSTaskDel_Free, OSTaskCreate,
          OSTaskChangePrio, tcbVars
    <2>9. ~TimeStep /\ ~OSTimeTick
      BY <2>4, <2>7 DEF TimeStep, OSTimeDly, OSTimeDlyResume, OSTimeTick
    <2>10. CASE OSIntEnter \/ OSIntExit \/ OS_Sched \/ OSSchedLock \/ OSSchedUnlock
      BY <2>7, <2>10 DEF OSIntEnter, OSIntExit, OS_Sched, OSSchedLock, OSSchedUnlock, tcbVars
    <2> QED BY <2>8, <2>9, <2>10 DEF KernelStep
  <1>2. KernelInv /\ [KernelStep]_coreVars => [\A t \in OSTCBList : Ends(t) => Allowed(t)]_coreVars
    BY <1>1
  <1> QED BY <1>2, KernelCorrect, PTL DEF KernelSpec, OnlyResumeEndsSuspension
=============================================================================
