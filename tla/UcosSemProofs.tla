--------------------------- MODULE UcosSemProofs ---------------------------
(***************************************************************************)
(* Semaphores on the kernel, for any number of tasks, priorities,          *)
(* semaphores and units: SemInv is an invariant under the rules of use     *)
(* SemSafeUse.  The kernel's own steps keep KernelInv (UcosKernelProofs);  *)
(* here they are shown to keep what the semaphores add, and the services   *)
(* of the semaphores to keep both.                                         *)
(***************************************************************************)
EXTENDS UcosSemRefinement, UcosKernelProofs, FiniteSetTheorems

---------------------------------------------------------------------------
\* A step that leaves wait lists and priorities alone keeps PendInv, if whoever is
\* inside OSSemPend stays there and a wait that ends is marked as timed out.
LEMMA PendFrame ==
  ASSUME SemInv, KernelInv',
         UNCHANGED <<OSTCBPrio, OSTCBEventPtr, OSEventTbl, OSTCBList, err, given>>,
         \A p \in Prio : HasTcb(p) => OSTCBPrioTbl'[p] = OSTCBPrioTbl[p],
         \A t \in Tcb : Deleting(t)' <=> Deleting(t),
         \A t \in Tcb : \/ at'[t] = at[t] /\ loc'[t] = loc[t]
                        \/ at[t] = "pendwait" /\ at'[t] = "pendwake" /\ loc'[t] = loc[t]
                        \/ /\ at[t] # "pend" /\ ~Pending(t)
                           /\ at'[t] \notin {"pend", "pendwait", "pendwake", "create", "del",
                                             "delalways", "tcblink"}
                           /\ t \in OSTCBList \/ at'[t] \in {"app", "sched"},
         \A t \in OSTCBList : ~Deleting(t) =>
           /\ OSTCBStat'[t] \subseteq {"SEM", "SUSPEND"}
           /\ OSTCBPendTO'[t] \/ "SEM" \in OSTCBStat'[t]
                <=> OSTCBPendTO[t] \/ "SEM" \in OSTCBStat[t]
           /\ OSTCBPendTO'[t] => OSTCBDly'[t] = 0,
         \A t \in Tcb \ OSTCBList : OSTCBPendTO'[t] = OSTCBPendTO[t],
         NoPendLocked'
  PROVE  PendInv'
  <1>1. \A p \in Prio : HasTcb(p) => HasTcb(p)' /\ OSTCBPrioTbl'[p] = OSTCBPrioTbl[p]
                                     /\ OSTCBPrioTbl[p] \in OSTCBList /\ OSTCBPrioTbl[p] \in Tcb
    BY TaskOwns DEF HasTcb, SemInv, KernelInv
  <1>2. \A e \in Event : \A p \in OSEventTbl[e] :
          p \in Prio /\ HasTcb(p) /\ OSTCBEventPtr[OSTCBPrioTbl[p]] = e /\ ~Deleting(OSTCBPrioTbl[p])
    BY DEF SemInv, PendInv, WaitListExact, WaitersStay, KernelInv, CoreInv, KernelTypeOK
  <1>3. OSTCBList \subseteq Tcb
    BY DEF SemInv, KernelInv, CoreInv, KernelTypeOK
  <1>4. WaitListExact'
    <2>1. \A e \in Event : \A p \in OSEventTbl[e] : HasTcb(p)' /\ OSTCBEventPtr[OSTCBPrioTbl'[p]] = e
      BY <1>1, <1>2
    <2>2. \A t \in OSTCBList : OSTCBEventPtr[t] # NullEvent /\ ~Deleting(t)'
             => OSTCBPrio[t] \in OSEventTbl[OSTCBEventPtr[t]]
      BY <1>3 DEF SemInv, KernelInv, PendInv, WaitListExact
    <2> QED BY <2>1, <2>2 DEF WaitListExact
  <1>5. WaitersStay'
    BY <1>1, <1>2 DEF WaitersStay
  <1>6. PendExact'
    <2> SUFFICES ASSUME NEW t \in OSTCBList, ~Deleting(t)
        PROVE /\ OSTCBStat'[t] \subseteq {"SEM", "SUSPEND"}
              /\ OSTCBEventPtr[t] # NullEvent <=> OSTCBPendTO'[t] \/ "SEM" \in OSTCBStat'[t]
              /\ OSTCBEventPtr[t] # NullEvent => Pending(t)' /\ loc'[t].ev = OSTCBEventPtr[t]
              /\ OSTCBPendTO'[t] => OSTCBDly'[t] = 0
              /\ Pending(t)' => (given[t] <=> OSTCBEventPtr[t] = NullEvent) /\ err[t] = "none"
              /\ at'[t] = "pend" => ~given[t] /\ err[t] = "none" /\ loc'[t].ev \in Event
      BY <1>3 DEF PendExact
    <2>1. /\ OSTCBEventPtr[t] # NullEvent <=> OSTCBPendTO[t] \/ "SEM" \in OSTCBStat[t]
          /\ OSTCBEventPtr[t] # NullEvent => Pending(t) /\ loc[t].ev = OSTCBEventPtr[t]
          /\ Pending(t) => (given[t] <=> OSTCBEventPtr[t] = NullEvent) /\ err[t] = "none"
          /\ at[t] = "pend" => ~given[t] /\ err[t] = "none" /\ loc[t].ev \in Event
      BY DEF SemInv, KernelInv, PendInv, PendExact
    <2> QED BY <1>3, <2>1 DEF Pending
  <1>7. NewTcbsClean'
    <2>1. \A t \in Tcb : at[t] = "tcblink" => loc[t].tcb \in Tcb \ OSTCBList
      BY DEF SemInv, KernelInv, CoreInv, KernelTypeOK, CreationsApart, Locals
    <2>2. \A t \in Tcb : at'[t] = "tcblink" => at[t] = "tcblink" /\ loc'[t] = loc[t]
      OBVIOUS
    <2> QED BY <2>1, <2>2 DEF SemInv, KernelInv, PendInv, NewTcbsClean
  <1>8. OthersOutside' /\ NoneMade'
    BY DEF SemInv, KernelInv, PendInv, OthersOutside, NoneMade, Pending
  <1> QED BY <1>4, <1>5, <1>6, <1>7, <1>8 DEF PendInv

\* What PendExact says of one task in use.
LEMMA PendOf ==
  ASSUME SemInv, NEW t \in OSTCBList, ~Deleting(t)
  PROVE  /\ t \in Tcb
         /\ OSTCBStat[t] \subseteq {"SEM", "SUSPEND"}
         /\ OSTCBEventPtr[t] # NullEvent <=> OSTCBPendTO[t] \/ "SEM" \in OSTCBStat[t]
         /\ OSTCBEventPtr[t] # NullEvent =>
              /\ Pending(t) /\ loc[t].ev = OSTCBEventPtr[t] /\ OSTCBEventPtr[t] \in Event
              /\ OSTCBPrio[t] \in OSEventTbl[OSTCBEventPtr[t]]
         /\ OSTCBPendTO[t] => OSTCBDly[t] = 0
         /\ Pending(t) => (given[t] <=> OSTCBEventPtr[t] = NullEvent) /\ err[t] = "none"
         /\ at[t] = "pend" => ~given[t] /\ err[t] = "none" /\ loc[t].ev \in Event
  BY DEF SemInv, PendInv, PendExact, WaitListExact, KernelInv, CoreInv, KernelTypeOK

\* A step that leaves the TCBs alone as well.
LEMMA PendSame ==
  ASSUME SemInv, KernelInv',
         UNCHANGED <<OSTCBPrio, OSTCBEventPtr, OSTCBStat, OSTCBPendTO, OSTCBDly,
                     OSEventTbl, OSTCBList, err, given>>,
         \A p \in Prio : HasTcb(p) => OSTCBPrioTbl'[p] = OSTCBPrioTbl[p],
         \A t \in Tcb : Deleting(t)' <=> Deleting(t),
         \A t \in Tcb : \/ at'[t] = at[t] /\ loc'[t] = loc[t]
                        \/ at[t] = "pendwait" /\ at'[t] = "pendwake" /\ loc'[t] = loc[t]
                        \/ /\ at[t] # "pend" /\ ~Pending(t)
                           /\ at'[t] \notin {"pend", "pendwait", "pendwake", "create", "del",
                                             "delalways", "tcblink"}
                           /\ t \in OSTCBList \/ at'[t] \in {"app", "sched"},
         NoPendLocked'
  PROVE  PendInv'
  <1>1. \A t \in OSTCBList : ~Deleting(t) =>
           /\ OSTCBStat'[t] \subseteq {"SEM", "SUSPEND"}
           /\ OSTCBPendTO'[t] \/ "SEM" \in OSTCBStat'[t]
                <=> OSTCBPendTO[t] \/ "SEM" \in OSTCBStat[t]
           /\ OSTCBPendTO'[t] => OSTCBDly'[t] = 0
    BY PendOf
  <1> QED BY <1>1, PendFrame

---------------------------------------------------------------------------
\* The kernel's steps keep PendInv, one lemma for each kind of step.

\* OSIntEnter keeps PendInv.
LEMMA PendIntEnter == ASSUME SemInv, KernelInv', OSIntEnter, UNCHANGED semVars PROVE PendInv'
  <1>1. UNCHANGED <<OSTCBPrio, OSTCBEventPtr, OSTCBStat, OSTCBPendTO, OSTCBDly, OSEventTbl,
                    OSTCBList, OSTCBPrioTbl, OSTCBCur, OSLockNesting, at, loc, err, given>>
    BY DEF OSIntEnter, tcbVars, tblVars, semVars
  <1>2. (\A t \in Tcb : Deleting(t)' <=> Deleting(t)) /\ NoPendLocked'
    BY <1>1 DEF Deleting, NoPendLocked, Pending, SemInv, KernelInv, PendInv
  <1> QED BY <1>1, <1>2, PendSame

\* OSIntExit keeps PendInv, whichever task it switches to.
LEMMA PendIntExit == ASSUME SemInv, KernelInv', OSIntExit, UNCHANGED semVars PROVE PendInv'
  <1>1. UNCHANGED <<OSTCBPrio, OSTCBEventPtr, OSTCBStat, OSTCBPendTO, OSTCBDly, OSEventTbl,
                    OSTCBList, OSTCBPrioTbl, OSLockNesting, at, loc, err, given>>
    BY DEF OSIntExit, tcbVars, tblVars, semVars
  <1>2. OSLockNesting = 0 \/ OSTCBCur' = OSTCBCur
    BY DEF OSIntExit
  <1>3. \A t \in Tcb : Deleting(t)' <=> Deleting(t)
    <2>1. CASE OSLockNesting = 0
      BY <1>1, <2>1, NobodyDeletes DEF Deleting, SemInv, KernelInv, CoreInv, KernelTypeOK
    <2> QED BY <1>1, <1>2, <2>1 DEF Deleting
  <1>4. NoPendLocked'
    BY <1>1, <1>2 DEF NoPendLocked, Pending, SemInv, PendInv, KernelInv, CoreInv, KernelTypeOK
  <1> QED BY <1>1, <1>3, <1>4, PendSame

\* OS_Sched keeps PendInv, at the end of a service and in the middle of a pend.
LEMMA PendSched == ASSUME SemInv, KernelInv', OS_Sched, UNCHANGED semVars PROVE PendInv'
  <1>1. UNCHANGED <<OSTCBPrio, OSTCBEventPtr, OSTCBStat, OSTCBPendTO, OSTCBDly, OSEventTbl,
                    OSTCBList, OSTCBPrioTbl, OSLockNesting, loc, err, given>>
    BY DEF OS_Sched, tcbVars, tblVars, semVars
  <1>2. /\ OSTCBCur \in Tcb
        /\ \A t \in Tcb \ {OSTCBCur} : at'[t] = at[t]
        /\ \/ at[OSTCBCur] = "sched" /\ at'[OSTCBCur] = "app"
           \/ at[OSTCBCur] = "pendwait" /\ at'[OSTCBCur] = "pendwake"
    BY DEF OS_Sched, InTask, SemInv, KernelInv, CoreInv, KernelTypeOK
  <1>3. \A t \in Tcb : at[t] # "delwin" /\ at'[t] # "delwin"
    BY <1>2 DEF SemInv, KernelInv, CoreInv, DeletionHolds
  <1>4. \A t \in Tcb : Deleting(t)' <=> Deleting(t)
    BY <1>2, <1>3 DEF Deleting, KernelInv, CoreInv, KernelTypeOK
  <1>5. NoPendLocked'
    <2>1. OSLockNesting > 0 => OSTCBCur' = OSTCBCur /\ at[OSTCBCur] # "pendwait"
      BY DEF OS_Sched, SemInv, KernelInv, PendInv, NoPendLocked, Pending
    <2> QED BY <1>1, <1>2, <2>1 DEF NoPendLocked, Pending
  <1> QED BY <1>1, <1>2, <1>4, <1>5, PendSame DEF Pending

\* OSSchedLock and OSSchedUnlock keep PendInv: who locks is not inside OSSemPend.
LEMMA PendLock ==
  ASSUME SemInv, KernelInv', OSSchedLock \/ OSSchedUnlock, UNCHANGED semVars PROVE PendInv'
  <1>1. UNCHANGED <<OSTCBPrio, OSTCBEventPtr, OSTCBStat, OSTCBPendTO, OSTCBDly, OSEventTbl,
                    OSTCBList, OSTCBPrioTbl, OSTCBCur, loc, err, given>>
    BY DEF OSSchedLock, OSSchedUnlock, tcbVars, tblVars, cpuVars, semVars
  <1>2. /\ OSTCBCur \in Tcb /\ at[OSTCBCur] = "app" /\ at'[OSTCBCur] \in {"app", "sched"}
        /\ \A t \in Tcb \ {OSTCBCur} : at'[t] = at[t]
    BY DEF OSSchedLock, OSSchedUnlock, TaskCall, Goto, SemInv, KernelInv, CoreInv, KernelTypeOK
  <1>3. (\A t \in Tcb : Deleting(t)' <=> Deleting(t)) /\ NoPendLocked'
    BY <1>1, <1>2 DEF Deleting, NoPendLocked, Pending
  <1> QED BY <1>1, <1>2, <1>3, PendSame DEF Pending

\* The end of some tasks' delays takes the event out of OSTCBStat and marks the pend
\* as timed out in the same step.
LEMMA PendDelayEnds ==
  ASSUME SemInv, NEW T, DelayEnds(T), NEW t \in OSTCBList, ~Deleting(t),
         t \in T => OSTCBDly[t] # 0 /\ OSTCBDly'[t] = 0,
         OSTCBDly[t] = 0 => OSTCBDly'[t] = 0
  PROVE  /\ OSTCBStat'[t] \subseteq {"SEM", "SUSPEND"}
         /\ OSTCBPendTO'[t] \/ "SEM" \in OSTCBStat'[t] <=> OSTCBPendTO[t] \/ "SEM" \in OSTCBStat[t]
         /\ OSTCBPendTO'[t] => OSTCBDly'[t] = 0
  <1>1. /\ t \in Tcb /\ OSTCBStat[t] \subseteq {"SEM", "SUSPEND"}
        /\ OSTCBPendTO[t] => OSTCBDly[t] = 0
    BY PendOf
  <1>2. /\ OSTCBStat'[t] = IF t \in T THEN OSTCBStat[t] \ PendAny ELSE OSTCBStat[t]
        /\ OSTCBPendTO'[t] = IF t \in T THEN OSTCBStat[t] \cap PendAny # {} ELSE OSTCBPendTO[t]
    BY <1>1, Zenon DEF DelayEnds
  <1>3. CASE t \in T
    <2>1. OSTCBStat'[t] = OSTCBStat[t] \ PendAny
      BY <1>2, <1>3
    <2>2. OSTCBPendTO'[t] <=> "SEM" \in OSTCBStat[t]
      <3>1. OSTCBPendTO'[t] = (OSTCBStat[t] \cap PendAny # {})
        BY <1>2, <1>3
      <3>2. (OSTCBStat[t] \cap PendAny # {}) <=> "SEM" \in OSTCBStat[t]
        BY <1>1 DEF PendAny
      <3> QED BY <3>1, <3>2
    <2> QED BY <1>1, <1>3, <2>1, <2>2 DEF PendAny
  <1>4. CASE t \notin T
    <2>1. OSTCBStat'[t] = OSTCBStat[t] /\ OSTCBPendTO'[t] = OSTCBPendTO[t]
      BY <1>2, <1>4
    <2> QED BY <1>1, <2>1
  <1> QED BY <1>3, <1>4

\* The tick keeps PendInv, though it ends any number of timeouts at once.
LEMMA PendTick == ASSUME SemInv, KernelInv', OSTimeTick, UNCHANGED semVars PROVE PendInv'
  <1> DEFINE T == {t \in Delayed : OSTCBDly[t] = 1}
  <1>1. /\ UNCHANGED <<OSTCBPrio, OSTCBEventPtr, OSEventTbl, OSTCBList, OSTCBPrioTbl, OSTCBCur,
                       OSLockNesting, at, loc, err, given>>
        /\ DelayEnds(T)
    BY DEF OSTimeTick, tblVars, cpuVars, semVars
  <1>2. \A t \in OSTCBList : /\ t \in T => OSTCBDly[t] # 0 /\ OSTCBDly'[t] = 0
                             /\ OSTCBDly[t] = 0 => OSTCBDly'[t] = 0
    BY DEF OSTimeTick, Delayed, SemInv, KernelInv, CoreInv, KernelTypeOK
  <1>3. T \subseteq OSTCBList
    BY DEF Delayed
  <1> HIDE DEF T
  <1>4. \A t \in Tcb \ OSTCBList : OSTCBPendTO'[t] = OSTCBPendTO[t]
    BY <1>1, <1>3, Zenon DEF DelayEnds
  <1>5. (\A t \in Tcb : Deleting(t)' <=> Deleting(t)) /\ NoPendLocked'
    BY <1>1 DEF Deleting, NoPendLocked, Pending, SemInv, KernelInv, PendInv
  <1>6. \A t \in OSTCBList : ~Deleting(t) =>
           /\ OSTCBStat'[t] \subseteq {"SEM", "SUSPEND"}
           /\ OSTCBPendTO'[t] \/ "SEM" \in OSTCBStat'[t]
                <=> OSTCBPendTO[t] \/ "SEM" \in OSTCBStat[t]
           /\ OSTCBPendTO'[t] => OSTCBDly'[t] = 0
    BY <1>1, <1>2, PendDelayEnds
  <1> QED BY <1>1, <1>4, <1>5, <1>6, PendFrame

\* What a one-region service of the kernel does to those inside OSSemPend: nothing.
LEMMA PendCall ==
  ASSUME SemInv, NEW s, Call(s), NEW l \in {"sched", "app"}, Goto(l),
         UNCHANGED <<OSTCBCur, OSLockNesting, loc>>
  PROVE  /\ \A t \in Tcb : Deleting(t)' <=> Deleting(t)
         /\ \A t \in Tcb : \/ at'[t] = at[t] /\ loc'[t] = loc[t]
                           \/ /\ at[t] # "pend" /\ ~Pending(t)
                              /\ at'[t] \in {"app", "sched"}
         /\ NoPendLocked'
  <1>1. /\ OSTCBCur \in Tcb
        /\ \A t \in Tcb \ {OSTCBCur} : at'[t] = at[t]
        /\ OSIntNesting = 0 => at[OSTCBCur] = "app" /\ at'[OSTCBCur] = l
        /\ OSIntNesting # 0 => at' = at
    BY ServiceReturns DEF SemInv, KernelInv, CoreInv, KernelTypeOK
  <1> QED BY <1>1 DEF Deleting, NoPendLocked, Pending, SemInv, KernelInv, PendInv

\* OSTimeDly keeps PendInv.
LEMMA PendDelay ==
  ASSUME SemInv, KernelInv', NEW n \in Ticks, OSTimeDly(n), UNCHANGED semVars PROVE PendInv'
  <1>1. /\ UNCHANGED <<OSTCBPrio, OSTCBEventPtr, OSTCBStat, OSTCBPendTO, OSEventTbl, OSTCBList,
                       OSTCBPrioTbl, OSTCBCur, OSLockNesting, loc, err, given>>
        /\ Call("OSTimeDly") /\ Goto("sched") /\ at[OSTCBCur] = "app" /\ OSTCBCur \in Tcb
        /\ OSTCBDly' = [OSTCBDly EXCEPT ![OSTCBCur] = n]
    BY DEF OSTimeDly, TaskCall, Call, tblVars, cpuVars, semVars, SemInv, KernelInv, CoreInv, KernelTypeOK
  <1>2. /\ \A t \in Tcb : Deleting(t)' <=> Deleting(t)
        /\ \A t \in Tcb : \/ at'[t] = at[t] /\ loc'[t] = loc[t]
                          \/ /\ at[t] # "pend" /\ ~Pending(t)
                             /\ at'[t] \in {"app", "sched"}
        /\ NoPendLocked'
    BY <1>1, PendCall
  <1>3. \A t \in OSTCBList : ~Deleting(t) =>
           /\ OSTCBStat'[t] \subseteq {"SEM", "SUSPEND"}
           /\ OSTCBPendTO'[t] \/ "SEM" \in OSTCBStat'[t]
                <=> OSTCBPendTO[t] \/ "SEM" \in OSTCBStat[t]
           /\ OSTCBPendTO'[t] => OSTCBDly'[t] = 0
    <2> SUFFICES ASSUME NEW t \in OSTCBList, ~Deleting(t)
                 PROVE  OSTCBStat[t] \subseteq {"SEM", "SUSPEND"} /\ (OSTCBPendTO[t] => OSTCBDly'[t] = 0)
      BY <1>1
    <2>1. /\ t \in Tcb /\ OSTCBStat[t] \subseteq {"SEM", "SUSPEND"}
          /\ OSTCBPendTO[t] => OSTCBDly[t] = 0 /\ Pending(t)
      BY PendOf
    <2> QED BY <1>1, <2>1 DEF Pending, SemInv, KernelInv, CoreInv, KernelTypeOK
  <1> QED BY <1>1, <1>2, <1>3, PendFrame

\* OSTimeDlyResume keeps PendInv, also when what it cuts short is a timeout.
LEMMA PendDelayResume ==
  ASSUME SemInv, KernelInv', NEW p \in UserPrio, OSTimeDlyResume(p), UNCHANGED semVars
  PROVE  PendInv'
  <1> DEFINE t == OSTCBPrioTbl[p]
             l == IF "SUSPEND" \in OSTCBStat[t] THEN "app" ELSE "sched"
  <1>1. /\ UNCHANGED <<OSTCBPrio, OSTCBEventPtr, OSEventTbl, OSTCBList, OSTCBPrioTbl, OSTCBCur,
                       OSLockNesting, loc, err, given>>
        /\ Call("OSTimeDlyResume") /\ Goto(l)
        /\ OSTCBDly[t] # 0 /\ OSTCBDly' = [OSTCBDly EXCEPT ![t] = 0] /\ DelayEnds({t})
        /\ t \in OSTCBList /\ t \in Tcb
    BY TaskOwns DEF OSTimeDlyResume, tblVars, cpuVars, semVars, UserPrio, SemInv, KernelInv
  <1> HIDE DEF t, l
  <1>2. l \in {"sched", "app"}
    BY DEF l
  <1>3. /\ \A u \in Tcb : Deleting(u)' <=> Deleting(u)
        /\ \A u \in Tcb : \/ at'[u] = at[u] /\ loc'[u] = loc[u]
                          \/ /\ at[u] # "pend" /\ ~Pending(u)
                             /\ at'[u] \in {"app", "sched"}
        /\ NoPendLocked'
    BY <1>1, <1>2, PendCall
  <1>4. \A u \in OSTCBList : /\ u \in {t} => OSTCBDly[u] # 0 /\ OSTCBDly'[u] = 0
                             /\ OSTCBDly[u] = 0 => OSTCBDly'[u] = 0
    BY <1>1 DEF SemInv, KernelInv, CoreInv, KernelTypeOK
  <1>5. \A u \in Tcb \ OSTCBList : OSTCBPendTO'[u] = OSTCBPendTO[u]
    BY <1>1, Zenon DEF DelayEnds
  <1>6. \A u \in OSTCBList : ~Deleting(u) =>
           /\ OSTCBStat'[u] \subseteq {"SEM", "SUSPEND"}
           /\ OSTCBPendTO'[u] \/ "SEM" \in OSTCBStat'[u]
                <=> OSTCBPendTO[u] \/ "SEM" \in OSTCBStat[u]
           /\ OSTCBPendTO'[u] => OSTCBDly'[u] = 0
    BY <1>1, <1>4, PendDelayEnds
  <1> QED BY <1>1, <1>3, <1>5, <1>6, PendFrame

\* Suspension and its end keep PendInv: they leave the event alone.
LEMMA PendSuspend ==
  ASSUME SemInv, KernelInv', NEW p \in UserPrio, OSTaskSuspend(p) \/ OSTaskResume(p),
         UNCHANGED semVars
  PROVE  PendInv'
  <1>1. /\ UNCHANGED <<OSTCBPrio, OSTCBEventPtr, OSTCBPendTO, OSTCBDly, OSEventTbl, OSTCBList,
                       OSTCBPrioTbl, OSTCBCur, OSLockNesting, loc, err, given>>
        /\ \E s : Call(s) /\ \E l \in {"sched", "app"} : Goto(l)
        /\ \E S \in {OSTCBStat[OSTCBPrioTbl[p]] \cup {"SUSPEND"}, OSTCBStat[OSTCBPrioTbl[p]] \ {"SUSPEND"}} :
             OSTCBStat' = [OSTCBStat EXCEPT ![OSTCBPrioTbl[p]] = S]
    BY DEF OSTaskSuspend, OSTaskResume, tblVars, cpuVars, semVars
  <1>2. /\ \A t \in Tcb : Deleting(t)' <=> Deleting(t)
        /\ \A t \in Tcb : \/ at'[t] = at[t] /\ loc'[t] = loc[t]
                          \/ /\ at[t] # "pend" /\ ~Pending(t)
                             /\ at'[t] \in {"app", "sched"}
        /\ NoPendLocked'
    BY <1>1, PendCall
  <1>3. \A t \in OSTCBList : ~Deleting(t) =>
           /\ OSTCBStat'[t] \subseteq {"SEM", "SUSPEND"}
           /\ OSTCBPendTO'[t] \/ "SEM" \in OSTCBStat'[t]
                <=> OSTCBPendTO[t] \/ "SEM" \in OSTCBStat[t]
           /\ OSTCBPendTO'[t] => OSTCBDly'[t] = 0
    <2> SUFFICES ASSUME NEW t \in OSTCBList, ~Deleting(t)
                 PROVE  /\ OSTCBStat'[t] \subseteq {"SEM", "SUSPEND"}
                        /\ "SEM" \in OSTCBStat'[t] <=> "SEM" \in OSTCBStat[t]
                        /\ OSTCBPendTO[t] => OSTCBDly[t] = 0
      BY <1>1
    <2>1. /\ t \in Tcb /\ OSTCBStat[t] \subseteq {"SEM", "SUSPEND"}
          /\ OSTCBPendTO[t] => OSTCBDly[t] = 0
      BY PendOf
    <2> QED BY <1>1, <2>1 DEF SemInv, KernelInv, CoreInv, KernelTypeOK
  <1> QED BY <1>1, <1>2, <1>3, PendFrame

\* Reserving a priority, or giving it back, keeps PendInv: it is nobody's who waits.
LEMMA PendReserve ==
  ASSUME SemInv, KernelInv', OSTaskCreate_Undo \/ \E p \in UserPrio : OSTaskCreate(p),
         UNCHANGED semVars
  PROVE  PendInv'
  <1>1. /\ UNCHANGED <<OSTCBPrio, OSTCBEventPtr, OSTCBStat, OSTCBPendTO, OSTCBDly, OSEventTbl,
                       OSTCBList, OSTCBCur, OSLockNesting, err, given>>
        /\ OSTCBCur \in Tcb /\ OSTCBCur \in OSTCBList
        /\ \A t \in Tcb \ {OSTCBCur} : at'[t] = at[t] /\ loc'[t] = loc[t]
        /\ at[OSTCBCur] \in {"app", "unreserve"} /\ at'[OSTCBCur] \in {"app", "tcbinit"}
    BY DEF OSTaskCreate, OSTaskCreate_Undo, TaskCall, InTask, Goto, Keep, tcbVars, cpuVars, semVars,
           SemInv, KernelInv, CoreInv, KernelTypeOK, CurrentKnown
  <1>2. \A p \in Prio : HasTcb(p) => OSTCBPrioTbl'[p] = OSTCBPrioTbl[p]
    <2>1. CASE OSTaskCreate_Undo
      <3>1. OSTCBPrioTbl[loc[OSTCBCur].prio] = Reserved
        BY <1>1, <2>1 DEF OSTaskCreate_Undo, InTask, SemInv, KernelInv, CoreInv, CreationsApart, Creating
      <3> QED BY <2>1, <3>1 DEF OSTaskCreate_Undo, HasTcb, SemInv, KernelInv, CoreInv, KernelTypeOK
    <2>2. CASE \E p \in UserPrio : OSTaskCreate(p)
      BY <2>2 DEF OSTaskCreate, HasTcb, SemInv, KernelInv, CoreInv, KernelTypeOK
    <2> QED BY <2>1, <2>2
  <1>3. (\A t \in Tcb : Deleting(t)' <=> Deleting(t)) /\ NoPendLocked'
    BY <1>1 DEF Deleting, NoPendLocked, Pending
  <1> QED BY <1>1, <1>2, <1>3, PendSame DEF Pending

\* OS_TCBInit keeps PendInv when it takes a TCB: it cleans it before anyone sees it.
LEMMA PendTakeTcb == ASSUME SemInv, KernelInv', OS_TCBInit_Take, UNCHANGED semVars PROVE PendInv'
  <1> DEFINE me == OSTCBCur
  <1>1. /\ OSIntNesting = 0 /\ me \in Tcb /\ me \in OSTCBList /\ at[me] = "tcbinit"
        /\ UNCHANGED <<OSEventTbl, OSLockNesting, OSTCBPrioTbl, OSTCBList, OSTCBCur, err, given>>
    BY DEF OS_TCBInit_Take, InTask, cpuVars, semVars, SemInv, KernelInv, CoreInv, KernelTypeOK, CurrentKnown
  <1>2. CASE OSTCBFreeList = {}
    <2>1. /\ UNCHANGED <<OSTCBPrio, OSTCBEventPtr, OSTCBStat, OSTCBPendTO, OSTCBDly, loc>>
          /\ at' = [at EXCEPT ![me] = "unreserve"]
      BY <1>1, <1>2 DEF OS_TCBInit_Take, Goto, tcbVars
    <2>2. at'[me] = "unreserve" /\ \A t \in Tcb \ {me} : at'[t] = at[t]
      BY <1>1, <2>1 DEF SemInv, KernelInv, CoreInv, KernelTypeOK
    <2>3. (\A t \in Tcb : Deleting(t)' <=> Deleting(t)) /\ NoPendLocked'
      BY <1>1, <2>1, <2>2 DEF Deleting, NoPendLocked, Pending
    <2> QED BY <1>1, <2>1, <2>2, <2>3, PendSame DEF Pending
  <1>3. CASE OSTCBFreeList # {}
    <2> PICK t \in OSTCBFreeList :
          /\ OSTCBPrio' = [OSTCBPrio EXCEPT ![t] = loc[me].prio]
          /\ OSTCBStat' = [OSTCBStat EXCEPT ![t] = {}]
          /\ OSTCBPendTO' = [OSTCBPendTO EXCEPT ![t] = FALSE]
          /\ OSTCBDly' = [OSTCBDly EXCEPT ![t] = 0]
          /\ OSTCBEventPtr' = [OSTCBEventPtr EXCEPT ![t] = NullEvent]
          /\ at' = [at EXCEPT ![me] = "tcblink"]
          /\ loc' = [loc EXCEPT ![me] = [loc[me] EXCEPT !.tcb = t]]
      BY <1>1, <1>3 DEF OS_TCBInit_Take, Goto, Keep
    <2>1. t \in Tcb /\ t \notin OSTCBList
      BY DEF SemInv, KernelInv, CoreInv, KernelTypeOK, TablesAgree, Tcb
    <2>2. /\ \A u \in Tcb \ {t} : /\ OSTCBPrio'[u] = OSTCBPrio[u] /\ OSTCBStat'[u] = OSTCBStat[u]
                                  /\ OSTCBPendTO'[u] = OSTCBPendTO[u] /\ OSTCBDly'[u] = OSTCBDly[u]
                                  /\ OSTCBEventPtr'[u] = OSTCBEventPtr[u]
          /\ OSTCBPendTO'[t] = FALSE /\ OSTCBEventPtr'[t] = NullEvent
          /\ at'[me] = "tcblink" /\ loc'[me].tcb = t
          /\ \A u \in Tcb \ {me} : at'[u] = at[u] /\ loc'[u] = loc[u]
      BY <1>1, <2>1 DEF SemInv, KernelInv, CoreInv, KernelTypeOK, Locals
    <2>3. \A u \in Tcb : ~Deleting(u)' /\ ~Deleting(u)
      BY <1>1, <2>2 DEF Deleting
    <2>4. \A e \in Event : \A p \in OSEventTbl[e] :
            /\ p \in Prio /\ HasTcb(p) /\ OSTCBEventPtr[OSTCBPrioTbl[p]] = e
            /\ OSTCBPrioTbl[p] \in OSTCBList /\ OSTCBPrioTbl[p] \in Tcb \ {t}
      BY <2>1, TaskOwns DEF SemInv, PendInv, WaitListExact, KernelInv, CoreInv, KernelTypeOK
    <2>5. \A u \in OSTCBList : u \in Tcb \ {t}
      BY <2>1 DEF SemInv, KernelInv, CoreInv, KernelTypeOK
    <2>6. WaitListExact'
      <3>1. \A e \in Event : \A p \in OSEventTbl[e] : HasTcb(p)' /\ OSTCBEventPtr'[OSTCBPrioTbl[p]] = e
        BY <1>1, <2>2, <2>4 DEF HasTcb
      <3>2. \A u \in OSTCBList : OSTCBEventPtr'[u] # NullEvent
                                 => OSTCBPrio'[u] \in OSEventTbl[OSTCBEventPtr'[u]]
        BY <2>2, <2>3, <2>5 DEF SemInv, KernelInv, PendInv, WaitListExact
      <3> QED BY <1>1, <3>1, <3>2 DEF WaitListExact
    <2>7. PendExact'
      <3> SUFFICES ASSUME NEW u \in OSTCBList
          PROVE /\ OSTCBStat'[u] \subseteq {"SEM", "SUSPEND"}
                /\ OSTCBEventPtr'[u] # NullEvent <=> OSTCBPendTO'[u] \/ "SEM" \in OSTCBStat'[u]
                /\ OSTCBEventPtr'[u] # NullEvent => Pending(u)' /\ loc'[u].ev = OSTCBEventPtr'[u]
                /\ OSTCBPendTO'[u] => OSTCBDly'[u] = 0
                /\ Pending(u)' => (given[u] <=> OSTCBEventPtr'[u] = NullEvent) /\ err[u] = "none"
                /\ at'[u] = "pend" => ~given[u] /\ err[u] = "none" /\ loc'[u].ev \in Event
        BY <1>1 DEF PendExact
      <3>1. CASE u = me
        BY <1>1, <2>2, <2>3, <2>5, <3>1, PendOf DEF Pending
      <3>2. CASE u # me
        BY <2>2, <2>3, <2>5, <3>2, PendOf DEF Pending
      <3> QED BY <3>1, <3>2
    <2>8. NewTcbsClean'
      <3>1. \A u \in Tcb \ {me} : at'[u] = "tcblink" =>
              /\ loc[u].tcb \in Tcb /\ loc[u].tcb # t /\ at[u] = "tcblink" /\ loc'[u] = loc[u]
        BY <2>2 DEF SemInv, KernelInv, CoreInv, KernelTypeOK, CreationsApart, Locals
      <3> QED BY <1>1, <2>2, <3>1 DEF SemInv, KernelInv, PendInv, NewTcbsClean
    <2>9. WaitersStay'
      BY <1>1, <2>3, <2>4 DEF WaitersStay
    <2>10. OthersOutside' /\ NoneMade'
      BY <1>1, <2>2 DEF SemInv, KernelInv, PendInv, OthersOutside, NoneMade
    <2>11. NoPendLocked'
      BY <1>1, <2>2 DEF NoPendLocked, Pending
    <2> QED BY <2>6, <2>7, <2>8, <2>9, <2>10, <2>11 DEF PendInv
  <1> QED BY <1>2, <1>3

\* OS_TCBInit keeps PendInv when it links the TCB, which waits for nothing.
LEMMA PendLink == ASSUME SemInv, KernelInv', OS_TCBInit_Link, UNCHANGED semVars PROVE PendInv'
  <1> DEFINE me == OSTCBCur
             p == loc[me].prio
             t == loc[me].tcb
  <1>1. /\ OSIntNesting = 0 /\ me \in Tcb /\ me \in OSTCBList /\ at[me] = "tcblink"
        /\ p \in Prio /\ t \in Tcb
        /\ OSTCBPrioTbl[p] = Reserved /\ t \notin OSTCBList
        /\ OSTCBPrio[t] = p /\ OSTCBStat[t] = {} /\ OSTCBDly[t] = 0
        /\ ~OSTCBPendTO[t] /\ OSTCBEventPtr[t] = NullEvent
        /\ at[t] \in {"app", "sched"}
    BY DEF OS_TCBInit_Link, InTask, SemInv, PendInv, NewTcbsClean, OthersOutside,
           KernelInv, CoreInv, KernelTypeOK, CurrentKnown, CreationsApart, Creating, Locals
  <1>2. /\ OSTCBPrioTbl' = [OSTCBPrioTbl EXCEPT ![p] = t]
        /\ OSTCBList' = OSTCBList \cup {t}
        /\ at' = [at EXCEPT ![me] = "sched"] /\ loc' = [loc EXCEPT ![me] = NoLocals]
        /\ UNCHANGED <<OSTCBPrio, OSTCBEventPtr, OSTCBStat, OSTCBPendTO, OSTCBDly, OSEventTbl,
                       OSLockNesting, OSTCBCur, err, given>>
    BY <1>1 DEF OS_TCBInit_Link, Goto, Keep, tcbVars, cpuVars, semVars
  <1>3. /\ at'[me] = "sched" /\ \A u \in Tcb \ {me} : at'[u] = at[u] /\ loc'[u] = loc[u]
        /\ \A q \in Prio \ {p} : OSTCBPrioTbl'[q] = OSTCBPrioTbl[q]
        /\ \A u \in Tcb : ~Deleting(u)' /\ ~Deleting(u)
    BY <1>1, <1>2 DEF Deleting, SemInv, KernelInv, CoreInv, KernelTypeOK
  <1>4. \A e \in Event : \A q \in OSEventTbl[e] :
          /\ q \in Prio \ {p} /\ HasTcb(q) /\ OSTCBEventPtr[OSTCBPrioTbl[q]] = e
          /\ OSTCBPrioTbl[q] \in Tcb
    BY <1>1, TaskOwns DEF HasTcb, SemInv, PendInv, WaitListExact, KernelInv, CoreInv, KernelTypeOK
  <1> HIDE DEF p, t
  <1>5. WaitListExact'
    <2>1. \A e \in Event : \A q \in OSEventTbl[e] : HasTcb(q)' /\ OSTCBEventPtr[OSTCBPrioTbl'[q]] = e
      BY <1>3, <1>4 DEF HasTcb
    <2>2. \A u \in OSTCBList' : OSTCBEventPtr[u] # NullEvent
                                => OSTCBPrio[u] \in OSEventTbl[OSTCBEventPtr[u]]
      BY <1>1, <1>2, <1>3 DEF SemInv, PendInv, WaitListExact, KernelInv, CoreInv, KernelTypeOK
    <2> QED BY <1>2, <2>1, <2>2 DEF WaitListExact
  <1>6. PendExact'
    <2> SUFFICES ASSUME NEW u \in OSTCBList'
        PROVE /\ OSTCBStat[u] \subseteq {"SEM", "SUSPEND"}
              /\ OSTCBEventPtr[u] # NullEvent <=> OSTCBPendTO[u] \/ "SEM" \in OSTCBStat[u]
              /\ OSTCBEventPtr[u] # NullEvent => Pending(u)' /\ loc'[u].ev = OSTCBEventPtr[u]
              /\ OSTCBPendTO[u] => OSTCBDly[u] = 0
              /\ Pending(u)' => (given[u] <=> OSTCBEventPtr[u] = NullEvent) /\ err[u] = "none"
              /\ at'[u] = "pend" => ~given[u] /\ err[u] = "none" /\ loc'[u].ev \in Event
      BY <1>2 DEF PendExact
    <2>1. CASE u = t
      BY <1>1, <1>3, <2>1 DEF Pending
    <2>2. CASE u = me
      <3>1. /\ OSTCBStat[me] \subseteq {"SEM", "SUSPEND"}
            /\ OSTCBEventPtr[me] # NullEvent <=> OSTCBPendTO[me] \/ "SEM" \in OSTCBStat[me]
            /\ OSTCBEventPtr[me] # NullEvent => Pending(me)
            /\ OSTCBPendTO[me] => OSTCBDly[me] = 0
        <4>1. me \in OSTCBList /\ ~Deleting(me)
          BY <1>1, <1>3
        <4> QED BY <4>1, PendOf, Zenon
      <3>2. ~Pending(u) /\ ~Pending(u)' /\ at'[u] # "pend"
        BY <1>1, <1>2, <1>3, <2>2 DEF Pending
      <3> QED BY <3>1, <3>2, <2>2
    <2>3. CASE u \notin {me, t}
      <3>1. u \in OSTCBList /\ u \in Tcb /\ ~Deleting(u)
        BY <1>2, <1>3, <2>3 DEF SemInv, KernelInv, CoreInv, KernelTypeOK
      <3>2. at'[u] = at[u] /\ loc'[u] = loc[u]
        BY <1>3, <2>3, <3>1
      <3> QED BY <3>1, <3>2, PendOf DEF Pending
    <2> QED BY <2>1, <2>2, <2>3
  <1>7. NewTcbsClean'
    BY <1>2, <1>3 DEF SemInv, KernelInv, PendInv, NewTcbsClean
  <1>8. WaitersStay'
    BY <1>2, <1>3, <1>4 DEF WaitersStay
  <1>9. OthersOutside' /\ NoneMade'
    BY <1>1, <1>2, <1>3 DEF SemInv, KernelInv, PendInv, OthersOutside, NoneMade
  <1>10. NoPendLocked'
    BY <1>2, <1>3 DEF NoPendLocked, Pending
  <1> QED BY <1>5, <1>6, <1>7, <1>8, <1>9, <1>10 DEF PendInv

\* OSTaskDel, first region: the victim leaves the list it waits in, and nobody else
\* leaves his.
LEMMA PendDel ==
  ASSUME SemInv, KernelInv', NEW p \in UserPrio, OSTaskDel(p), UNCHANGED semVars PROVE PendInv'
  <1> DEFINE me == OSTCBCur
             t == OSTCBPrioTbl[p]
             mine == [NoLocals EXCEPT !.prio = p, !.tcb = t]
  <1>1. /\ OSIntNesting = 0 /\ me \in Tcb /\ me \in OSTCBList /\ at[me] = "app"
        /\ p \in Prio /\ t \in Tcb /\ t \in OSTCBList /\ OSTCBPrio[t] = p
    BY TaskOwns DEF OSTaskDel, TaskCall, UserPrio, SemInv, KernelInv, CoreInv, KernelTypeOK, CurrentKnown
  <1>2. /\ OSTCBStat' = [OSTCBStat EXCEPT ![t] = {}]
        /\ OSTCBDly' = [OSTCBDly EXCEPT ![t] = 0]
        /\ OSTCBPendTO' = [OSTCBPendTO EXCEPT ![t] = FALSE]
        /\ OSEventTbl' = IF OSTCBEventPtr[t] = NullEvent THEN OSEventTbl
                         ELSE [OSEventTbl EXCEPT ![OSTCBEventPtr[t]] = @ \ {p}]
        /\ at' = [at EXCEPT ![me] = "delwin"] /\ loc' = [loc EXCEPT ![me] = mine]
        /\ UNCHANGED <<OSTCBPrio, OSTCBEventPtr, OSTCBPrioTbl, OSTCBList, OSTCBCur, err, given>>
    BY <1>1 DEF OSTaskDel, Disable, Goto, Keep, tblVars, cpuVars, semVars
  <1>3. mine.tcb = t
    BY <1>1, NoLocalsType DEF NoLocals, Locals
  <1> HIDE DEF mine, t
  <1>4. /\ at'[me] = "delwin"
        /\ \A u \in Tcb \ {me} : at'[u] = at[u] /\ loc'[u] = loc[u]
        /\ \A u \in Tcb : ~Deleting(u)
        /\ \A u \in Tcb : Deleting(u)' <=> u = t
        /\ \A u \in Tcb \ {t} : /\ OSTCBStat'[u] = OSTCBStat[u] /\ OSTCBDly'[u] = OSTCBDly[u]
                                /\ OSTCBPendTO'[u] = OSTCBPendTO[u]
    <2>1. at'[me] = "delwin" /\ loc'[me].tcb = t
      BY <1>1, <1>2, <1>3 DEF SemInv, KernelInv, CoreInv, KernelTypeOK
    <2>2. /\ \A u \in Tcb : ~Deleting(u)
          /\ \A u \in Tcb : Deleting(u)' <=> u = t
      BY <1>1, <1>2, <2>1 DEF Deleting
    <2> QED BY <1>1, <1>2, <2>1, <2>2 DEF SemInv, KernelInv, CoreInv, KernelTypeOK
  <1>5. \A e \in Event : \A q \in OSEventTbl[e] :
          /\ q \in Prio /\ HasTcb(q) /\ OSTCBEventPtr[OSTCBPrioTbl[q]] = e
          /\ OSTCBPrioTbl[q] \in Tcb /\ (OSTCBPrioTbl[q] = t => q = p)
    BY <1>1, TaskOwns DEF SemInv, PendInv, WaitListExact, KernelInv, CoreInv, KernelTypeOK
  <1>6. \A e \in Event : \A q \in OSEventTbl'[e] : q \in OSEventTbl[e] /\ OSTCBPrioTbl[q] # t
    <2> SUFFICES ASSUME NEW e \in Event, NEW q \in OSEventTbl'[e]
                 PROVE  q \in OSEventTbl[e] /\ OSTCBPrioTbl[q] # t
      OBVIOUS
    <2>0. OSEventTbl \in [Event -> SUBSET Prio]
      BY DEF SemInv, KernelInv, CoreInv, KernelTypeOK
    <2>1. CASE OSTCBEventPtr[t] = e
      <3>1. OSTCBEventPtr[t] # NullEvent
        BY <2>1, CoreAssumption
      <3>2. OSEventTbl'[e] = OSEventTbl[e] \ {p}
        BY <1>2, <2>0, <2>1, <3>1
      <3> QED BY <1>5, <3>2
    <2>2. CASE OSTCBEventPtr[t] # e
      <3>1. OSEventTbl'[e] = OSEventTbl[e]
        BY <1>2, <2>0, <2>2
      <3> QED BY <1>5, <2>2, <3>1
    <2> QED BY <2>1, <2>2
  <1>7. WaitListExact'
    <2>1. \A e \in Event : \A q \in OSEventTbl'[e] : HasTcb(q)' /\ OSTCBEventPtr[OSTCBPrioTbl[q]] = e
      BY <1>2, <1>5, <1>6 DEF HasTcb
    <2>2. ASSUME NEW u \in OSTCBList, OSTCBEventPtr[u] # NullEvent, u # t
          PROVE  OSTCBPrio[u] \in OSEventTbl'[OSTCBEventPtr[u]]
      <3>1. u \in Tcb /\ OSTCBPrio[u] # p
        BY <1>1, <2>2, OneTaskPerPrio DEF SemInv, KernelInv, CoreInv, KernelTypeOK
      <3>2. OSTCBPrio[u] \in OSEventTbl[OSTCBEventPtr[u]] /\ OSTCBEventPtr[u] \in Event
        BY <1>4, <2>2, <3>1, PendOf
      <3> QED BY <1>2, <3>1, <3>2 DEF SemInv, KernelInv, CoreInv, KernelTypeOK
    <2> QED BY <1>2, <1>4, <2>1, <2>2 DEF WaitListExact, SemInv, KernelInv, CoreInv, KernelTypeOK
  <1>8. PendExact'
    <2> SUFFICES ASSUME NEW u \in OSTCBList, u # t, u \in Tcb
        PROVE /\ OSTCBStat[u] \subseteq {"SEM", "SUSPEND"}
              /\ OSTCBEventPtr[u] # NullEvent <=> OSTCBPendTO[u] \/ "SEM" \in OSTCBStat[u]
              /\ OSTCBEventPtr[u] # NullEvent => Pending(u)' /\ loc'[u].ev = OSTCBEventPtr[u]
              /\ OSTCBPendTO[u] => OSTCBDly[u] = 0
              /\ Pending(u)' => (given[u] <=> OSTCBEventPtr[u] = NullEvent) /\ err[u] = "none"
              /\ at'[u] = "pend" => ~given[u] /\ err[u] = "none" /\ loc'[u].ev \in Event
      BY <1>2, <1>4 DEF PendExact, SemInv, KernelInv, CoreInv, KernelTypeOK
    <2>0. ~Deleting(u)
      BY <1>4
    <2>1. CASE u = me
      <3>1. ~Pending(u) /\ ~Pending(u)' /\ at'[u] # "pend"
        BY <1>1, <1>2, <1>4, <2>1 DEF Pending
      <3>2. /\ OSTCBStat[u] \subseteq {"SEM", "SUSPEND"}
            /\ OSTCBEventPtr[u] # NullEvent <=> OSTCBPendTO[u] \/ "SEM" \in OSTCBStat[u]
            /\ OSTCBEventPtr[u] # NullEvent => Pending(u)
            /\ OSTCBPendTO[u] => OSTCBDly[u] = 0
        BY <2>0, PendOf, Zenon
      <3> QED BY <3>1, <3>2
    <2>2. CASE u # me
      <3>1. at'[u] = at[u] /\ loc'[u] = loc[u]
        BY <1>4, <2>2
      <3> QED BY <2>0, <3>1, PendOf DEF Pending
    <2> QED BY <2>1, <2>2
  <1>9. WaitersStay'
    BY <1>2, <1>4, <1>5, <1>6 DEF WaitersStay
  <1>10. NewTcbsClean'
    <2>1. \A u \in Tcb : at'[u] = "tcblink" =>
            /\ at[u] = "tcblink" /\ loc'[u] = loc[u] /\ loc[u].tcb \in Tcb \ {t}
      BY <1>1, <1>4 DEF SemInv, KernelInv, CoreInv, KernelTypeOK, CreationsApart, Locals
    <2> QED BY <1>2, <1>4, <2>1 DEF SemInv, KernelInv, PendInv, NewTcbsClean
  <1>11. OthersOutside' /\ NoneMade'
    BY <1>1, <1>2, <1>4 DEF SemInv, KernelInv, PendInv, OthersOutside, NoneMade
  <1>12. NoPendLocked'
    BY <1>2, <1>4 DEF NoPendLocked, Pending
  <1> QED BY <1>7, <1>8, <1>9, <1>10, <1>11, <1>12 DEF PendInv

\* OSTaskDel, second region: the victim is in no wait list any more.
LEMMA PendDelFree == ASSUME SemInv, KernelInv', OSTaskDel_Free, UNCHANGED semVars PROVE PendInv'
  <1> DEFINE me == OSTCBCur
             p == loc[me].prio
             t == loc[me].tcb
  <1>1. /\ OSIntNesting = 0 /\ me \in Tcb /\ at[me] = "delwin"
        /\ p \in Prio /\ t \in Tcb /\ OSTCBPrioTbl[p] = t /\ Deleting(t)
        /\ me \in OSTCBList
    BY DEF OSTaskDel_Free, InTask, SemInv, KernelInv, CoreInv, KernelTypeOK, DeletionHolds, CurrentKnown,
           Deleting, Locals
  <1>2. /\ OSTCBPrioTbl' = [OSTCBPrioTbl EXCEPT ![p] = NullTcb]
        /\ OSTCBList' = OSTCBList \ {t}
        /\ at' = [at EXCEPT ![t] = "app", ![me] = "sched"]
        /\ loc' = [loc EXCEPT ![t] = NoLocals, ![me] = NoLocals]
        /\ UNCHANGED <<OSTCBPrio, OSTCBEventPtr, OSTCBStat, OSTCBPendTO, OSTCBDly, OSEventTbl,
                       OSTCBCur, err, given>>
    BY DEF OSTaskDel_Free, tcbVars, cpuVars, semVars
  <1> HIDE DEF p, t
  <1>3. /\ \A q \in Prio \ {p} : OSTCBPrioTbl'[q] = OSTCBPrioTbl[q]
        /\ at'[me] = "sched" /\ (t # me => at'[t] = "app")
        /\ \A u \in Tcb \ {me, t} : at'[u] = at[u] /\ loc'[u] = loc[u]
        /\ \A u \in Tcb : ~Deleting(u)' /\ (Deleting(u) => u = t)
    BY <1>1, <1>2 DEF Deleting, t, SemInv, KernelInv, CoreInv, KernelTypeOK
  <1>4. \A e \in Event : \A q \in OSEventTbl[e] :
          /\ q \in Prio \ {p} /\ HasTcb(q) /\ OSTCBEventPtr[OSTCBPrioTbl[q]] = e
          /\ OSTCBPrioTbl[q] \in Tcb
    BY <1>1, TaskOwns DEF SemInv, PendInv, WaitListExact, WaitersStay, KernelInv, CoreInv, KernelTypeOK
  <1>5. WaitListExact'
    <2>1. \A e \in Event : \A q \in OSEventTbl[e] : HasTcb(q)' /\ OSTCBEventPtr[OSTCBPrioTbl'[q]] = e
      BY <1>3, <1>4 DEF HasTcb
    <2>2. \A u \in OSTCBList' : OSTCBEventPtr[u] # NullEvent
                                => OSTCBPrio[u] \in OSEventTbl[OSTCBEventPtr[u]]
      BY <1>2, <1>3 DEF SemInv, PendInv, WaitListExact, KernelInv, CoreInv, KernelTypeOK
    <2> QED BY <1>2, <2>1, <2>2 DEF WaitListExact
  <1>6. PendExact'
    <2> SUFFICES ASSUME NEW u \in OSTCBList, u # t
        PROVE /\ OSTCBStat[u] \subseteq {"SEM", "SUSPEND"}
              /\ OSTCBEventPtr[u] # NullEvent <=> OSTCBPendTO[u] \/ "SEM" \in OSTCBStat[u]
              /\ OSTCBEventPtr[u] # NullEvent => Pending(u)' /\ loc'[u].ev = OSTCBEventPtr[u]
              /\ OSTCBPendTO[u] => OSTCBDly[u] = 0
              /\ Pending(u)' => (given[u] <=> OSTCBEventPtr[u] = NullEvent) /\ err[u] = "none"
              /\ at'[u] = "pend" => ~given[u] /\ err[u] = "none" /\ loc'[u].ev \in Event
      BY <1>2 DEF PendExact
    <2>0. u \in Tcb /\ ~Deleting(u)
      BY <1>3 DEF SemInv, KernelInv, CoreInv, KernelTypeOK
    <2>1. CASE u = me
      <3>1. ~Pending(u) /\ ~Pending(u)' /\ at'[u] # "pend"
        BY <1>1, <1>2, <1>3, <2>1 DEF Pending
      <3>2. /\ OSTCBStat[u] \subseteq {"SEM", "SUSPEND"}
            /\ OSTCBEventPtr[u] # NullEvent <=> OSTCBPendTO[u] \/ "SEM" \in OSTCBStat[u]
            /\ OSTCBEventPtr[u] # NullEvent => Pending(u)
            /\ OSTCBPendTO[u] => OSTCBDly[u] = 0
        BY <2>0, PendOf, Zenon
      <3> QED BY <3>1, <3>2
    <2>2. CASE u # me
      <3>1. at'[u] = at[u] /\ loc'[u] = loc[u]
        BY <1>3, <2>0, <2>2
      <3> QED BY <2>0, <3>1, PendOf DEF Pending
    <2> QED BY <2>1, <2>2
  <1>7. WaitersStay'
    BY <1>2, <1>3, <1>4 DEF WaitersStay
  <1>8. NewTcbsClean'
    BY <1>1, <1>2, <1>3 DEF SemInv, KernelInv, PendInv, NewTcbsClean
  <1>9. OthersOutside' /\ NoneMade'
    BY <1>1, <1>2, <1>3 DEF SemInv, KernelInv, PendInv, OthersOutside, NoneMade
  <1>10. NoPendLocked'
    BY <1>2, <1>3 DEF NoPendLocked, Pending
  <1> QED BY <1>5, <1>6, <1>7, <1>8, <1>9, <1>10 DEF PendInv

\* A step of the kernel keeps SemInv.
LEMMA KernelStepKeepsPend ==
  ASSUME SemInv, SemSafeUse, KernelStep, UNCHANGED semVars PROVE SemInv'
  <1>1. KernelInv'
    BY KernelStepKeeps DEF SemInv, KernelInv, SemSafeUse
  <1>2. PendInv'
    <2>1. CASE TaskStep
      <3>1. \A p, q \in UserPrio : ~OSTaskChangePrio(p, q)
        BY DEF OSTaskChangePrio, Call, TaskCall, IsrCall, SemSafeUse, SafeUse
      <3> QED BY <1>1, <2>1, <3>1, PendTakeTcb, PendLink, PendReserve, PendDelFree, PendDel,
                 PendSuspend DEF TaskStep
    <2>2. CASE TimeStep
      BY <1>1, <2>2, PendDelay, PendDelayResume DEF TimeStep, UserPrio
    <2> QED BY <1>1, <2>1, <2>2, PendIntEnter, PendIntExit, PendTick, PendSched, PendLock
            DEF KernelStep
  <1>3. SemTypeOK' /\ PendTellsTruth'
    BY <1>1 DEF SemInv, SemTypeOK, PendTellsTruth, KernelInv, CoreInv, semVars, ecbVars
  <1> QED BY <1>1, <1>2, <1>3 DEF SemInv, KernelInv

---------------------------------------------------------------------------
\* The check that begins a task's call of a service moves it to the service's point.
LEMMA CheckMoves ==
  ASSUME KernelInv, NEW s, NEW e \in Event, NEW l \in Points, NEW n \in Ticks,
         Check(s, "SEM", e, l, n)
  PROVE  /\ PlaceTypes /\ Moves({"app"}, l) /\ OSIntNesting = 0 /\ at[OSTCBCur] = "app"
         /\ s \in TaskCalls /\ loc'[OSTCBCur].ev = e
         /\ UNCHANGED <<OSRdyTbl, OSEventTbl, OSLockNesting, tcbVars, tblVars, cpuVars, ecbVars>>
  <1> DEFINE mine == [NoLocals EXCEPT !.ev = e, !.arg = n]
  <1>1. mine \in Locals /\ mine.ev = e
    BY NoLocalsType DEF Locals, NoLocals
  <1>2. /\ OSIntNesting = 0 /\ s \in TaskCalls /\ OSTCBCur # Idle /\ at[OSTCBCur] = "app"
        /\ at' = [at EXCEPT ![OSTCBCur] = l] /\ loc' = [loc EXCEPT ![OSTCBCur] = mine]
        /\ UNCHANGED served /\ OSTCBCur \in Tcb
        /\ UNCHANGED <<OSRdyTbl, OSEventTbl, OSLockNesting, tcbVars, tblVars, cpuVars, ecbVars>>
    BY DEF Check, TaskCall, Goto, Keep, KernelInv, CoreInv, KernelTypeOK
  <1> HIDE DEF mine
  <1>3. PlaceTypes
    BY <1>1, <1>2 DEF PlaceTypes, KernelInv, CoreInv, KernelTypeOK, Label, Points
  <1>4. Moves({"app"}, l) /\ loc'[OSTCBCur].ev = e
    BY <1>1, <1>2 DEF Moves, KernelInv, CoreInv, KernelTypeOK
  <1> QED BY <1>2, <1>3, <1>4

\* A region that touches neither a TCB nor a wait list, outside OSSemPend: the
\* checks of OSSemPost, OSSemAccept and OSSemSet, and what they do to the count.
LEMMA QuietKeeps ==
  ASSUME SemInv, PlaceTypes, NEW l \in {"app", "post", "accept", "set"},
         Moves({"app", "post", "accept", "set"}, l),
         UNCHANGED <<OSRdyTbl, OSEventTbl, OSLockNesting, tcbVars, tblVars, cpuVars,
                     OSEventType, OSEventPtr, OSEventFreeList, err, given>>,
         OSEventCnt' \in [Event -> 0 .. CntMax]
  PROVE  SemInv'
  <1>1. /\ UNCHANGED <<OSTCBPrio, OSTCBStat, OSTCBDly, OSTCBPendTO, OSTCBEventPtr, OSTCBPrioTbl,
                       OSTCBList, OSTCBFreeList, OSTCBCur, OSIntNesting>>
        /\ OSTCBCur \in Tcb /\ KernelInv
    BY DEF tcbVars, tblVars, cpuVars, SemInv, KernelInv, CoreInv, KernelTypeOK
  <1>2. \A t \in Tcb : Deleting(t)' <=> Deleting(t)
    BY <1>1 DEF Deleting, Moves
  <1>3. KernelInv'
    <2>1. Moves(Points, l)
      BY DEF Moves, Points
    <2>2. ReadyIffNotWaiting' /\ ReadyIsDispatchable'
      BY <1>1, <1>2, TaskOwns DEF KernelInv, CoreInv, KernelTypeOK, ReadyIffNotWaiting, ReadyIsDispatchable, HasTcb
    <2> QED BY <1>1, <2>1, <2>2, ServiceSettles DEF KernelInv, CoreInv, KernelTypeOK, Points
  <1>4. PendInv'
    <2>1. \A t \in Tcb : \/ at'[t] = at[t] /\ loc'[t] = loc[t]
                         \/ /\ at[t] # "pend" /\ ~Pending(t)
                            /\ at'[t] \notin {"pend", "pendwait", "pendwake", "create", "del",
                                              "delalways", "tcblink"}
                            /\ t \in OSTCBList \/ at'[t] \in {"app", "sched"}
      <3>1. OSIntNesting = 0 => OSTCBCur \in OSTCBList
        BY <1>1 DEF Moves, KernelInv, CoreInv, CurrentKnown
      <3> QED BY <1>1, <3>1 DEF Moves, Pending
    <2>2. NoPendLocked'
      BY <1>1 DEF Moves, NoPendLocked, Pending, SemInv, KernelInv, PendInv
    <2> QED BY <1>1, <1>2, <1>3, <2>1, <2>2, PendSame
  <1>5. SemTypeOK' /\ PendTellsTruth'
    BY <1>3 DEF SemInv, SemTypeOK, PendTellsTruth, KernelInv, CoreInv
  <1> QED BY <1>3, <1>4, <1>5 DEF SemInv, KernelInv

\* The checks of OSSemPost, OSSemAccept and OSSemSet keep SemInv.
LEMMA ChecksKeep ==
  ASSUME SemInv, NEW s, NEW e \in Event, NEW l \in {"post", "accept", "set"}, NEW n \in Ticks,
         Check(s, "SEM", e, l, n), UNCHANGED <<err, given>>
  PROVE  SemInv'
  <1>1. /\ PlaceTypes /\ Moves({"app"}, l)
        /\ UNCHANGED <<OSRdyTbl, OSEventTbl, OSLockNesting, tcbVars, tblVars, cpuVars, ecbVars>>
    BY CheckMoves DEF SemInv, KernelInv, Points
  <1>2. Moves({"app", "post", "accept", "set"}, l)
    BY <1>1 DEF Moves
  <1> QED BY <1>1, <1>2, QuietKeeps DEF ecbVars, SemInv, KernelInv, SemTypeOK

\* What OSSemPost, OSSemAccept and OSSemSet do to the count keeps SemInv.
LEMMA CountsKeep ==
  ASSUME SemInv, NEW e \in Event, NEW n \in Counts,
         OSSemPost_Count(e) \/ OSSemAccept(e) \/ OSSemSet(e, n)
  PROVE  SemInv'
  <1>1. /\ Return("app") /\ (OSIntNesting = 0 => at[OSTCBCur] \in {"post", "accept", "set"})
        /\ UNCHANGED <<OSRdyTbl, OSEventTbl, OSLockNesting, tcbVars, tblVars, cpuVars,
                       OSEventType, OSEventPtr, OSEventFreeList, err, given>>
    BY DEF OSSemPost_Count, OSSemAccept, OSSemSet, Runs, InTask, IsrCall, SemInv, KernelInv, CoreInv, KernelTypeOK
  <1>2. PlaceTypes /\ Moves({"post", "accept", "set"}, "app")
    BY <1>1, ReturnMoves DEF SemInv, KernelInv, Points
  <1>3. Moves({"app", "post", "accept", "set"}, "app")
    BY <1>2 DEF Moves
  <1>4. OSEventCnt' \in [Event -> 0 .. CntMax]
    <2>1. OSEventCnt \in [Event -> 0 .. CntMax] /\ OSEventCnt[e] \in 0 .. CntMax
      BY DEF SemInv, KernelInv, SemTypeOK
    <2>2. \E c \in 0 .. CntMax : OSEventCnt' = [OSEventCnt EXCEPT ![e] = c]
      <3>1. CASE OSSemPost_Count(e)
        <4>1. (IF OSEventCnt[e] < CntMax THEN OSEventCnt[e] + 1 ELSE OSEventCnt[e]) \in 0 .. CntMax
          BY <2>1, SemAssumption
        <4> QED BY <2>1, <3>1, <4>1, Zenon DEF OSSemPost_Count
      <3>2. CASE OSSemAccept(e)
        <4>1. (IF OSEventCnt[e] > 0 THEN OSEventCnt[e] - 1 ELSE OSEventCnt[e]) \in 0 .. CntMax
          BY <2>1, SemAssumption
        <4> QED BY <2>1, <3>2, <4>1, Zenon DEF OSSemAccept
      <3>3. CASE OSSemSet(e, n)
        BY <2>1, <3>3, SemAssumption DEF OSSemSet, Counts
      <3> QED BY <3>1, <3>2, <3>3
    <2> QED BY <2>1, <2>2
  <1> QED BY <1>1, <1>2, <1>3, <1>4, QuietKeeps

\* The regions of OSSemPend that touch no TCB and no wait list keep SemInv if they
\* tell the caller the truth.
LEMMA MineKeeps ==
  ASSUME SemInv, PlaceTypes, NEW l \in {"app", "pend"},
         Moves({"app", "pend", "pendwake"}, l), OSIntNesting = 0,
         UNCHANGED <<OSRdyTbl, OSEventTbl, OSLockNesting, tcbVars, tblVars, cpuVars,
                     OSEventType, OSEventPtr, OSEventFreeList>>,
         OSEventCnt' \in [Event -> 0 .. CntMax],
         err' \in [Tcb -> {"none", "OS_NO_ERR", "OS_TIMEOUT"}], given' \in [Tcb -> BOOLEAN],
         \A t \in Tcb \ {OSTCBCur} : err'[t] = err[t] /\ given'[t] = given[t],
         err'[OSTCBCur] = "OS_NO_ERR" => given'[OSTCBCur],
         err'[OSTCBCur] = "OS_TIMEOUT" => ~given'[OSTCBCur],
         OSTCBEventPtr[OSTCBCur] = NullEvent,
         l = "pend" => /\ OSLockNesting = 0 /\ loc'[OSTCBCur].ev \in Event
                       /\ ~given'[OSTCBCur] /\ err'[OSTCBCur] = "none"
  PROVE  SemInv'
  <1> DEFINE me == OSTCBCur
  <1>1. /\ UNCHANGED <<OSTCBPrio, OSTCBStat, OSTCBDly, OSTCBPendTO, OSTCBEventPtr, OSTCBPrioTbl,
                       OSTCBList, OSTCBFreeList, OSTCBCur, OSIntNesting>>
        /\ me \in Tcb /\ KernelInv
    BY DEF tcbVars, tblVars, cpuVars, SemInv, KernelInv, CoreInv, KernelTypeOK
  <1>2. /\ at[me] \in {"app", "pend", "pendwake"} /\ at'[me] = l
        /\ \A t \in Tcb \ {me} : at'[t] = at[t] /\ loc'[t] = loc[t]
        /\ me \in OSTCBList
    BY <1>1 DEF Moves, KernelInv, CoreInv, CurrentKnown
  <1>3. \A t \in Tcb : ~Deleting(t)' /\ ~Deleting(t)
    BY <1>1, <1>2 DEF Deleting
  <1>4. KernelInv'
    <2>1. Moves(Points, l)
      BY DEF Moves, Points
    <2>2. ReadyIffNotWaiting' /\ ReadyIsDispatchable'
      BY <1>1, <1>3, TaskOwns DEF KernelInv, CoreInv, KernelTypeOK, ReadyIffNotWaiting, ReadyIsDispatchable, HasTcb
    <2> QED BY <1>1, <2>1, <2>2, ServiceSettles DEF KernelInv, CoreInv, KernelTypeOK, Points
  <1>5. PendExact'
    <2> SUFFICES ASSUME NEW u \in OSTCBList, u \in Tcb, ~Deleting(u)
        PROVE /\ OSTCBStat[u] \subseteq {"SEM", "SUSPEND"}
              /\ OSTCBEventPtr[u] # NullEvent <=> OSTCBPendTO[u] \/ "SEM" \in OSTCBStat[u]
              /\ OSTCBEventPtr[u] # NullEvent => Pending(u)' /\ loc'[u].ev = OSTCBEventPtr[u]
              /\ OSTCBPendTO[u] => OSTCBDly[u] = 0
              /\ Pending(u)' => (given'[u] <=> OSTCBEventPtr[u] = NullEvent) /\ err'[u] = "none"
              /\ at'[u] = "pend" => ~given'[u] /\ err'[u] = "none" /\ loc'[u].ev \in Event
      BY <1>1, <1>3 DEF PendExact, KernelInv, CoreInv, KernelTypeOK
    <2>1. CASE u = me
      <3>1. ~Pending(u)' /\ OSTCBEventPtr[u] = NullEvent
        BY <1>1, <1>2, <2>1 DEF Pending
      <3>2. /\ OSTCBStat[u] \subseteq {"SEM", "SUSPEND"}
            /\ OSTCBEventPtr[u] # NullEvent <=> OSTCBPendTO[u] \/ "SEM" \in OSTCBStat[u]
            /\ OSTCBPendTO[u] => OSTCBDly[u] = 0
        BY PendOf, Zenon
      <3> QED BY <1>2, <2>1, <3>1, <3>2
    <2>2. CASE u # me
      <3>1. at'[u] = at[u] /\ loc'[u] = loc[u] /\ err'[u] = err[u] /\ given'[u] = given[u]
        BY <1>2, <2>2
      <3> QED BY <3>1, PendOf DEF Pending
    <2> QED BY <2>1, <2>2
  <1>6. WaitListExact' /\ WaitersStay'
    BY <1>1, <1>3, TaskOwns DEF WaitListExact, WaitersStay, HasTcb, SemInv, PendInv, KernelInv, CoreInv, KernelTypeOK
  <1>7. NewTcbsClean' /\ OthersOutside' /\ NoneMade'
    BY <1>1, <1>2 DEF NewTcbsClean, OthersOutside, NoneMade, SemInv, KernelInv, PendInv
  <1>8. NoPendLocked'
    BY <1>1, <1>2 DEF NoPendLocked, Pending
  <1>9. SemTypeOK'
    BY <1>4 DEF SemInv, SemTypeOK, KernelInv, CoreInv
  <1>10. PendTellsTruth'
    BY <1>1 DEF SemInv, KernelInv, PendTellsTruth
  <1> QED BY <1>4, <1>5, <1>6, <1>7, <1>8, <1>9, <1>10 DEF SemInv, KernelInv, PendInv

\* A task that runs inside OSSemPend is ready: it waits for nothing any more.
LEMMA PenderRuns ==
  ASSUME SemInv, NEW l \in {"pend", "pendwake"}, InTask(l)
  PROVE  /\ OSTCBCur \in Tcb /\ OSTCBCur \in OSTCBList /\ OSTCBCur # Idle /\ OSIntNesting = 0
         /\ OSLockNesting = 0 /\ at[OSTCBCur] = l /\ \A t \in Tcb : ~Deleting(t)
         /\ OSTCBStat[OSTCBCur] = {} /\ OSTCBDly[OSTCBCur] = 0
         /\ OSTCBPrioTbl[OSTCBPrio[OSTCBCur]] = OSTCBCur /\ OSTCBPrio[OSTCBCur] \in OSRdyTbl
  <1>1. /\ OSTCBCur \in Tcb /\ OSTCBCur \in OSTCBList /\ OSIntNesting = 0 /\ at[OSTCBCur] = l
        /\ OSLockNesting \in Nat /\ OSTCBCur # Idle
    BY DEF InTask, SemInv, KernelInv, CoreInv, KernelTypeOK, CurrentKnown, IdleStays
  <1>2. OSLockNesting = 0
    BY <1>1 DEF SemInv, KernelInv, PendInv, NoPendLocked, Pending
  <1>3. OSTCBPrio[OSTCBCur] \in OSRdyTbl
    BY <1>1, <1>2 DEF SemInv, KernelInv, CoreInv, RunsHighest, Settled, HighestIn
  <1>4. \A t \in Tcb : ~Deleting(t)
    BY <1>1 DEF Deleting
  <1> QED BY <1>1, <1>2, <1>3, <1>4 DEF SemInv, KernelInv, CoreInv, ReadyIffNotWaiting, TablesAgree

\* The check that begins OSSemPend keeps SemInv.
LEMMA PendBegins ==
  ASSUME SemInv, NEW e \in Event, NEW n \in Ticks, OSSemPend(e, n) PROVE SemInv'
  <1>1. /\ PlaceTypes /\ Moves({"app"}, "pend") /\ OSIntNesting = 0 /\ at[OSTCBCur] = "app"
        /\ loc'[OSTCBCur].ev = e /\ OSLockNesting = 0 /\ OSTCBCur \in Tcb /\ OSTCBCur # Idle
        /\ UNCHANGED <<OSRdyTbl, OSEventTbl, OSLockNesting, tcbVars, tblVars, cpuVars, ecbVars>>
        /\ err' = [err EXCEPT ![OSTCBCur] = "none"]
        /\ given' = [given EXCEPT ![OSTCBCur] = FALSE]
    BY CheckMoves DEF OSSemPend, Check, TaskCall, Points, SemInv, KernelInv, CoreInv, KernelTypeOK
  <1>2. Moves({"app", "pend", "pendwake"}, "pend")
    BY <1>1 DEF Moves
  <1>3. OSTCBEventPtr[OSTCBCur] = NullEvent
    <2>1. OSTCBCur \in OSTCBList /\ ~Deleting(OSTCBCur) /\ ~Pending(OSTCBCur)
      BY <1>1 DEF Deleting, Pending, SemInv, KernelInv, CoreInv, CurrentKnown
    <2> QED BY <2>1, PendOf
  <1>4. /\ err' \in [Tcb -> {"none", "OS_NO_ERR", "OS_TIMEOUT"}] /\ given' \in [Tcb -> BOOLEAN]
        /\ \A t \in Tcb \ {OSTCBCur} : err'[t] = err[t] /\ given'[t] = given[t]
        /\ err'[OSTCBCur] = "none" /\ given'[OSTCBCur] = FALSE
    BY <1>1 DEF SemInv, KernelInv, SemTypeOK
  <1>5. OSEventCnt' \in [Event -> 0 .. CntMax]
    BY <1>1 DEF SemInv, KernelInv, SemTypeOK, ecbVars
  <1> QED BY <1>1, <1>2, <1>3, <1>4, <1>5, MineKeeps DEF ecbVars

\* A pend that takes a unit, and one that finds it was served, keep SemInv.
LEMMA PendEnds ==
  ASSUME SemInv, OSSemPend_Take \/ OSSemPend_Done PROVE SemInv'
  <1> DEFINE me == OSTCBCur
  <1>1. \E l \in {"pend", "pendwake"} : InTask(l)
    BY DEF OSSemPend_Take, OSSemPend_Done
  <1>2. /\ me \in Tcb /\ me \in OSTCBList /\ OSIntNesting = 0 /\ at[me] \in {"pend", "pendwake"}
        /\ ~Deleting(me) /\ OSTCBStat[me] = {}
    BY <1>1, PenderRuns
  <1>3. OSTCBEventPtr[me] = NullEvent
    <2>1. CASE OSSemPend_Take
      BY <1>2, <2>1, PendOf DEF OSSemPend_Take, InTask, Pending
    <2>2. CASE OSSemPend_Done
      BY <1>2, <2>2, PendOf DEF OSSemPend_Done
    <2> QED BY <2>1, <2>2
  <1>4. /\ Return("app")
        /\ UNCHANGED <<OSRdyTbl, OSEventTbl, OSLockNesting, tcbVars, tblVars, cpuVars,
                       OSEventType, OSEventPtr, OSEventFreeList>>
        /\ err' = [err EXCEPT ![me] = "OS_NO_ERR"]
    <2>1. CASE OSSemPend_Take
      BY <2>1 DEF OSSemPend_Take
    <2>2. CASE OSSemPend_Done
      <3>1. OSTCBEventPtr' = OSTCBEventPtr
        BY <1>2, <1>3, <2>2 DEF OSSemPend_Done, SemInv, KernelInv, CoreInv, KernelTypeOK
      <3> QED BY <2>2, <3>1 DEF OSSemPend_Done, tcbVars, ecbVars
    <2> QED BY <2>1, <2>2
  <1>5. OSEventCnt' \in [Event -> 0 .. CntMax]
    <2>1. CASE OSSemPend_Take
      <3>1. loc[me].ev \in Event
        BY <1>2, <2>1, PendOf DEF OSSemPend_Take, InTask
      <3>2. OSEventCnt[loc[me].ev] \in 0 .. CntMax /\ OSEventCnt \in [Event -> 0 .. CntMax]
        BY <3>1 DEF SemInv, KernelInv, SemTypeOK
      <3> QED BY <2>1, <3>1, <3>2, SemAssumption DEF OSSemPend_Take
    <2>2. CASE OSSemPend_Done
      BY <2>2 DEF OSSemPend_Done, ecbVars, SemInv, KernelInv, SemTypeOK
    <2> QED BY <2>1, <2>2
  <1>6. /\ given' \in [Tcb -> BOOLEAN] /\ given'[me]
        /\ \A t \in Tcb \ {me} : given'[t] = given[t]
    <2>1. CASE OSSemPend_Take
      BY <1>2, <2>1 DEF OSSemPend_Take, SemInv, KernelInv, SemTypeOK
    <2>2. CASE OSSemPend_Done
      <3>1. given[me]
        BY <1>2, <1>3, <2>2, PendOf DEF OSSemPend_Done, InTask, Pending
      <3> QED BY <2>2, <3>1 DEF OSSemPend_Done, SemInv, KernelInv, SemTypeOK
    <2> QED BY <2>1, <2>2
  <1>7. /\ err' \in [Tcb -> {"none", "OS_NO_ERR", "OS_TIMEOUT"}] /\ err'[me] = "OS_NO_ERR"
        /\ \A t \in Tcb \ {me} : err'[t] = err[t]
    BY <1>2, <1>4 DEF SemInv, KernelInv, SemTypeOK
  <1>8. PlaceTypes /\ Moves({"pend", "pendwake"}, "app")
    BY <1>2, <1>4, ReturnMoves DEF SemInv, KernelInv, Points
  <1>9. Moves({"app", "pend", "pendwake"}, "app")
    BY <1>8 DEF Moves
  <1> QED BY <1>2, <1>3, <1>4, <1>5, <1>6, <1>7, <1>8, <1>9, MineKeeps

\* The region that makes the caller of OSSemPend wait keeps SemInv.
LEMMA PendWaits == ASSUME SemInv, OSSemPend_Wait PROVE SemInv'
  <1> DEFINE me == OSTCBCur
             e == loc[me].ev
             p == OSTCBPrio[me]
             n == loc[me].arg
  <1>1. /\ me \in Tcb /\ me \in OSTCBList /\ me # Idle /\ OSIntNesting = 0 /\ OSLockNesting = 0
        /\ at[me] = "pend" /\ (\A t \in Tcb : ~Deleting(t))
        /\ OSTCBStat[me] = {} /\ OSTCBDly[me] = 0 /\ OSTCBPrioTbl[p] = me /\ p \in OSRdyTbl
    BY PenderRuns DEF OSSemPend_Wait, InTask
  <1>2. /\ e \in Event /\ n \in Ticks /\ p \in Prio /\ ~given[me] /\ err[me] = "none"
        /\ OSTCBEventPtr[me] = NullEvent
    <2>1. n \in Ticks /\ p \in Prio
      BY <1>1 DEF SemInv, KernelInv, CoreInv, KernelTypeOK, Locals
    <2> QED BY <1>1, <2>1, PendOf DEF Pending
  <1>3. /\ OSTCBEventPtr' = [OSTCBEventPtr EXCEPT ![me] = e]
        /\ OSRdyTbl' = OSRdyTbl \ {p}
        /\ OSEventTbl' = [OSEventTbl EXCEPT ![e] = @ \cup {p}]
        /\ OSTCBStat' = [OSTCBStat EXCEPT ![me] = {"SEM"}]
        /\ OSTCBPendTO' = [OSTCBPendTO EXCEPT ![me] = FALSE]
        /\ OSTCBDly' = [OSTCBDly EXCEPT ![me] = n]
        /\ at' = [at EXCEPT ![me] = "pendwait"] /\ UNCHANGED served
        /\ UNCHANGED <<OSTCBPrio, OSLockNesting, loc, tblVars, cpuVars, semVars>>
    <2>1. [OSTCBStat EXCEPT ![me] = @ \cup {"SEM"}] = [OSTCBStat EXCEPT ![me] = {"SEM"}]
      BY <1>1 DEF SemInv, KernelInv, CoreInv, KernelTypeOK
    <2> QED BY <1>1, <2>1 DEF OSSemPend_Wait, PendWait, OS_EventTaskWait, Goto
  <1>4. UNCHANGED <<OSTCBPrioTbl, OSTCBList, OSTCBFreeList, OSTCBCur, OSIntNesting, err, given>>
    BY <1>3 DEF tblVars, cpuVars, semVars
  <1> HIDE DEF e, p, n
  <1>5. /\ at'[me] = "pendwait" /\ \A t \in Tcb \ {me} : at'[t] = at[t]
        /\ OSTCBEventPtr'[me] = e /\ OSTCBStat'[me] = {"SEM"} /\ ~OSTCBPendTO'[me]
        /\ \A t \in Tcb \ {me} : /\ OSTCBEventPtr'[t] = OSTCBEventPtr[t]
                                 /\ OSTCBStat'[t] = OSTCBStat[t] /\ OSTCBDly'[t] = OSTCBDly[t]
                                 /\ OSTCBPendTO'[t] = OSTCBPendTO[t]
        /\ OSEventTbl'[e] = OSEventTbl[e] \cup {p}
        /\ \A f \in Event \ {e} : OSEventTbl'[f] = OSEventTbl[f]
    BY <1>1, <1>2, <1>3 DEF SemInv, KernelInv, CoreInv, KernelTypeOK
  <1>6. \A t \in Tcb : ~Deleting(t)'
    BY <1>1, <1>4, <1>5 DEF Deleting
  <1>7. KernelInv'
    <2>1. PlaceTypes /\ Moves(Points, "pendwait")
      BY <1>1, <1>3, <1>5 DEF PlaceTypes, Moves, Points, Label, SemInv, KernelInv, CoreInv, KernelTypeOK
    <2>2. /\ OSRdyTbl' \subseteq Prio /\ OSEventTbl' \in [Event -> SUBSET Prio]
          /\ OSTCBStat' \in [Tcb -> SUBSET Stat] /\ OSTCBDly' \in [Tcb -> Ticks]
          /\ OSTCBPendTO' \in [Tcb -> BOOLEAN]
          /\ OSTCBEventPtr' \in [Tcb -> Event \cup {NullEvent}]
      BY <1>2, <1>3 DEF SemInv, KernelInv, CoreInv, KernelTypeOK, Stat, PendAny
    <2>3. ReadyIffNotWaiting'
      <3> SUFFICES ASSUME NEW t \in OSTCBList, t \in Tcb
                   PROVE  OSTCBPrio[t] \in OSRdyTbl' <=> OSTCBStat'[t] = {} /\ OSTCBDly'[t] = 0
        BY <1>3, <1>4 DEF ReadyIffNotWaiting, SemInv, KernelInv, CoreInv, KernelTypeOK
      <3>1. CASE t = me
        BY <1>3, <1>5, <3>1 DEF p
      <3>2. CASE t # me
        <4>1. OSTCBPrio[t] # p
          BY <1>1, <3>2, OneTaskPerPrio DEF p, SemInv, KernelInv, CoreInv
        <4> QED BY <1>1, <1>3, <1>5, <3>2, <4>1 DEF SemInv, KernelInv, CoreInv, ReadyIffNotWaiting
      <3> QED BY <3>1, <3>2
    <2>4. ReadyIsDispatchable'
      BY <1>3, <1>4, <1>6, TaskOwns
      DEF ReadyIsDispatchable, HasTcb, SemInv, KernelInv, CoreInv, KernelTypeOK
    <2> QED BY <1>1, <1>3, <1>5, <2>1, <2>2, <2>3, <2>4, ServiceSettles DEF SemInv, KernelInv
  <1>8. WaitListExact'
    <2>1. \A f \in Event : \A q \in OSEventTbl[f] :
            /\ HasTcb(q) /\ OSTCBPrioTbl[q] \in Tcb \ {me} /\ OSTCBEventPtr[OSTCBPrioTbl[q]] = f
      BY <1>2, CoreAssumption, TaskOwns DEF SemInv, PendInv, WaitListExact, KernelInv, CoreInv, KernelTypeOK
    <2>2. HasTcb(p)
      BY <1>1, CoreAssumption DEF HasTcb, Tcb, p
    <2>3. \A f \in Event : \A q \in OSEventTbl'[f] : HasTcb(q)' /\ OSTCBEventPtr'[OSTCBPrioTbl[q]] = f
      BY <1>1, <1>4, <1>5, <2>1, <2>2 DEF HasTcb, p
    <2>4. \A t \in OSTCBList : OSTCBEventPtr'[t] # NullEvent
                               => OSTCBPrio[t] \in OSEventTbl'[OSTCBEventPtr'[t]]
      <3> SUFFICES ASSUME NEW t \in OSTCBList, OSTCBEventPtr'[t] # NullEvent
                   PROVE  OSTCBPrio[t] \in OSEventTbl'[OSTCBEventPtr'[t]]
        OBVIOUS
      <3>0. t \in Tcb
        BY DEF SemInv, KernelInv, CoreInv, KernelTypeOK
      <3>1. CASE t = me
        BY <1>5, <3>1 DEF p
      <3>2. CASE t # me
        <4>1. OSTCBPrio[t] \in OSEventTbl[OSTCBEventPtr[t]] /\ OSTCBEventPtr[t] \in Event
          BY <1>1, <1>5, <3>0, <3>2, PendOf
        <4> QED BY <1>5, <3>0, <3>2, <4>1
      <3> QED BY <3>1, <3>2
    <2> QED BY <1>3, <1>4, <2>3, <2>4 DEF WaitListExact
  <1>9. PendExact'
    <2> SUFFICES ASSUME NEW u \in OSTCBList, u \in Tcb
        PROVE /\ OSTCBStat'[u] \subseteq {"SEM", "SUSPEND"}
              /\ OSTCBEventPtr'[u] # NullEvent <=> OSTCBPendTO'[u] \/ "SEM" \in OSTCBStat'[u]
              /\ OSTCBEventPtr'[u] # NullEvent => Pending(u)' /\ loc[u].ev = OSTCBEventPtr'[u]
              /\ OSTCBPendTO'[u] => OSTCBDly'[u] = 0
              /\ Pending(u)' => (given[u] <=> OSTCBEventPtr'[u] = NullEvent) /\ err[u] = "none"
              /\ at'[u] = "pend" => ~given[u] /\ err[u] = "none" /\ loc[u].ev \in Event
      BY <1>3, <1>4 DEF PendExact, SemInv, KernelInv, CoreInv, KernelTypeOK
    <2>1. CASE u = me
      BY <1>2, <1>5, <2>1, CoreAssumption DEF Pending, e
    <2>2. CASE u # me
      <3>1. ~Deleting(u)
        BY <1>1
      <3> QED BY <1>5, <2>2, <3>1, PendOf DEF Pending
    <2> QED BY <2>1, <2>2
  <1>10. WaitersStay'
    BY <1>4, <1>6, <1>8, TaskOwns, <1>7 DEF WaitersStay, WaitListExact, HasTcb, KernelInv, CoreInv, KernelTypeOK, TablesAgree
  <1>11. NewTcbsClean'
    <2>1. \A u \in Tcb : at'[u] = "tcblink" => at[u] = "tcblink" /\ loc[u].tcb \in Tcb \ {me}
      BY <1>1, <1>5 DEF SemInv, KernelInv, CoreInv, KernelTypeOK, CreationsApart, Locals
    <2> QED BY <1>3, <1>5, <2>1 DEF SemInv, KernelInv, PendInv, NewTcbsClean
  <1>12. OthersOutside' /\ NoneMade' /\ NoPendLocked'
    BY <1>1, <1>3, <1>4, <1>5 DEF SemInv, KernelInv, PendInv, OthersOutside, NoneMade, NoPendLocked
  <1>13. SemTypeOK' /\ PendTellsTruth'
    BY <1>3, <1>7 DEF SemInv, SemTypeOK, PendTellsTruth, KernelInv, CoreInv, semVars, ecbVars
  <1> QED BY <1>7, <1>8, <1>9, <1>10, <1>11, <1>12, <1>13 DEF SemInv, KernelInv, PendInv

\* The region of a pend that timed out keeps SemInv: nobody has given it a unit.
LEMMA PendTimesOut == ASSUME SemInv, OSSemPend_Timeout PROVE SemInv'
  <1> DEFINE me == OSTCBCur
             e == loc[me].ev
             p == OSTCBPrio[me]
  <1>1. /\ me \in Tcb /\ me \in OSTCBList /\ me # Idle /\ OSIntNesting = 0 /\ OSLockNesting = 0
        /\ at[me] = "pendwake" /\ (\A t \in Tcb : ~Deleting(t))
        /\ OSTCBStat[me] = {} /\ OSTCBDly[me] = 0 /\ OSTCBPrioTbl[p] = me /\ p \in OSRdyTbl
        /\ OSTCBPendTO[me]
    BY PenderRuns DEF OSSemPend_Timeout, InTask
  <1>2. /\ e \in Event /\ p \in Prio /\ ~given[me] /\ OSTCBEventPtr[me] = e
    <2>1. p \in Prio
      BY <1>1 DEF SemInv, KernelInv, CoreInv, KernelTypeOK
    <2> QED BY <1>1, <2>1, PendOf
  <1>3. /\ OSTCBEventPtr' = [OSTCBEventPtr EXCEPT ![me] = NullEvent]
        /\ OSEventTbl' = [OSEventTbl EXCEPT ![e] = @ \ {p}]
        /\ OSTCBStat' = OSTCBStat
        /\ OSTCBPendTO' = [OSTCBPendTO EXCEPT ![me] = FALSE]
        /\ err' = [err EXCEPT ![me] = "OS_TIMEOUT"]
        /\ Return("app")
        /\ UNCHANGED <<OSRdyTbl, OSLockNesting, OSTCBPrio, OSTCBDly, tblVars, cpuVars,
                       ecbVars, given>>
    <2>1. [OSTCBStat EXCEPT ![me] = {}] = OSTCBStat
      BY <1>1 DEF SemInv, KernelInv, CoreInv, KernelTypeOK
    <2> QED BY <1>1, <2>1 DEF OSSemPend_Timeout, OS_EventTO
  <1>4. UNCHANGED <<OSTCBPrioTbl, OSTCBList, OSTCBFreeList, OSTCBCur, OSIntNesting>>
    BY <1>3 DEF tblVars, cpuVars
  <1> HIDE DEF e, p
  <1>5. PlaceTypes /\ Moves({"pendwake"}, "app")
    BY <1>1, <1>3, ReturnMoves DEF SemInv, KernelInv, Points
  <1>6. /\ at'[me] = "app" /\ \A t \in Tcb \ {me} : at'[t] = at[t] /\ loc'[t] = loc[t]
        /\ OSTCBEventPtr'[me] = NullEvent /\ ~OSTCBPendTO'[me]
        /\ \A t \in Tcb \ {me} : /\ OSTCBEventPtr'[t] = OSTCBEventPtr[t]
                                 /\ OSTCBPendTO'[t] = OSTCBPendTO[t] /\ err'[t] = err[t]
        /\ err'[me] = "OS_TIMEOUT"
        /\ OSEventTbl'[e] = OSEventTbl[e] \ {p}
        /\ \A f \in Event \ {e} : OSEventTbl'[f] = OSEventTbl[f]
    BY <1>1, <1>2, <1>3, <1>5 DEF Moves, SemInv, SemTypeOK, KernelInv, CoreInv, KernelTypeOK
  <1>7. \A t \in Tcb : ~Deleting(t)'
    BY <1>1, <1>4, <1>6 DEF Deleting
  <1>8. KernelInv'
    <2>1. Moves(Points, "app")
      BY <1>5 DEF Moves, Points
    <2>2. /\ OSEventTbl' \in [Event -> SUBSET Prio]
          /\ OSTCBPendTO' \in [Tcb -> BOOLEAN]
          /\ OSTCBEventPtr' \in [Tcb -> Event \cup {NullEvent}]
      BY <1>2, <1>3 DEF SemInv, KernelInv, CoreInv, KernelTypeOK
    <2>3. ReadyIffNotWaiting' /\ ReadyIsDispatchable'
      BY <1>1, <1>3, <1>4, <1>7, TaskOwns
      DEF ReadyIffNotWaiting, ReadyIsDispatchable, HasTcb, SemInv, KernelInv, CoreInv, KernelTypeOK
    <2> QED BY <1>3, <1>5, <2>1, <2>2, <2>3, ServiceSettles DEF SemInv, KernelInv, CoreInv, KernelTypeOK, Points
  <1>9. WaitListExact'
    <2>1. \A f \in Event : \A q \in OSEventTbl'[f] :
            /\ q \in OSEventTbl[f] /\ q # p
            /\ HasTcb(q) /\ OSTCBPrioTbl[q] \in Tcb \ {me} /\ OSTCBEventPtr[OSTCBPrioTbl[q]] = f
      <3> SUFFICES ASSUME NEW f \in Event, NEW q \in OSEventTbl'[f]
                   PROVE  /\ q \in OSEventTbl[f] /\ q # p
                          /\ HasTcb(q) /\ OSTCBPrioTbl[q] \in Tcb \ {me}
                          /\ OSTCBEventPtr[OSTCBPrioTbl[q]] = f
        OBVIOUS
      <3>1. q \in OSEventTbl[f] /\ (f = e => q # p)
        BY <1>6
      <3>2. /\ q \in Prio /\ HasTcb(q) /\ OSTCBPrioTbl[q] \in Tcb /\ OSTCBEventPtr[OSTCBPrioTbl[q]] = f
            /\ OSTCBPrio[OSTCBPrioTbl[q]] = q
        BY <3>1, TaskOwns DEF SemInv, PendInv, WaitListExact, KernelInv, CoreInv, KernelTypeOK
      <3>3. OSTCBPrioTbl[q] # me
        BY <1>2, <3>1, <3>2 DEF p
      <3> QED BY <1>1, <3>1, <3>2, <3>3
    <2>2. \A f \in Event : \A q \in OSEventTbl'[f] : HasTcb(q)' /\ OSTCBEventPtr'[OSTCBPrioTbl[q]] = f
      BY <1>4, <1>6, <2>1 DEF HasTcb
    <2>3. \A t \in OSTCBList : OSTCBEventPtr'[t] # NullEvent
                               => OSTCBPrio[t] \in OSEventTbl'[OSTCBEventPtr'[t]]
      <3> SUFFICES ASSUME NEW t \in OSTCBList, OSTCBEventPtr'[t] # NullEvent
                   PROVE  OSTCBPrio[t] \in OSEventTbl'[OSTCBEventPtr'[t]]
        OBVIOUS
      <3>1. t \in Tcb /\ t # me
        BY <1>6 DEF SemInv, KernelInv, CoreInv, KernelTypeOK
      <3>2. OSTCBPrio[t] # p
        BY <1>1, <3>1, OneTaskPerPrio DEF p, SemInv, KernelInv, CoreInv
      <3>3. OSTCBPrio[t] \in OSEventTbl[OSTCBEventPtr[t]] /\ OSTCBEventPtr[t] \in Event
        BY <1>1, <1>6, <3>1, PendOf
      <3> QED BY <1>6, <3>1, <3>2, <3>3
    <2> QED BY <1>3, <1>4, <2>2, <2>3 DEF WaitListExact
  <1>10. PendExact'
    <2> SUFFICES ASSUME NEW u \in OSTCBList, u \in Tcb, ~Deleting(u)
        PROVE /\ OSTCBStat[u] \subseteq {"SEM", "SUSPEND"}
              /\ OSTCBEventPtr'[u] # NullEvent <=> OSTCBPendTO'[u] \/ "SEM" \in OSTCBStat[u]
              /\ OSTCBEventPtr'[u] # NullEvent => Pending(u)' /\ loc'[u].ev = OSTCBEventPtr'[u]
              /\ OSTCBPendTO'[u] => OSTCBDly[u] = 0
              /\ Pending(u)' => (given[u] <=> OSTCBEventPtr'[u] = NullEvent) /\ err'[u] = "none"
              /\ at'[u] = "pend" => ~given[u] /\ err'[u] = "none" /\ loc'[u].ev \in Event
      BY <1>1, <1>3, <1>4 DEF PendExact, SemInv, KernelInv, CoreInv, KernelTypeOK
    <2>1. CASE u = me
      BY <1>1, <1>4, <1>6, <2>1 DEF Pending
    <2>2. CASE u # me
      BY <1>6, <2>2, PendOf DEF Pending
    <2> QED BY <2>1, <2>2
  <1>11. WaitersStay'
    BY <1>4, <1>7, <1>8, <1>9 DEF WaitersStay, WaitListExact, HasTcb, KernelInv, CoreInv, KernelTypeOK
  <1>12. NewTcbsClean'
    <2>1. \A u \in Tcb : at'[u] = "tcblink" =>
            at[u] = "tcblink" /\ loc'[u] = loc[u] /\ loc[u].tcb \in Tcb \ {me}
      BY <1>1, <1>6 DEF SemInv, KernelInv, CoreInv, KernelTypeOK, CreationsApart, Locals
    <2> QED BY <1>6, <2>1 DEF SemInv, KernelInv, PendInv, NewTcbsClean
  <1>13. OthersOutside' /\ NoneMade' /\ NoPendLocked'
    BY <1>1, <1>3, <1>4, <1>6 DEF SemInv, KernelInv, PendInv, OthersOutside, NoneMade, NoPendLocked
  <1>14. SemTypeOK' /\ PendTellsTruth'
    <2>1. err' \in [Tcb -> {"none", "OS_NO_ERR", "OS_TIMEOUT"}]
      BY <1>3 DEF SemInv, KernelInv, SemTypeOK
    <2>2. PendTellsTruth'
      BY <1>2, <1>3, <1>6 DEF SemInv, KernelInv, PendTellsTruth
    <2> QED BY <1>3, <1>8, <2>1, <2>2 DEF SemInv, SemTypeOK, KernelInv, CoreInv, ecbVars
  <1> QED BY <1>8, <1>9, <1>10, <1>11, <1>12, <1>13, <1>14 DEF SemInv, KernelInv, PendInv

\* OSSemPost with a task waiting keeps SemInv: the task it serves is one that waits
\* for this semaphore and has been given nothing, be it timed out or suspended.
LEMMA PostServes == ASSUME SemInv, NEW e \in Event, OSSemPost_Serve(e) PROVE SemInv'
  <1> PICK p \in OSEventTbl[e] : /\ HighestIn(p, OSEventTbl[e])
                                 /\ OS_EventTaskRdy(e, {p}, "SEM")
                                 /\ given' = [given EXCEPT ![OSTCBPrioTbl[p]] = TRUE]
    BY DEF OSSemPost_Serve
  <1> DEFINE t == OSTCBPrioTbl[p]
             me == OSTCBCur
             free == OSTCBStat[t] \subseteq {"SEM"}
  <1>1. /\ p \in Prio /\ HasTcb(p) /\ t \in Tcb /\ t \in OSTCBList /\ OSTCBPrio[t] = p
        /\ OSTCBEventPtr[t] = e /\ ~Deleting(t)
    BY TaskOwns DEF SemInv, PendInv, WaitListExact, WaitersStay, KernelInv, CoreInv, KernelTypeOK
  <1>2. /\ Pending(t) /\ loc[t].ev = e /\ ~given[t] /\ err[t] = "none"
        /\ OSTCBStat[t] \subseteq {"SEM", "SUSPEND"}
    BY <1>1, PendOf, CoreAssumption
  <1>3. /\ OSEventTbl' = [OSEventTbl EXCEPT ![e] = @ \ {p}]
        /\ OSTCBDly' = [u \in Tcb |-> IF u = t THEN 0 ELSE OSTCBDly[u]]
        /\ OSTCBEventPtr' = [u \in Tcb |-> IF u = t THEN NullEvent ELSE OSTCBEventPtr[u]]
        /\ OSTCBPendTO' = [u \in Tcb |-> IF u = t THEN FALSE ELSE OSTCBPendTO[u]]
        /\ OSTCBStat' = [u \in Tcb |-> IF u = t THEN OSTCBStat[u] \ {"SEM"} ELSE OSTCBStat[u]]
        /\ OSRdyTbl' = OSRdyTbl \cup (IF free THEN {p} ELSE {})
        /\ given' = [given EXCEPT ![t] = TRUE]
        /\ Return("sched") /\ (OSIntNesting = 0 => at[me] = "post")
        /\ UNCHANGED <<OSTCBPrio, OSLockNesting, tblVars, cpuVars, ecbVars, err>>
    <2>1. {OSTCBPrioTbl[q] : q \in {p}} = {t}
      OBVIOUS
    <2>2. {q \in {p} : OSTCBStat[OSTCBPrioTbl[q]] \subseteq {"SEM"}} = IF free THEN {p} ELSE {}
      OBVIOUS
    <2>3. /\ OSEventTbl' = [OSEventTbl EXCEPT ![e] = @ \ {p}]
          /\ OSTCBDly' = [u \in Tcb |-> IF u \in {t} THEN 0 ELSE OSTCBDly[u]]
          /\ OSTCBEventPtr' = [u \in Tcb |-> IF u \in {t} THEN NullEvent ELSE OSTCBEventPtr[u]]
          /\ OSTCBPendTO' = [u \in Tcb |-> IF u \in {t} THEN FALSE ELSE OSTCBPendTO[u]]
          /\ OSTCBStat' = [u \in Tcb |-> IF u \in {t} THEN OSTCBStat[u] \ {"SEM"} ELSE OSTCBStat[u]]
          /\ OSRdyTbl' = OSRdyTbl \cup (IF free THEN {p} ELSE {})
      BY <2>1, <2>2, Zenon DEF OS_EventTaskRdy, EventTaskRdy
    <2>4. /\ Return("sched") /\ (OSIntNesting = 0 => at[me] = "post")
          /\ UNCHANGED <<OSTCBPrio, OSLockNesting, tblVars, cpuVars, ecbVars, err>>
      BY DEF OSSemPost_Serve, OS_EventTaskRdy, Runs, InTask, IsrCall, SemInv, KernelInv, CoreInv, KernelTypeOK
    <2>5. \A u : u \in {t} <=> u = t
      OBVIOUS
    <2>6. given' = [given EXCEPT ![t] = TRUE]
      OBVIOUS
    <2> HIDE DEF t, free
    <2> QED BY <2>3, <2>4, <2>5, <2>6
  <1>4. UNCHANGED <<OSTCBPrioTbl, OSTCBList, OSTCBFreeList, OSTCBCur, OSIntNesting>>
    BY <1>3 DEF tblVars, cpuVars
  <1>5. PlaceTypes /\ Moves({"post"}, "sched") /\ me \in Tcb
    BY <1>3, ReturnMoves DEF SemInv, KernelInv, Points
  <1> HIDE DEF t
  <1>6. /\ OSTCBEventPtr'[t] = NullEvent /\ OSTCBDly'[t] = 0
        /\ OSTCBStat'[t] = OSTCBStat[t] \ {"SEM"}
        /\ \A u \in Tcb \ {t} : /\ OSTCBEventPtr'[u] = OSTCBEventPtr[u]
                                /\ OSTCBStat'[u] = OSTCBStat[u] /\ OSTCBDly'[u] = OSTCBDly[u]
        /\ OSEventTbl'[e] = OSEventTbl[e] \ {p}
        /\ \A f \in Event \ {e} : OSEventTbl'[f] = OSEventTbl[f]
    BY <1>1, <1>3 DEF SemInv, KernelInv, CoreInv, KernelTypeOK
  <1>16. ~OSTCBPendTO'[t] /\ \A u \in Tcb \ {t} : OSTCBPendTO'[u] = OSTCBPendTO[u]
    BY <1>1, <1>3, Zenon
  <1>17. given'[t] /\ \A u \in Tcb \ {t} : given'[u] = given[u]
    BY <1>1, <1>3 DEF SemInv, KernelInv, SemTypeOK
  <1>7. /\ \A u \in Tcb : at[u] \notin {"post"} => at'[u] = at[u] /\ loc'[u] = loc[u]
        /\ \A u \in Tcb : at[u] = "post" => at'[u] \in {"post", "sched"}
    BY <1>5 DEF Moves
  <1>8. \A u \in Tcb : Deleting(u)' <=> Deleting(u)
    BY <1>4, <1>5, <1>7 DEF Deleting
  <1>9. KernelInv'
    <2>1. Moves(Points, "sched")
      BY <1>5 DEF Moves, Points
    <2>2. /\ OSEventTbl' \in [Event -> SUBSET Prio] /\ OSRdyTbl' \subseteq Prio
          /\ OSTCBEventPtr' \in [Tcb -> Event \cup {NullEvent}]
          /\ OSTCBStat' \in [Tcb -> SUBSET Stat]
      BY <1>1, <1>3 DEF SemInv, KernelInv, CoreInv, KernelTypeOK
    <2>3. OSTCBPendTO' \in [Tcb -> BOOLEAN]
      BY <1>3, Zenon DEF SemInv, KernelInv, CoreInv, KernelTypeOK
    <2>4. OSTCBDly' \in [Tcb -> Ticks]
      BY <1>3, CoreAssumption DEF SemInv, KernelInv, CoreInv, KernelTypeOK, Ticks
    <2>5. ReadyIffNotWaiting'
      <3> SUFFICES ASSUME NEW u \in OSTCBList, u \in Tcb, ~Deleting(u)
                   PROVE  OSTCBPrio[u] \in OSRdyTbl' <=> OSTCBStat'[u] = {} /\ OSTCBDly'[u] = 0
        BY <1>3, <1>4, <1>8 DEF ReadyIffNotWaiting, SemInv, KernelInv, CoreInv, KernelTypeOK
      <3>0. OSTCBPrio[u] \in OSRdyTbl <=> OSTCBStat[u] = {} /\ OSTCBDly[u] = 0
        BY DEF SemInv, KernelInv, CoreInv, ReadyIffNotWaiting
      <3>1. CASE u = t
        BY <1>1, <1>3, <1>6, <3>0, <3>1
      <3>2. CASE u # t
        <4>1. OSTCBPrio[u] # p
          BY <1>1, <3>2, OneTaskPerPrio DEF SemInv, KernelInv, CoreInv
        <4> QED BY <1>3, <1>6, <3>0, <3>2, <4>1
      <3> QED BY <3>1, <3>2
    <2>6. ReadyIsDispatchable'
      <3>1. t \notin OSTCBFreeList
        BY <1>1 DEF SemInv, KernelInv, CoreInv, TablesAgree
      <3>2. \A q \in OSRdyTbl' : /\ q \in Prio /\ HasTcb(q) /\ ~Deleting(OSTCBPrioTbl[q])
                                 /\ OSTCBPrioTbl[q] \notin OSTCBFreeList
        BY <1>1, <1>3, <3>1 DEF t, SemInv, KernelInv, CoreInv, KernelTypeOK, ReadyIsDispatchable
      <3>3. \A q \in OSRdyTbl' : OSTCBPrioTbl[q] \in Tcb /\ OSTCBPrio[OSTCBPrioTbl[q]] = q
        BY <3>2, TaskOwns DEF SemInv, KernelInv
      <3>4. \A q \in OSRdyTbl' : /\ HasTcb(q)' /\ OSTCBPrioTbl'[q] \notin OSTCBFreeList'
                                 /\ OSTCBPrio'[OSTCBPrioTbl'[q]] = q
        BY <1>3, <1>4, <3>2, <3>3 DEF HasTcb
      <3>5. \A q \in OSRdyTbl' : ~Deleting(OSTCBPrioTbl[q])'
        BY <1>4, <1>8, <3>2, <3>3
      <3>6. UNCHANGED <<OSTCBPrioTbl, OSTCBFreeList>>
        BY <1>4
      <3> QED BY <3>4, <3>5, <3>6 DEF ReadyIsDispatchable
    <2>7. \A u \in Tcb : Deleting(u) \/ u \notin OSTCBList =>
            OSTCBStat'[u] = OSTCBStat[u] /\ OSTCBDly'[u] = OSTCBDly[u]
      BY <1>1, <1>6
    <2>8. KernelInv /\ UNCHANGED <<OSTCBPrio, OSLockNesting, tblVars, cpuVars>>
      BY <1>3 DEF SemInv, KernelInv
    <2> QED BY <1>5, <2>1, <2>2, <2>3, <2>4, <2>5, <2>6, <2>7, <2>8, ServiceSettles
  <1>10. \A f \in Event : \A q \in OSEventTbl'[f] :
            /\ q \in OSEventTbl[f] /\ q # p /\ OSTCBPrioTbl[q] # t
            /\ HasTcb(q) /\ OSTCBPrioTbl[q] \in Tcb /\ OSTCBEventPtr[OSTCBPrioTbl[q]] = f
            /\ ~Deleting(OSTCBPrioTbl[q])
    <2> SUFFICES ASSUME NEW f \in Event, NEW q \in OSEventTbl'[f]
                 PROVE  /\ q \in OSEventTbl[f] /\ q # p /\ OSTCBPrioTbl[q] # t
                        /\ HasTcb(q) /\ OSTCBPrioTbl[q] \in Tcb
                        /\ OSTCBEventPtr[OSTCBPrioTbl[q]] = f /\ ~Deleting(OSTCBPrioTbl[q])
      OBVIOUS
    <2>1. q \in OSEventTbl[f] /\ (f = e => q # p)
      BY <1>6
    <2>2. /\ q \in Prio /\ HasTcb(q) /\ OSTCBPrioTbl[q] \in Tcb /\ OSTCBEventPtr[OSTCBPrioTbl[q]] = f
          /\ OSTCBPrio[OSTCBPrioTbl[q]] = q /\ ~Deleting(OSTCBPrioTbl[q])
      BY <2>1, TaskOwns DEF SemInv, PendInv, WaitListExact, WaitersStay, KernelInv, CoreInv, KernelTypeOK
    <2>3. OSTCBPrioTbl[q] # t
      BY <1>1, <2>1, <2>2
    <2> QED BY <2>1, <2>2, <2>3 DEF t
  <1>11. WaitListExact' /\ WaitersStay'
    <2>1. \A f \in Event : \A q \in OSEventTbl'[f] : HasTcb(q)' /\ OSTCBEventPtr'[OSTCBPrioTbl'[q]] = f
      BY <1>4, <1>6, <1>10 DEF HasTcb
    <2>2. \A u \in OSTCBList : OSTCBEventPtr'[u] # NullEvent /\ ~Deleting(u)
                               => OSTCBPrio[u] \in OSEventTbl'[OSTCBEventPtr'[u]]
      <3> SUFFICES ASSUME NEW u \in OSTCBList, OSTCBEventPtr'[u] # NullEvent, ~Deleting(u)
                   PROVE  OSTCBPrio[u] \in OSEventTbl'[OSTCBEventPtr'[u]]
        OBVIOUS
      <3>1. u \in Tcb /\ u # t
        BY <1>6 DEF SemInv, KernelInv, CoreInv, KernelTypeOK
      <3>2. OSTCBPrio[u] # p
        BY <1>1, <3>1, OneTaskPerPrio DEF SemInv, KernelInv, CoreInv
      <3>3. OSTCBPrio[u] \in OSEventTbl[OSTCBEventPtr[u]] /\ OSTCBEventPtr[u] \in Event
        BY <1>6, <3>1, PendOf
      <3> QED BY <1>6, <3>1, <3>2, <3>3
    <2>3. WaitListExact'
      BY <1>3, <1>4, <1>8, <2>1, <2>2 DEF WaitListExact, SemInv, KernelInv, CoreInv, KernelTypeOK
    <2>4. WaitersStay'
      BY <1>4, <1>8, <1>10 DEF WaitersStay
    <2> QED BY <2>3, <2>4
  <1>12. PendExact'
    <2> SUFFICES ASSUME NEW u \in OSTCBList, u \in Tcb, ~Deleting(u)
        PROVE /\ OSTCBStat'[u] \subseteq {"SEM", "SUSPEND"}
              /\ OSTCBEventPtr'[u] # NullEvent <=> OSTCBPendTO'[u] \/ "SEM" \in OSTCBStat'[u]
              /\ OSTCBEventPtr'[u] # NullEvent => Pending(u)' /\ loc'[u].ev = OSTCBEventPtr'[u]
              /\ OSTCBPendTO'[u] => OSTCBDly'[u] = 0
              /\ Pending(u)' => (given'[u] <=> OSTCBEventPtr'[u] = NullEvent) /\ err[u] = "none"
              /\ at'[u] = "pend" => ~given'[u] /\ err[u] = "none" /\ loc'[u].ev \in Event
      BY <1>3, <1>4, <1>8 DEF PendExact, SemInv, KernelInv, CoreInv, KernelTypeOK
    <2>1. CASE u = t
      <3>1. at'[t] # "pend"
        BY <1>1, <1>2, <1>7 DEF Pending
      <3>2. OSTCBStat'[t] \subseteq {"SEM", "SUSPEND"} /\ "SEM" \notin OSTCBStat'[t]
        BY <1>2, <1>6
      <3> QED BY <1>2, <1>6, <1>16, <1>17, <2>1, <3>1, <3>2
    <2>2. CASE u # t
      <3>1. CASE at[u] = "post"
        <4>1. ~Pending(u) /\ ~Pending(u)' /\ at'[u] # "pend"
          BY <1>7, <3>1 DEF Pending
        <4>2. /\ OSTCBStat[u] \subseteq {"SEM", "SUSPEND"}
              /\ OSTCBEventPtr[u] # NullEvent <=> OSTCBPendTO[u] \/ "SEM" \in OSTCBStat[u]
              /\ OSTCBEventPtr[u] # NullEvent => Pending(u)
              /\ OSTCBPendTO[u] => OSTCBDly[u] = 0
          BY PendOf, Zenon
        <4> QED BY <1>6, <1>16, <2>2, <4>1, <4>2
      <3>2. CASE at[u] # "post"
        <4>1. /\ OSTCBStat[u] \subseteq {"SEM", "SUSPEND"}
              /\ OSTCBEventPtr[u] # NullEvent <=> OSTCBPendTO[u] \/ "SEM" \in OSTCBStat[u]
              /\ OSTCBEventPtr[u] # NullEvent => Pending(u) /\ loc[u].ev = OSTCBEventPtr[u]
              /\ OSTCBPendTO[u] => OSTCBDly[u] = 0
              /\ Pending(u) => (given[u] <=> OSTCBEventPtr[u] = NullEvent) /\ err[u] = "none"
              /\ at[u] = "pend" => ~given[u] /\ err[u] = "none" /\ loc[u].ev \in Event
          BY PendOf, Zenon
        <4>2. at'[u] = at[u] /\ loc'[u] = loc[u] /\ (Pending(u)' <=> Pending(u))
          BY <1>7, <3>2 DEF Pending
        <4>3. OSTCBStat'[u] = OSTCBStat[u] /\ OSTCBEventPtr'[u] = OSTCBEventPtr[u]
              /\ OSTCBPendTO'[u] = OSTCBPendTO[u] /\ OSTCBDly'[u] = OSTCBDly[u]
              /\ given'[u] = given[u]
          BY <1>6, <1>16, <1>17, <2>2
        <4> QED BY <4>1, <4>2, <4>3
      <3> QED BY <3>1, <3>2
    <2> QED BY <2>1, <2>2
  <1>13. NewTcbsClean'
    <2>1. \A u \in Tcb : at'[u] = "tcblink" =>
            at[u] = "tcblink" /\ loc'[u] = loc[u] /\ loc[u].tcb \in Tcb \ {t}
      BY <1>1, <1>7 DEF SemInv, KernelInv, CoreInv, KernelTypeOK, CreationsApart, Locals
    <2> QED BY <1>6, <1>16, <2>1 DEF SemInv, KernelInv, PendInv, NewTcbsClean
  <1>14. OthersOutside' /\ NoneMade' /\ NoPendLocked'
    BY <1>3, <1>4, <1>5, <1>7 DEF SemInv, KernelInv, PendInv, OthersOutside, NoneMade, NoPendLocked, Pending
  <1>15. SemTypeOK' /\ PendTellsTruth'
    <2>1. given' \in [Tcb -> BOOLEAN]
      BY <1>3 DEF SemInv, KernelInv, SemTypeOK
    <2>2. PendTellsTruth'
      BY <1>2, <1>3, <1>17 DEF SemInv, KernelInv, PendTellsTruth
    <2> QED BY <1>3, <1>9, <2>1, <2>2 DEF SemInv, SemTypeOK, KernelInv, CoreInv, ecbVars
  <1> QED BY <1>9, <1>11, <1>12, <1>13, <1>14, <1>15 DEF SemInv, KernelInv, PendInv

---------------------------------------------------------------------------
\* Every step of the semaphores keeps SemInv.
LEMMA SemStepKeeps == ASSUME SemInv, SemSafeUse, SemStep PROVE SemInv'
  <1>1. /\ ~OSSemCreate_Init /\ \A n \in Counts : ~OSSemCreate(n)
        /\ \A e \in Event : ~OSSemDel_NoPend(e) /\ ~OSSemDel_Always(e)
        /\ \A e \in Event : /\ ~Check("OSSemDel", "SEM", e, "del", 0)
                            /\ ~Check("OSSemDelAlways", "SEM", e, "delalways", 0)
    <2>1. at[OSTCBCur] \notin {"create", "del", "delalways"}
      BY DEF SemInv, PendInv, NoneMade, KernelInv, CoreInv, KernelTypeOK
    <2> QED BY <2>1 DEF OSSemCreate_Init, OSSemCreate, OSSemDel_NoPend, OSSemDel_Always, Check,
                        TaskCall, InTask, SemSafeUse
  <1>2. CASE PendStep
    BY <1>2, PendEnds, PendWaits, PendTimesOut DEF PendStep
  <1>3. ASSUME NEW e \in Event,
               \/ \E n \in Ticks : OSSemPend(e, n)
               \/ Check("OSSemPost", "SEM", e, "post", 0) /\ UNCHANGED <<err, given>>
               \/ Check("OSSemAccept", "SEM", e, "accept", 0) /\ UNCHANGED <<err, given>>
               \/ \E n \in Counts : Check("OSSemSet", "SEM", e, "set", n) /\ UNCHANGED <<err, given>>
        PROVE  SemInv'
    <2>1. 0 \in Ticks /\ Counts \subseteq Ticks
      BY CoreAssumption DEF Ticks, Counts
    <2> QED BY <1>3, <2>1, PendBegins, ChecksKeep
  <1>4. ASSUME NEW e \in Event,
               \/ OSSemPost_Serve(e) \/ OSSemPost_Count(e) \/ OSSemAccept(e)
               \/ \E n \in Counts : OSSemSet(e, n)
        PROVE  SemInv'
    <2>1. 0 \in Counts
      BY CoreAssumption, SemAssumption DEF Ticks, Counts
    <2> QED BY <1>4, <2>1, PostServes, CountsKeep
  <1> QED BY <1>1, <1>2, <1>3, <1>4 DEF SemStep

\* A stuttering step keeps SemInv.
LEMMA SemStutters == ASSUME SemInv, UNCHANGED vars PROVE SemInv'
  <1>1. KernelInv'
    <2>1. [KernelStep]_coreVars
      BY DEF vars
    <2>2. UNCHANGED coreVars
      BY DEF vars
    <2> QED BY <2>2, StutterKeeps DEF SemInv, KernelInv, Kept, Inherits
  <1>2. /\ UNCHANGED <<OSTCBPrio, OSTCBEventPtr, OSTCBStat, OSTCBPendTO, OSTCBDly, OSEventTbl,
                       OSTCBList, OSTCBPrioTbl, OSTCBCur, OSLockNesting, at, loc, err, given>>
        /\ UNCHANGED semVars
    BY DEF vars, coreVars, tcbVars, tblVars, cpuVars, semVars
  <1>3. (\A t \in Tcb : Deleting(t)' <=> Deleting(t)) /\ NoPendLocked'
    BY <1>2 DEF Deleting, NoPendLocked, Pending, SemInv, KernelInv, PendInv
  <1>4. PendInv'
    BY <1>1, <1>2, <1>3, PendSame
  <1>5. SemTypeOK' /\ PendTellsTruth'
    BY <1>1, <1>2 DEF SemInv, SemTypeOK, PendTellsTruth, KernelInv, CoreInv, semVars, ecbVars
  <1> QED BY <1>1, <1>4, <1>5 DEF SemInv, KernelInv

\* The blocks made before OSStart, and the list of the free ones, have their types.
LEMMA EventInitTypes ==
  ASSUME SemInit
  PROVE  /\ OSEventType \in [Event -> {"SEM", "UNUSED"}] /\ OSEventCnt \in [Event -> 0 .. CntMax]
         /\ OSEventPtr \in [Event -> Event \cup {NullEvent}]
         /\ OSEventFreeList \in Event \cup {NullEvent}
         /\ OSEventPtr = [e \in Event |-> OSEventPtr[e]]
  <1> DEFINE type == [e \in DOMAIN InitCnt |-> "SEM"]
             free == Event \ DOMAIN type
  <1>1. EventInit(type, InitCnt)
    BY DEF SemInit
  <1>2. DOMAIN type = DOMAIN InitCnt /\ \A e \in DOMAIN InitCnt : type[e] = "SEM"
    OBVIOUS
  <1> HIDE DEF type
  <1>3. OSEventType \in [Event -> {"SEM", "UNUSED"}]
    BY <1>1, <1>2 DEF EventInit
  <1>4. OSEventCnt \in [Event -> 0 .. CntMax]
    BY <1>1, <1>2, SemAssumption DEF EventInit
  <1> PICK rank \in [free -> 1 .. Cardinality(free)] :
         /\ \A e, f \in free : rank[e] = rank[f] => e = f
         /\ OSEventPtr = [e \in Event |->
              IF \E f \in free : e \in free /\ rank[f] = rank[e] + 1
              THEN CHOOSE f \in free : rank[f] = rank[e] + 1 ELSE NullEvent]
         /\ OSEventFreeList = IF free = {} THEN NullEvent ELSE CHOOSE e \in free : rank[e] = 1
    BY <1>1 DEF EventInit
  <1>5. OSEventPtr \in [Event -> Event \cup {NullEvent}]
    <2>1. \A e \in Event : (\E f \in free : e \in free /\ rank[f] = rank[e] + 1)
            => (CHOOSE f \in free : rank[f] = rank[e] + 1) \in free
      OBVIOUS
    <2> QED BY <2>1
  <1>6. OSEventFreeList \in Event \cup {NullEvent}
    <2>1. CASE free = {}
      BY <2>1
    <2>2. CASE free # {}
      <3> DEFINE n == Cardinality(free)
      <3>1. IsFiniteSet(free) /\ n \in Nat /\ n # 0
        BY <2>2, SemAssumption, FS_Difference, FS_Subset, FS_CardinalityType, FS_EmptySet
      <3>2. IsFiniteSet(1 .. n) /\ Cardinality(1 .. n) = n
        BY <3>1, FS_Interval
      <3>3. rank \in Injection(free, 1 .. n)
        BY DEF Injection, IsInjective
      <3>4. rank \in Surjection(free, 1 .. n)
        BY <3>2, <3>3, FS_Injection
      <3>5. \E e \in free : rank[e] = 1
        BY <3>1, <3>4 DEF Surjection
      <3> QED BY <2>2, <3>5
    <2> QED BY <2>1, <2>2
  <1> QED BY <1>3, <1>4, <1>5, <1>6

\* The initial states satisfy SemInv.
LEMMA SemInitHolds == ASSUME ~Inherits PROVE SemInit => SemInv
  <1> SUFFICES ASSUME SemInit PROVE SemInv
    OBVIOUS
  <1>1. KernelInv
    BY InitHolds DEF SemInit, KernelInv
  <1>2. /\ OSEventTbl = [e \in Event |-> {}] /\ OSTCBStat = [t \in Tcb |-> {}]
        /\ OSTCBPendTO = [t \in Tcb |-> FALSE] /\ OSTCBEventPtr = [t \in Tcb |-> NullEvent]
        /\ OSTCBDly = [t \in Tcb |-> 0] /\ at = [t \in Tcb |-> "app"] /\ OSLockNesting = 0
        /\ err = [t \in Tcb |-> "none"] /\ given = [t \in Tcb |-> FALSE]
        /\ OSTCBList \subseteq Tcb
    BY <1>1 DEF SemInit, CoreInit, KernelInv, CoreInv, KernelTypeOK
  <1>3. SemTypeOK /\ PendTellsTruth
    BY <1>1, <1>2, EventInitTypes DEF SemTypeOK, PendTellsTruth, KernelInv, CoreInv
  <1>4. PendInv
    BY <1>2, CoreAssumption
    DEF PendInv, WaitListExact, PendExact, WaitersStay, NewTcbsClean, OthersOutside, NoPendLocked,
        NoneMade, Pending
  <1> QED BY <1>1, <1>3, <1>4 DEF SemInv, KernelInv

---------------------------------------------------------------------------
\* The inductive invariant of the kernel and its semaphores together: whatever the
\* tasks, their priorities, the semaphores and the interleaving of tasks, posts by
\* handlers and ticks, if the application keeps to the rules of use.
THEOREM SemCorrect == ASSUME SemSafeUse PROVE Spec => []SemInv
  <1>1. SemInv /\ [Next]_vars => SemInv'
    BY SemStepKeeps, KernelStepKeepsPend, SemStutters DEF Next
  <1>2. SemInit => SemInv
    BY SemInitHolds DEF SemSafeUse
  <1> QED BY <1>1, <1>2, PTL DEF Spec

\* Every variable of the semaphores keeps its type; a count stays within its limit.
THEOREM SemTypeCorrect == ASSUME SemSafeUse PROVE Spec => []SemTypeOK
  <1>1. SemInv => SemTypeOK
    BY DEF SemInv, KernelInv
  <1> QED BY <1>1, SemCorrect, PTL

\* A wait list holds exactly the tasks that wait: a timeout, a suspension or a
\* deletion leaves neither a phantom in it nor a task that no post can find.
THEOREM WaitListsExact == ASSUME SemSafeUse PROVE Spec => []WaitListExact
  <1>1. SemInv => WaitListExact
    BY DEF SemInv, KernelInv, PendInv
  <1> QED BY <1>1, SemCorrect, PTL

\* OSSemPend returns OS_NO_ERR only with a unit and OS_TIMEOUT only without one,
\* however the tick and the post race.
THEOREM PendTruthful == ASSUME SemSafeUse PROVE Spec => []PendTellsTruth
  <1>1. SemInv => PendTellsTruth
    BY DEF SemInv, KernelInv
  <1> QED BY <1>1, SemCorrect, PTL

\* The kernel's promises survive the semaphores: the highest-priority ready task
\* runs, and a task is ready exactly when it waits for nothing.
THEOREM SemKeepsKernel == ASSUME SemSafeUse PROVE Spec => [](RunsHighest /\ ReadyIffNotWaiting)
  <1>1. SemInv => RunsHighest /\ ReadyIffNotWaiting
    BY DEF SemInv, KernelInv, CoreInv
  <1> QED BY <1>1, SemCorrect, PTL

---------------------------------------------------------------------------
\* No lost wakeup needs none of that: in each list or its count there is nothing,
\* and this survives creations and deletions too.
CountOrList ==
  /\ OSEventTbl = [e \in Event |-> OSEventTbl[e]] /\ OSEventCnt = [e \in Event |-> OSEventCnt[e]]
  /\ \A e \in Event : OSEventCnt[e] = 0 \/ OSEventTbl[e] = {}

\* The kernel only takes tasks out of wait lists, as long as nobody changes priorities.
LEMMA KernelKeepsCount ==
  ASSUME CountOrList, KernelStep, UNCHANGED semVars,
         "OSTaskChangePrio" \notin TaskCalls \cup IsrCalls
  PROVE  CountOrList'
  <1>1. OSEventCnt' = OSEventCnt
    BY DEF semVars, ecbVars
  <1>2. CASE UNCHANGED OSEventTbl
    BY <1>1, <1>2 DEF CountOrList
  <1>3. CASE \E p \in UserPrio : OSTaskDel(p)
    <2>1. \E t : OSEventTbl' = IF OSTCBEventPtr[t] = NullEvent THEN OSEventTbl
                 ELSE [OSEventTbl EXCEPT ![OSTCBEventPtr[t]] = @ \ {OSTCBPrio[t]}]
      BY <1>3 DEF OSTaskDel, Disable
    <2> QED BY <1>1, <2>1 DEF CountOrList
  <1>4. \A p, q : ~OSTaskChangePrio(p, q)
    BY DEF OSTaskChangePrio, Call, TaskCall, IsrCall
  <1>5. UNCHANGED OSEventTbl \/ \E p \in UserPrio : OSTaskDel(p)
    BY <1>4 DEF KernelStep, TaskStep, TimeStep, OSIntEnter, OSIntExit, OSTimeTick, OS_Sched,
       OSSchedLock, OSSchedUnlock, OS_TCBInit_Take, OS_TCBInit_Link, OSTaskCreate_Undo,
       OSTaskDel_Free, OSTaskCreate, OSTaskSuspend, OSTaskResume, OSTimeDly, OSTimeDlyResume
  <1> QED BY <1>2, <1>3, <1>5

\* A pend takes a unit only where there is one, and waits only where there is none.
LEMMA PendKeepsCount == ASSUME CountOrList, PendStep PROVE CountOrList'
  <1>1. CASE OSSemPend_Take
    BY <1>1 DEF OSSemPend_Take, CountOrList
  <1>2. CASE OSSemPend_Wait
    BY <1>2 DEF OSSemPend_Wait, PendWait, OS_EventTaskWait, CountOrList, semVars, ecbVars
  <1>3. CASE OSSemPend_Timeout
    BY <1>3 DEF OSSemPend_Timeout, OS_EventTO, CountOrList, ecbVars
  <1>4. CASE OSSemPend_Done
    BY <1>4 DEF OSSemPend_Done, CountOrList, ecbVars
  <1> QED BY <1>1, <1>2, <1>3, <1>4 DEF PendStep

\* A post adds a unit only where nobody waits, and so does OSSemSet.
LEMMA PostKeepsCount ==
  ASSUME CountOrList, NEW e \in Event, NEW n \in Counts,
         OSSemPost_Serve(e) \/ OSSemPost_Count(e) \/ OSSemAccept(e) \/ OSSemSet(e, n)
  PROVE  CountOrList'
  <1>1. CASE OSSemPost_Serve(e)
    <2>1. \E P : OSEventTbl' = [OSEventTbl EXCEPT ![e] = @ \ P]
      BY <1>1 DEF OSSemPost_Serve, OS_EventTaskRdy, EventTaskRdy
    <2> QED BY <1>1, <2>1 DEF OSSemPost_Serve, CountOrList, ecbVars
  <1>2. CASE OSSemPost_Count(e)
    BY <1>2 DEF OSSemPost_Count, CountOrList
  <1>3. CASE OSSemAccept(e)
    BY <1>3 DEF OSSemAccept, CountOrList
  <1>4. CASE OSSemSet(e, n)
    BY <1>4 DEF OSSemSet, CountOrList
  <1> QED BY <1>1, <1>2, <1>3, <1>4

\* A semaphore begins and ends with an empty list.
LEMMA CreateKeepsCount ==
  ASSUME CountOrList,
         \/ OSSemCreate_Init \/ \E n \in Counts : OSSemCreate(n)
         \/ \E e \in Event : OSSemDel_NoPend(e) \/ OSSemDel_Always(e)
  PROVE  CountOrList'
  <1>1. CASE OSSemCreate_Init
    BY <1>1 DEF OSSemCreate_Init, CountOrList
  <1>2. CASE \E n \in Counts : OSSemCreate(n)
    BY <1>2 DEF OSSemCreate, CountOrList
  <1>3. ASSUME NEW e \in Event, OSSemDel_NoPend(e) PROVE CountOrList'
    BY <1>3 DEF OSSemDel_NoPend, FreeEvent, CountOrList, ecbVars
  <1>4. ASSUME NEW e \in Event, OSSemDel_Always(e) PROVE CountOrList'
    <2>1. /\ OSEventTbl' = [OSEventTbl EXCEPT ![e] = @ \ OSEventTbl[e]]
          /\ OSEventCnt' = [OSEventCnt EXCEPT ![e] = 0]
      BY <1>4 DEF OSSemDel_Always, OS_EventTaskRdy, EventTaskRdy, FreeEvent
    <2> QED BY <2>1 DEF CountOrList
  <1> QED BY <1>1, <1>2, <1>3, <1>4

\* Units are never left in a count while a task waits for one, for any tasks and
\* semaphores, created and deleted at any time, if nobody changes priorities.
THEOREM NoLostWakeup ==
  ASSUME "OSTaskChangePrio" \notin TaskCalls \cup IsrCalls
  PROVE  Spec => []NoUnitWhileWaiting
  <1>1. SemInit => CountOrList
    BY DEF SemInit, CoreInit, EventInit, CountOrList
  <1>2. CountOrList /\ SemStep => CountOrList'
    <2> SUFFICES ASSUME CountOrList, SemStep PROVE CountOrList'
      OBVIOUS
    <2>1. 0 \in Counts
      BY CoreAssumption, SemAssumption DEF Ticks, Counts
    <2>2. ASSUME NEW s, NEW e, NEW l, NEW n, Check(s, "SEM", e, l, n) PROVE CountOrList'
      BY <2>2 DEF Check, ecbVars, CountOrList
    <2> QED BY <2>1, <2>2, PendKeepsCount, PostKeepsCount, CreateKeepsCount DEF SemStep, OSSemPend
  <1>3. CountOrList /\ [Next]_vars => CountOrList'
    <2>1. ASSUME CountOrList, UNCHANGED vars PROVE CountOrList'
      BY <2>1 DEF vars, coreVars, semVars, ecbVars, CountOrList
    <2> QED BY <1>2, <2>1, KernelKeepsCount DEF Next
  <1>4. CountOrList => NoUnitWhileWaiting
    BY DEF CountOrList, NoUnitWhileWaiting
  <1> QED BY <1>1, <1>3, <1>4, PTL DEF Spec

(***************************************************************************)
(* The semaphore of an application that creates its tasks and its          *)
(* semaphore before OSStart implements PrioSem, for any number of tasks,   *)
(* priorities and units.  Tasks may be deleted, suspended and resumed.     *)
(* There is one lemma for each kind of step, saying which step of the      *)
(* abstract semaphore it is.                                               *)
(***************************************************************************)
---------------------------------------------------------------------------
\* Whoever is in the wait list is a task inside OSSemPend that has got no unit.
LEMMA WaiterKnown ==
  ASSUME RefInv, RefSafeUse, NEW p \in OSEventTbl[sem]
  PROVE  /\ p \in Prio /\ OSTCBPrioTbl[p] \in User /\ InitPrio[OSTCBPrioTbl[p]] = p
         /\ \A t \in User : InitPrio[t] = p => t = OSTCBPrioTbl[p]
         /\ OSTCBPrioTbl[p] \in OSTCBList /\ ~Deleting(OSTCBPrioTbl[p])
         /\ OSTCBEventPtr[OSTCBPrioTbl[p]] = sem
         /\ Pending(OSTCBPrioTbl[p])
         /\ ~given[OSTCBPrioTbl[p]] /\ err[OSTCBPrioTbl[p]] = "none"
  <1> DEFINE t == OSTCBPrioTbl[p]
  <1>1. p \in Prio /\ HasTcb(p) /\ OSTCBEventPtr[t] = sem /\ ~Deleting(t) /\ sem # NullEvent
    BY CoreAssumption DEF RefInv, RefSafeUse, SemInv, PendInv, WaitListExact, WaitersStay, KernelInv, CoreInv,
       KernelTypeOK
  <1>2. t \in OSTCBList /\ OSTCBPrio[t] = p
    BY <1>1, TaskOwns DEF RefInv, SemInv, KernelInv
  <1>3. Pending(t) /\ ~given[t] /\ err[t] = "none"
    BY <1>1, <1>2, PendOf DEF RefInv
  <1>4. t # Idle
    BY <1>3 DEF Pending, RefInv, SemInv, KernelInv, CoreInv, IdleStays
  <1>5. t \in User /\ InitPrio[t] = p
    BY <1>2, <1>4 DEF RefInv, OwnPrio
  <1>6. \A u \in User : InitPrio[u] = p => u = t
    BY <1>5, CoreAssumption DEF User
  <1> QED BY <1>1, <1>2, <1>3, <1>5, <1>6

\* The task that runs a service is one of them.
LEMMA RunnerKnown ==
  ASSUME RefInv, RefSafeUse, OSTCBCur # Idle, at[OSTCBCur] # "sched"
  PROVE  /\ OSTCBCur \in User /\ OSTCBCur \in Tcb /\ OSTCBCur \in OSTCBList
         /\ OSTCBPrio[OSTCBCur] = InitPrio[OSTCBCur]
         /\ \A u \in User : InitPrio[u] = InitPrio[OSTCBCur] => u = OSTCBCur
         /\ ~Pending(OSTCBCur) => InitPrio[OSTCBCur] \notin OSEventTbl[sem]
  <1>1. OSTCBCur \in User /\ OSTCBCur \in Tcb /\ OSTCBCur \in OSTCBList
    BY DEF RefInv, OwnPrio, SemInv, KernelInv, CoreInv, KernelTypeOK, CurrentKnown
  <1>2. \A u \in User : InitPrio[u] = InitPrio[OSTCBCur] => u = OSTCBCur
    BY <1>1, CoreAssumption DEF User
  <1>3. InitPrio[OSTCBCur] \in OSEventTbl[sem] => Pending(OSTCBCur)
    BY <1>1, WaiterKnown
  <1> QED BY <1>1, <1>2, <1>3 DEF RefInv, OwnPrio

---------------------------------------------------------------------------
\* The tasks stay the same and where they are.

\* The kernel's steps create no task and change no priority.
LEMMA KernelKeepsPrio ==
  ASSUME RefInv, RefSafeUse, KernelStep PROVE OwnPrio'
  <1>1. /\ at \in [Tcb -> Label] /\ OSTCBCur \in Tcb /\ \A t \in Tcb : ~Creating(t)
        /\ OSTCBPrio \in [Tcb -> Prio]
    BY DEF RefInv, OwnPrio, SemInv, KernelInv, CoreInv, KernelTypeOK
  <1>2. ~OS_TCBInit_Take /\ ~OS_TCBInit_Link /\ ~OSTaskCreate_Undo
    BY <1>1 DEF OS_TCBInit_Take, OS_TCBInit_Link, OSTaskCreate_Undo, InTask, Creating
  <1>3. \A p, q : ~OSTaskCreate(p) /\ ~OSTaskChangePrio(p, q)
    BY DEF OSTaskCreate, OSTaskChangePrio, Call, TaskCall, IsrCall, RefSafeUse, SemSafeUse, SafeUse
  <1>4. OSTCBPrio' = OSTCBPrio /\ OSTCBList' \subseteq OSTCBList
    <2>1. ASSUME NEW p \in UserPrio, OSTaskDel(p) \/ OSTaskSuspend(p) \/ OSTaskResume(p)
          PROVE  OSTCBPrio' = OSTCBPrio /\ OSTCBList' = OSTCBList
      BY <2>1 DEF OSTaskDel, OSTaskSuspend, OSTaskResume, tblVars
    <2> QED BY <1>2, <1>3, <2>1 DEF KernelStep, TaskStep, TimeStep, OSIntEnter, OSIntExit,
        OSTimeTick, OS_Sched, OSSchedLock, OSSchedUnlock, OSTaskDel_Free, OSTimeDly,
        OSTimeDlyResume, tblVars, tcbVars
  <1>5. \A t \in Tcb : ~Creating(t)'
    <2> DEFINE Calm(l) == l \notin {"tcbinit", "tcblink", "unreserve"}
    <2>1. ASSUME NEW l, Goto(l), Calm(l) PROVE \A t \in Tcb : ~Creating(t)'
      BY <1>1, <2>1 DEF Goto, Creating
    <2>2. ASSUME NEW p \in UserPrio, OSTaskDel(p) \/ OSTaskSuspend(p) \/ OSTaskResume(p)
          PROVE  \E l : Goto(l) /\ Calm(l)
      BY <2>2 DEF OSTaskDel, OSTaskSuspend, OSTaskResume
    <2>3. ASSUME OSSchedUnlock \/ TimeStep PROVE Goto("app") \/ Goto("sched")
      <3>1. \A n : OSTimeDly(n) => Goto("sched")
        BY DEF OSTimeDly
      <3>2. \A p : OSTimeDlyResume(p) => Goto("app") \/ Goto("sched")
        BY DEF OSTimeDlyResume
      <3>3. OSSchedUnlock => Goto("app") \/ Goto("sched")
        BY DEF OSSchedUnlock
      <3> QED BY <2>3, <3>1, <3>2, <3>3 DEF TimeStep
    <2>4. CASE OSTaskDel_Free
      BY <1>1, <2>4 DEF OSTaskDel_Free, Creating
    <2>5. CASE OS_Sched
      BY <1>1, <2>5 DEF OS_Sched, Creating
    <2>6. CASE OSIntEnter \/ OSIntExit \/ OSTimeTick \/ OSSchedLock
      BY <1>1, <2>6 DEF OSIntEnter, OSIntExit, OSTimeTick, OSSchedLock, Creating
    <2> QED BY <1>2, <1>3, <2>1, <2>2, <2>3, <2>4, <2>5, <2>6 DEF KernelStep, TaskStep
  <1> QED BY <1>4, <1>5 DEF RefInv, OwnPrio

\* So do the services of the semaphores.
LEMMA SemKeepsPrio ==
  ASSUME RefInv, RefSafeUse, SemStep PROVE OwnPrio'
  <1>1. /\ at \in [Tcb -> Label] /\ OSTCBCur \in Tcb /\ \A t \in Tcb : ~Creating(t)
    BY DEF RefInv, OwnPrio, SemInv, KernelInv, CoreInv, KernelTypeOK
  <1> DEFINE Calm(l) == l \notin {"tcbinit", "tcblink", "unreserve"}
             Moved == \A t \in Tcb : at'[t] = at[t] \/ Calm(at'[t])
             Fixed == OSTCBPrio' = OSTCBPrio /\ OSTCBList' = OSTCBList /\ Moved
  <1>0. \A l : Goto(l) /\ Calm(l) => Moved
    BY <1>1 DEF Goto
  <1> HIDE DEF Moved
  <1>2. PendStep => Fixed
    BY <1>0 DEF PendStep, OSSemPend_Take, OSSemPend_Wait, OSSemPend_Timeout, OSSemPend_Done, PendWait,
       Return, tcbVars, tblVars
  <1>3. \A s, e, n, l : Check(s, "SEM", e, l, n) /\ Calm(l) => Fixed
    BY <1>0 DEF Check, tcbVars, tblVars
  <1>4. ASSUME NEW e \in Event, OSSemPost_Serve(e) \/ OSSemPost_Count(e) \/ OSSemAccept(e)
        PROVE  Fixed
    BY <1>0, <1>4 DEF OSSemPost_Serve, OSSemPost_Count, OSSemAccept, OS_EventTaskRdy, Return, tcbVars,
       tblVars
  <1>5. ASSUME NEW e \in Event, NEW n, OSSemSet(e, n) PROVE Fixed
    BY <1>0, <1>5 DEF OSSemSet, Return, tcbVars, tblVars
  <1>6. ASSUME NEW e \in Event, OSSemDel_NoPend(e) \/ OSSemDel_Always(e) PROVE Fixed
    BY <1>0, <1>6 DEF OSSemDel_NoPend, OSSemDel_Always, OS_EventTaskRdy, Return, tcbVars, tblVars
  <1>7. ASSUME OSSemCreate_Init \/ \E n \in Counts : OSSemCreate(n) PROVE Fixed
    BY <1>0, <1>7 DEF OSSemCreate_Init, OSSemCreate, Return, tcbVars, tblVars
  <1>8. ASSUME NEW e \in Event, NEW n, OSSemPend(e, n) PROVE Fixed
    BY <1>3, <1>8 DEF OSSemPend
  <1>9. Fixed
    BY <1>2, <1>3, <1>4, <1>5, <1>6, <1>7, <1>8 DEF SemStep
  <1>10. \A t \in Tcb : ~Creating(t)'
    BY <1>1, <1>9 DEF Moved, Creating
  <1> QED BY <1>9, <1>10 DEF RefInv, OwnPrio

\* RefInv is an invariant.
LEMMA RefInvStays == ASSUME RefInv, RefSafeUse, [Next]_vars PROVE RefInv'
  <1>1. SemInv'
    BY SemStepKeeps, KernelStepKeepsPend, SemStutters DEF RefInv, RefSafeUse, Next
  <1>2. ASSUME UNCHANGED vars PROVE OwnPrio'
    <2>1. UNCHANGED <<OSTCBPrio, OSTCBList, at>>
      BY <1>2 DEF vars, coreVars, tcbVars, tblVars
    <2> QED BY <2>1 DEF RefInv, OwnPrio, Creating
  <1>3. OwnPrio'
    BY <1>2, KernelKeepsPrio, SemKeepsPrio DEF Next, RefInv
  <1> QED BY <1>1, <1>3 DEF RefInv

---------------------------------------------------------------------------
\* What a step means to the abstract semaphore.

\* A task waits exactly if its own priority is in the wait list.
LEMMA WaitingIs ==
  ASSUME RefInv
  PROVE  Abstract!Waiting = {t \in User : InitPrio[t] \in OSEventTbl[sem]}
  <1>1. \A t \in User : State(t) = "waiting" <=> InitPrio[t] \in OSEventTbl[sem]
    BY DEF State, RefInv, OwnPrio
  <1> QED BY <1>1 DEF Abstract!Waiting, User

\* Only one task's state changes, to s.
LEMMA OneBecomes ==
  ASSUME NEW t \in User, NEW s, \A u \in User \ {t} : State(u)' = State(u), State(t)' = s
  PROVE  Abstract!Becomes(t, s)
  BY DEF Abstract!Becomes, User

\* Neither wait list nor what tasks were told changes.
LEMMA NoneBecomes ==
  ASSUME RefInv, OwnPrio', UNCHANGED <<err, given>>, OSEventTbl'[sem] = OSEventTbl[sem]
  PROVE  UNCHANGED [t \in User |-> State(t)]
  <1>1. \A t \in User : State(t)' = State(t)
    BY DEF State, RefInv, OwnPrio
  <1> QED BY <1>1

\* The kernel's steps: a task that is deleted leaves, the others mean nothing.
LEMMA KernelMaps ==
  ASSUME RefInv, RefSafeUse, OwnPrio', KernelStep, UNCHANGED semVars
  PROVE  \/ UNCHANGED <<OSEventCnt[sem], [t \in User |-> State(t)]>>
         \/ \E t \in User : Abstract!Leave(t)
  <1>1. UNCHANGED <<OSEventCnt, err, given>>
    BY DEF semVars, ecbVars
  <1>2. CASE UNCHANGED OSEventTbl
    BY <1>1, <1>2, NoneBecomes
  <1>3. ASSUME NEW p \in UserPrio, OSTaskDel(p)
        PROVE  \/ UNCHANGED [t \in User |-> State(t)]
               \/ \E t \in User : Abstract!Leave(t)
    <2>0. PICK t : t = OSTCBPrioTbl[p]
      OBVIOUS
    <2>1. /\ HasTcb(p) /\ at[OSTCBCur] = "app"
          /\ OSEventTbl' = IF OSTCBEventPtr[t] = NullEvent THEN OSEventTbl
                           ELSE [OSEventTbl EXCEPT ![OSTCBEventPtr[t]] = @ \ {OSTCBPrio[t]}]
      BY <1>3, <2>0 DEF OSTaskDel, TaskCall, Disable
    <2>2. t \in OSTCBList /\ OSTCBPrio[t] = p /\ ~Deleting(t) /\ p \in Prio
      BY <2>0, <2>1, TaskOwns DEF RefInv, SemInv, KernelInv, UserPrio, Deleting
    <2>3. CASE OSTCBEventPtr[t] = NullEvent
      BY <1>1, <2>1, <2>3, NoneBecomes
    <2>4. CASE OSTCBEventPtr[t] # NullEvent
      <3>1. OSTCBEventPtr[t] = sem /\ p \in OSEventTbl[sem]
        BY <2>2, <2>4, PendOf DEF RefInv, RefSafeUse
      <3>2. /\ t \in User /\ InitPrio[t] = p /\ \A u \in User : InitPrio[u] = p => u = t
            /\ ~given[t] /\ err[t] = "none"
        BY <2>0, <3>1, WaiterKnown
      <3>3. OSEventTbl'[sem] = OSEventTbl[sem] \ {p}
        BY <2>1, <2>2, <2>4, <3>1 DEF RefSafeUse, RefInv, SemInv, KernelInv, CoreInv, KernelTypeOK
      <3>4. \A u \in User \ {t} : State(u)' = State(u)
        BY <1>1, <3>2, <3>3 DEF State, RefInv, OwnPrio
      <3>5. State(t)' = "idle"
        BY <1>1, <3>2, <3>3 DEF State, OwnPrio
      <3>6. t \in Abstract!Waiting
        BY <3>1, <3>2, WaitingIs
      <3> QED BY <1>1, <3>2, <3>4, <3>5, <3>6, OneBecomes DEF Abstract!Leave
    <2> QED BY <2>3, <2>4
  <1>4. \A p, q : ~OSTaskChangePrio(p, q)
    BY DEF OSTaskChangePrio, Call, TaskCall, IsrCall, RefSafeUse, SemSafeUse, SafeUse
  <1>5. UNCHANGED OSEventTbl \/ \E p \in UserPrio : OSTaskDel(p)
    BY <1>4 DEF KernelStep, TaskStep, TimeStep, OSIntEnter, OSIntExit, OSTimeTick, OS_Sched,
       OSSchedLock, OSSchedUnlock, OS_TCBInit_Take, OS_TCBInit_Link, OSTaskCreate_Undo,
       OSTaskDel_Free, OSTaskCreate, OSTaskSuspend, OSTaskResume, OSTimeDly, OSTimeDlyResume
  <1> QED BY <1>1, <1>2, <1>3, <1>5

\* A call of OSSemPend: the task forgets what its last one told it.
LEMMA AskMaps ==
  ASSUME RefInv, RefSafeUse, OwnPrio', NEW e \in Event, NEW n \in Ticks, OSSemPend(e, n)
  PROVE  \E t \in User : Abstract!Ask(t)
  <1>1. PICK me : me = OSTCBCur
    OBVIOUS
  <1>2. /\ me # Idle /\ at[me] = "app" /\ UNCHANGED <<OSEventTbl, OSEventCnt>>
        /\ err' = [err EXCEPT ![me] = "none"] /\ given' = [given EXCEPT ![me] = FALSE]
    BY <1>1 DEF OSSemPend, Check, TaskCall, ecbVars
  <1>3. me \in User /\ me \in Tcb /\ InitPrio[me] \notin OSEventTbl[sem]
    BY <1>1, <1>2, RunnerKnown DEF Pending
  <1>4. \A u \in User \ {me} : State(u)' = State(u)
    BY <1>2, <1>3 DEF State, RefInv, OwnPrio
  <1>5. State(me)' = "idle"
    BY <1>2, <1>3 DEF State, OwnPrio, RefInv, SemInv, KernelInv, SemTypeOK
  <1>6. me \notin Abstract!Waiting
    BY <1>3, WaitingIs
  <1>7. Abstract!Ask(me)
    BY <1>2, <1>3, <1>4, <1>5, <1>6, OneBecomes DEF Abstract!Ask
  <1> QED BY <1>3, <1>7

\* The region that finds a unit.
LEMMA TakeMaps ==
  ASSUME RefInv, RefSafeUse, OwnPrio', OSSemPend_Take
  PROVE  \E t \in User : Abstract!Take(t)
  <1>1. PICK me : me = OSTCBCur
    OBVIOUS
  <1>2. /\ InTask("pend") /\ UNCHANGED OSEventTbl
        /\ OSEventCnt[loc[me].ev] > 0
        /\ OSEventCnt' = [OSEventCnt EXCEPT ![loc[me].ev] = @ - 1]
        /\ err' = [err EXCEPT ![me] = "OS_NO_ERR"] /\ given' = [given EXCEPT ![me] = TRUE]
    BY <1>1 DEF OSSemPend_Take
  <1>3. me \in Tcb /\ me # Idle /\ at[me] = "pend" /\ ~Deleting(me) /\ me \in OSTCBList
    BY <1>1, <1>2, PenderRuns DEF RefInv
  <1>4. me \in User /\ InitPrio[me] \notin OSEventTbl[sem] /\ loc[me].ev = sem
    BY <1>1, <1>3, RunnerKnown, PendOf DEF Pending, RefInv, RefSafeUse
  <1>5. OSEventCnt[sem] > 0 /\ OSEventCnt'[sem] = OSEventCnt[sem] - 1
    BY <1>2, <1>4 DEF RefInv, RefSafeUse, SemInv, KernelInv, SemTypeOK
  <1>6. \A u \in User \ {me} : State(u)' = State(u)
    BY <1>2, <1>4 DEF State, RefInv, OwnPrio
  <1>7. State(me)' = "owns"
    BY <1>2, <1>3, <1>4 DEF State, OwnPrio, RefInv, SemInv, KernelInv, SemTypeOK
  <1>8. me \notin Abstract!Waiting
    BY <1>4, WaitingIs
  <1>9. Abstract!Take(me)
    BY <1>4, <1>5, <1>6, <1>7, <1>8, OneBecomes DEF Abstract!Take
  <1> QED BY <1>4, <1>9

\* The region that finds none: the task enters the wait list.
LEMMA WaitMaps ==
  ASSUME RefInv, RefSafeUse, OwnPrio', OSSemPend_Wait
  PROVE  \E t \in User : Abstract!Wait(t)
  <1>1. PICK me : me = OSTCBCur
    OBVIOUS
  <1>2. /\ InTask("pend") /\ UNCHANGED <<OSEventCnt, err, given>>
        /\ OSEventCnt[loc[me].ev] = 0
        /\ OSEventTbl' = [OSEventTbl EXCEPT ![loc[me].ev] = @ \cup {OSTCBPrio[me]}]
    BY <1>1 DEF OSSemPend_Wait, PendWait, OS_EventTaskWait, semVars, ecbVars
  <1>3. me \in Tcb /\ me # Idle /\ at[me] = "pend" /\ ~Deleting(me) /\ me \in OSTCBList
    BY <1>1, <1>2, PenderRuns DEF RefInv
  <1>4. /\ me \in User /\ InitPrio[me] \notin OSEventTbl[sem] /\ loc[me].ev = sem
        /\ OSTCBPrio[me] = InitPrio[me] /\ \A u \in User : InitPrio[u] = InitPrio[me] => u = me
    BY <1>1, <1>3, RunnerKnown, PendOf DEF Pending, RefInv, RefSafeUse
  <1>5. OSEventCnt[sem] = 0 /\ OSEventTbl'[sem] = OSEventTbl[sem] \cup {InitPrio[me]}
    BY <1>2, <1>4 DEF RefInv, RefSafeUse, SemInv, KernelInv, CoreInv, KernelTypeOK
  <1>6. \A u \in User \ {me} : State(u)' = State(u)
    BY <1>2, <1>4, <1>5 DEF State, RefInv, OwnPrio
  <1>7. State(me)' = "waiting"
    BY <1>4, <1>5 DEF State, OwnPrio
  <1>8. me \notin Abstract!Waiting
    BY <1>4, WaitingIs
  <1>9. Abstract!Wait(me)
    BY <1>2, <1>4, <1>5, <1>6, <1>7, <1>8, OneBecomes DEF Abstract!Wait
  <1> QED BY <1>4, <1>9

\* OS_EventTO: the task leaves the wait list without a unit.
LEMMA TimeoutMaps ==
  ASSUME RefInv, RefSafeUse, OwnPrio', OSSemPend_Timeout
  PROVE  \E t \in User : Abstract!TimeOut(t)
  <1>1. PICK me : me = OSTCBCur
    OBVIOUS
  <1>2. /\ InTask("pendwake") /\ OSTCBPendTO[me] /\ UNCHANGED <<OSEventCnt, given>>
        /\ OSEventTbl' = [OSEventTbl EXCEPT ![loc[me].ev] = @ \ {OSTCBPrio[me]}]
        /\ err' = [err EXCEPT ![me] = "OS_TIMEOUT"]
    BY <1>1 DEF OSSemPend_Timeout, OS_EventTO, ecbVars
  <1>3. me \in Tcb /\ me # Idle /\ at[me] = "pendwake" /\ ~Deleting(me) /\ me \in OSTCBList
    BY <1>1, <1>2, PenderRuns DEF RefInv
  <1>4. /\ me \in User /\ OSTCBPrio[me] = InitPrio[me]
        /\ \A u \in User : InitPrio[u] = InitPrio[me] => u = me
    BY <1>1, <1>3, RunnerKnown
  <1>5. loc[me].ev = sem /\ InitPrio[me] \in OSEventTbl[sem] /\ ~given[me]
    BY <1>2, <1>3, <1>4, PendOf DEF RefInv, RefSafeUse
  <1>6. OSEventTbl'[sem] = OSEventTbl[sem] \ {InitPrio[me]}
    BY <1>2, <1>4, <1>5 DEF RefInv, RefSafeUse, SemInv, KernelInv, CoreInv, KernelTypeOK
  <1>7. \A u \in User \ {me} : State(u)' = State(u)
    BY <1>2, <1>4, <1>6 DEF State, RefInv, OwnPrio
  <1>8. State(me)' = "timedout"
    BY <1>2, <1>3, <1>4, <1>5, <1>6 DEF State, OwnPrio, RefInv, SemInv, KernelInv, SemTypeOK
  <1>9. me \in Abstract!Waiting
    BY <1>4, <1>5, WaitingIs
  <1>10. Abstract!TimeOut(me)
    BY <1>2, <1>4, <1>7, <1>8, <1>9, OneBecomes DEF Abstract!TimeOut
  <1> QED BY <1>4, <1>10

\* A task that was served has had its unit since the post.
LEMMA DoneMaps ==
  ASSUME RefInv, RefSafeUse, OwnPrio', OSSemPend_Done
  PROVE  UNCHANGED <<OSEventCnt[sem], [t \in User |-> State(t)]>>
  <1>1. PICK me : me = OSTCBCur
    OBVIOUS
  <1>2. /\ InTask("pendwake") /\ ~OSTCBPendTO[me] /\ UNCHANGED <<OSEventTbl, OSEventCnt, given>>
        /\ err' = [err EXCEPT ![me] = "OS_NO_ERR"]
    BY <1>1 DEF OSSemPend_Done, ecbVars
  <1>3. /\ me \in Tcb /\ me # Idle /\ at[me] = "pendwake" /\ ~Deleting(me) /\ me \in OSTCBList
        /\ OSTCBStat[me] = {}
    BY <1>1, <1>2, PenderRuns DEF RefInv
  <1>4. given[me]
    BY <1>2, <1>3, PendOf DEF Pending, RefInv
  <1>5. \A u \in User : State(u)' = State(u)
    BY <1>2, <1>4 DEF State, RefInv, OwnPrio
  <1> QED BY <1>2, <1>5

\* A post that somebody waits for gives its unit to the task of the highest priority.
LEMMA ServeMaps ==
  ASSUME RefInv, RefSafeUse, OwnPrio', NEW e \in Event, OSSemPost_Serve(e)
  PROVE  \E t \in User : Abstract!Serve(t)
  <1>1. PICK p \in OSEventTbl[e] : /\ HighestIn(p, OSEventTbl[e])
                                   /\ OS_EventTaskRdy(e, {p}, "SEM")
                                   /\ given' = [given EXCEPT ![OSTCBPrioTbl[p]] = TRUE]
    BY DEF OSSemPost_Serve
  <1>2. PICK t : t = OSTCBPrioTbl[p]
    OBVIOUS
  <1>3. e = sem /\ UNCHANGED <<OSEventCnt, err>>
    BY DEF OSSemPost_Serve, ecbVars, RefSafeUse
  <1>4. /\ t \in User /\ t \in Tcb /\ InitPrio[t] = p /\ \A u \in User : InitPrio[u] = p => u = t
    BY <1>2, <1>3, WaiterKnown DEF RefInv, SemInv, KernelInv, CoreInv, KernelTypeOK
  <1>5. OSEventTbl'[sem] = OSEventTbl[sem] \ {p}
    BY <1>1, <1>3 DEF OS_EventTaskRdy, EventTaskRdy, RefInv, SemInv, KernelInv, CoreInv, KernelTypeOK
  <1>6. \A u \in User \ {t} : State(u)' = State(u)
    BY <1>1, <1>2, <1>3, <1>4, <1>5 DEF State, RefInv, OwnPrio
  <1>7. State(t)' = "owns"
    BY <1>1, <1>2, <1>4, <1>5 DEF State, OwnPrio, RefInv, SemInv, KernelInv, SemTypeOK
  <1>8. t \in Abstract!Waiting /\ \A u \in Abstract!Waiting : InitPrio[t] <= InitPrio[u]
    BY <1>1, <1>3, <1>4, WaitingIs DEF HighestIn
  <1>9. Abstract!Serve(t)
    BY <1>3, <1>4, <1>6, <1>7, <1>8, OneBecomes DEF Abstract!Serve
  <1> QED BY <1>4, <1>9

\* A post that nobody waits for adds a unit, up to the limit.
LEMMA CountMaps ==
  ASSUME RefInv, RefSafeUse, OwnPrio', NEW e \in Event, OSSemPost_Count(e)
  PROVE  Abstract!Count \/ UNCHANGED <<OSEventCnt[sem], [t \in User |-> State(t)]>>
  <1>1. /\ e = sem /\ OSEventTbl[sem] = {} /\ UNCHANGED <<OSEventTbl, err, given>>
        /\ OSEventCnt' = [OSEventCnt EXCEPT ![sem] =
             IF OSEventCnt[sem] < CntMax THEN OSEventCnt[sem] + 1 ELSE OSEventCnt[sem]]
    BY DEF OSSemPost_Count, RefSafeUse
  <1>2. Abstract!Waiting = {}
    BY <1>1, WaitingIs
  <1>3. UNCHANGED [t \in User |-> State(t)]
    BY <1>1, NoneBecomes
  <1>4. OSEventCnt'[sem] = IF OSEventCnt[sem] < CntMax THEN OSEventCnt[sem] + 1 ELSE OSEventCnt[sem]
    BY <1>1 DEF RefInv, SemInv, KernelInv, SemTypeOK
  <1> QED BY <1>2, <1>3, <1>4 DEF Abstract!Count, User

\* OSSemAccept touches the count only, and takes a unit if there is one.
LEMMA AcceptMaps ==
  ASSUME RefInv, RefSafeUse, OwnPrio', NEW e \in Event, OSSemAccept(e)
  PROVE  Abstract!Accept \/ UNCHANGED <<OSEventCnt[sem], [t \in User |-> State(t)]>>
  <1>1. /\ e = sem /\ UNCHANGED <<OSEventTbl, err, given>>
        /\ OSEventCnt' = [OSEventCnt EXCEPT ![sem] =
             IF OSEventCnt[sem] > 0 THEN OSEventCnt[sem] - 1 ELSE OSEventCnt[sem]]
    BY DEF OSSemAccept, RefSafeUse
  <1>2. UNCHANGED [t \in User |-> State(t)]
    BY <1>1, NoneBecomes
  <1>3. OSEventCnt'[sem] = IF OSEventCnt[sem] > 0 THEN OSEventCnt[sem] - 1 ELSE OSEventCnt[sem]
    BY <1>1 DEF RefInv, SemInv, KernelInv, SemTypeOK
  <1> QED BY <1>2, <1>3 DEF Abstract!Accept, User

\* OSSemSet raises or lowers the count of a semaphore nobody waits for.
LEMMA SetMaps ==
  ASSUME RefInv, RefSafeUse, OwnPrio', NEW e \in Event, NEW n \in Counts, OSSemSet(e, n)
  PROVE  Abstract!Set \/ UNCHANGED <<OSEventCnt[sem], [t \in User |-> State(t)]>>
  <1>1. /\ e = sem /\ UNCHANGED <<OSEventTbl, err, given>>
        /\ OSEventCnt' = [OSEventCnt EXCEPT ![sem] =
             IF OSEventCnt[sem] > 0 \/ OSEventTbl[sem] = {} THEN n ELSE OSEventCnt[sem]]
    BY DEF OSSemSet, RefSafeUse
  <1>2. UNCHANGED [t \in User |-> State(t)]
    BY <1>1, NoneBecomes
  <1>3. OSEventCnt'[sem] = IF OSEventCnt[sem] > 0 \/ OSEventTbl[sem] = {} THEN n ELSE OSEventCnt[sem]
    BY <1>1 DEF RefInv, SemInv, KernelInv, SemTypeOK
  <1>4. OSEventTbl[sem] = {} => Abstract!Waiting = {}
    BY WaitingIs
  <1>5. n \in 0 .. CntMax
    BY DEF Counts
  <1> QED BY <1>2, <1>3, <1>4, <1>5 DEF Abstract!Set, User

---------------------------------------------------------------------------
\* Every step is one of the abstract semaphore, or none.
LEMMA StepMaps ==
  ASSUME RefInv, RefSafeUse, RefInv', [Next]_vars
  PROVE  [Abstract!Next]_<<OSEventCnt[sem], [t \in User |-> State(t)]>>
  <1>1. OwnPrio'
    BY DEF RefInv
  <1>2. CASE UNCHANGED vars
    <2>1. UNCHANGED <<err, given, OSEventTbl, OSEventCnt>>
      BY <1>2 DEF vars, coreVars, semVars, ecbVars
    <2> QED BY <1>1, <2>1, NoneBecomes
  <1>3. CASE KernelStep /\ UNCHANGED semVars
    BY <1>1, <1>3, KernelMaps DEF Abstract!Next, User
  <1>4. CASE PendStep
    BY <1>1, <1>4, TakeMaps, WaitMaps, TimeoutMaps, DoneMaps DEF PendStep, Abstract!Next, User
  <1>5. ASSUME NEW e \in Event, NEW n \in Ticks, OSSemPend(e, n) PROVE Abstract!Next
    BY <1>1, <1>5, AskMaps DEF Abstract!Next, User
  <1>6. ASSUME NEW e \in Event, OSSemPost_Serve(e) PROVE Abstract!Next
    BY <1>1, <1>6, ServeMaps DEF Abstract!Next, User
  <1>7. ASSUME NEW e \in Event, NEW n \in Counts,
               OSSemPost_Count(e) \/ OSSemAccept(e) \/ OSSemSet(e, n)
        PROVE  [Abstract!Next]_<<OSEventCnt[sem], [t \in User |-> State(t)]>>
    BY <1>1, <1>7, CountMaps, AcceptMaps, SetMaps DEF Abstract!Next
  <1>8. ASSUME NEW s, NEW e, NEW l, NEW n, Check(s, "SEM", e, l, n), UNCHANGED <<err, given>>
        PROVE  UNCHANGED <<OSEventCnt[sem], [t \in User |-> State(t)]>>
    <2>1. UNCHANGED <<OSEventTbl, OSEventCnt>>
      BY <1>8 DEF Check, ecbVars
    <2> QED BY <1>1, <1>8, <2>1, NoneBecomes
  <1>9. /\ ~OSSemCreate_Init /\ \A n \in Counts : ~OSSemCreate(n)
        /\ \A e \in Event : ~OSSemDel_NoPend(e) /\ ~OSSemDel_Always(e)
    BY DEF RefInv, RefSafeUse, SemSafeUse, SemInv, PendInv, NoneMade, KernelInv, CoreInv, KernelTypeOK,
       OSSemCreate_Init, OSSemCreate, OSSemDel_NoPend, OSSemDel_Always, InTask, TaskCall
  <1>10. 0 \in Counts
    BY CoreAssumption, SemAssumption DEF Ticks, Counts
  <1>11. CASE SemStep
    BY <1>4, <1>5, <1>6, <1>7, <1>8, <1>9, <1>10, <1>11 DEF SemStep
  <1> QED BY <1>2, <1>3, <1>11 DEF Next

\* The kernel's semaphore, with its interrupts, timeouts and scheduler, implements
\* the abstract one: units are neither made nor lost, a unit goes to the waiting task
\* of the highest priority, and a task that timed out has none.
THEOREM SemImplementsPrioSem == ASSUME RefSafeUse PROVE Spec => ImplementsPrioSem
  <1>1. SemInit => RefInv /\ Abstract!Init
    <2> SUFFICES ASSUME SemInit PROVE RefInv /\ Abstract!Init
      OBVIOUS
    <2>1. OwnPrio
      BY CoreAssumption DEF SemInit, CoreInit, OwnPrio, User, Tcb, Creating
    <2>2. \A t \in User : State(t) = "idle"
      BY CoreAssumption DEF SemInit, CoreInit, State, User, Tcb, RefSafeUse
    <2>3. OSEventCnt[sem] = InitCnt[sem]
      BY DEF SemInit, EventInit, RefSafeUse
    <2> QED BY <2>1, <2>2, <2>3, SemInitHolds DEF RefInv, RefSafeUse, SemSafeUse, Abstract!Init, User
  <1>2. RefInv /\ [Next]_vars => RefInv' /\ [Abstract!Next]_<<OSEventCnt[sem], [t \in User |-> State(t)]>>
    BY RefInvStays, StepMaps
  <1> QED BY <1>1, <1>2, PTL DEF Spec, ImplementsPrioSem, Abstract!Spec, User
=============================================================================
