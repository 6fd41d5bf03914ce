------------------------------ MODULE UcosTask ------------------------------
(***************************************************************************)
(* Task management (os_task.c, with OS_TCBInit of os_core.c): creating,    *)
(* deleting, suspending and resuming tasks and changing their priority.    *)
(* A path that returns an error changes nothing and is not written: it is  *)
(* a stuttering step.                                                      *)
(***************************************************************************)
EXTENDS UcosCore

\* The priorities a caller may name: OS_ARG_CHK refuses the idle task's.
UserPrio == Prio \ {OS_LOWEST_PRIO}

---------------------------------------------------------------------------
\* Mutant: the priority is found free but not reserved.
OSTaskCreate_NoReserve(p) ==
  /\ TaskCall("OSTaskCreate") /\ OSTCBPrioTbl[p] = NullTcb
  /\ Goto("tcbinit") /\ Keep([NoLocals EXCEPT !.prio = p])
  /\ UNCHANGED <<OSRdyTbl, OSEventTbl, OSLockNesting, tblVars, tcbVars, cpuVars>>

\* OSTaskCreate / OSTaskCreateExt, first region: the priority is reserved.
OSTaskCreate(p) ==
  /\ TaskCall("OSTaskCreate") /\ OSTCBPrioTbl[p] = NullTcb
  /\ OSTCBPrioTbl' = [OSTCBPrioTbl EXCEPT ![p] = Reserved]
  /\ Goto("tcbinit") /\ Keep([NoLocals EXCEPT !.prio = p])
  /\ UNCHANGED <<OSRdyTbl, OSEventTbl, OSLockNesting, OSTCBList, OSTCBFreeList,
                 tcbVars, cpuVars>>

\* OS_TCBInit, first region: a TCB is taken and filled in, if there is one.
\* It is filled in with interrupts enabled, but nothing refers to it yet.
OS_TCBInit_Take ==
  /\ InTask("tcbinit")
  /\ IF OSTCBFreeList = {}
     THEN /\ Goto("unreserve")
          /\ UNCHANGED <<OSTCBFreeList, loc, tcbVars>>
     ELSE \E t \in OSTCBFreeList :
            /\ OSTCBFreeList' = OSTCBFreeList \ {t}
            /\ OSTCBPrio' = [OSTCBPrio EXCEPT ![t] = loc[OSTCBCur].prio]
            /\ OSTCBStat' = [OSTCBStat EXCEPT ![t] = {}]
            /\ OSTCBDly' = [OSTCBDly EXCEPT ![t] = 0]
            /\ OSTCBPendTO' = [OSTCBPendTO EXCEPT ![t] = FALSE]
            /\ OSTCBEventPtr' = [OSTCBEventPtr EXCEPT ![t] = NullEvent]
            /\ Goto("tcblink") /\ Keep([loc[OSTCBCur] EXCEPT !.tcb = t])
  /\ UNCHANGED <<OSRdyTbl, OSEventTbl, OSLockNesting, OSTCBPrioTbl, OSTCBList, cpuVars>>

\* OS_TCBInit, second region: the task enters the tables and is ready.
OS_TCBInit_Link ==
  /\ InTask("tcblink")
  /\ LET p == loc[OSTCBCur].prio
         t == loc[OSTCBCur].tcb
     IN  /\ OSTCBPrioTbl' = [OSTCBPrioTbl EXCEPT ![p] = t]
         /\ OSTCBList' = OSTCBList \cup {t}
         /\ OSRdyTbl' = OSRdyTbl \cup {p}
  /\ Goto("sched") /\ Keep(NoLocals)
  /\ UNCHANGED <<OSEventTbl, OSLockNesting, OSTCBFreeList, tcbVars, cpuVars>>

\* OSTaskCreate, out of TCBs: the reservation is given back.
OSTaskCreate_Undo ==
  /\ InTask("unreserve")
  /\ OSTCBPrioTbl' = [OSTCBPrioTbl EXCEPT ![loc[OSTCBCur].prio] = NullTcb]
  /\ Goto("app") /\ Keep(NoLocals)
  /\ UNCHANGED <<OSRdyTbl, OSEventTbl, OSLockNesting, OSTCBList, OSTCBFreeList,
                 tcbVars, cpuVars>>

---------------------------------------------------------------------------

\* OSTaskDel takes the task out of the ready table or its wait list and sees to it
\* that neither a tick nor OSTaskResume makes it ready.
Disable(t) ==
  /\ OSRdyTbl' = OSRdyTbl \ {OSTCBPrio[t]}
  /\ OSEventTbl' = IF OSTCBEventPtr[t] = NullEvent THEN OSEventTbl
                   ELSE [OSEventTbl EXCEPT ![OSTCBEventPtr[t]] = @ \ {OSTCBPrio[t]}]
  /\ OSTCBDly' = [OSTCBDly EXCEPT ![t] = 0]
  /\ OSTCBStat' = [OSTCBStat EXCEPT ![t] = {}]
  /\ OSTCBPendTO' = [OSTCBPendTO EXCEPT ![t] = FALSE]

\* OSTaskDel, first region: the task is disabled and the scheduler locked.
\* A task deletes itself only with the scheduler unlocked: OS_Sched could not
\* leave it otherwise (a rule of use; the code does not check it).
OSTaskDel(p) ==
  /\ TaskCall("OSTaskDel") /\ HasTcb(p)
  /\ LET t == OSTCBPrioTbl[p]
     IN  /\ t = OSTCBCur => OSLockNesting = 0
         /\ Disable(t)
         /\ Keep([NoLocals EXCEPT !.prio = p, !.tcb = t])
  /\ OSLockNesting' = IF OSLockNesting < LockMax THEN OSLockNesting + 1 ELSE OSLockNesting
  /\ Goto("delwin")
  /\ UNCHANGED <<OSTCBPrio, OSTCBEventPtr, tblVars, cpuVars>>

\* OSTaskDel, second region, after the window with interrupts enabled: the TCB
\* goes back to the free list.  A deleted task runs no further.
OSTaskDel_Free ==
  /\ InTask("delwin")
  /\ LET p == loc[OSTCBCur].prio
         t == loc[OSTCBCur].tcb
     IN  /\ OSTCBPrioTbl' = [OSTCBPrioTbl EXCEPT ![p] = NullTcb]
         /\ OSTCBList' = OSTCBList \ {t}
         /\ OSTCBFreeList' = OSTCBFreeList \cup {t}
         /\ at' = [at EXCEPT ![t] = "app", ![OSTCBCur] = "sched"]
         /\ loc' = [loc EXCEPT ![t] = NoLocals, ![OSTCBCur] = NoLocals]
  /\ OSLockNesting' = IF OSLockNesting > 0 THEN OSLockNesting - 1 ELSE OSLockNesting
  /\ UNCHANGED <<OSRdyTbl, OSEventTbl, served, tcbVars, cpuVars>>

---------------------------------------------------------------------------
OSTaskSuspend(p) ==
  /\ Call("OSTaskSuspend") /\ HasTcb(p)
  /\ LET t == OSTCBPrioTbl[p]
     IN  /\ OSRdyTbl' = OSRdyTbl \ {OSTCBPrio[t]}
         /\ OSTCBStat' = [OSTCBStat EXCEPT ![t] = @ \cup {"SUSPEND"}]
  /\ IF p = OSTCBPrio[OSTCBCur] THEN Goto("sched") ELSE Goto("app")
  /\ UNCHANGED <<OSTCBPrio, OSTCBDly, OSTCBPendTO, OSTCBEventPtr, OSEventTbl,
                 OSLockNesting, loc, tblVars, cpuVars>>

\* The task is ready again only if it waits neither for an event nor for time.
OSTaskResume(p) ==
  /\ Call("OSTaskResume") /\ HasTcb(p)
  /\ LET t == OSTCBPrioTbl[p]
         free == OSTCBStat[t] = {"SUSPEND"} /\ OSTCBDly[t] = 0
     IN  /\ "SUSPEND" \in OSTCBStat[t]
         /\ OSTCBStat' = [OSTCBStat EXCEPT ![t] = @ \ {"SUSPEND"}]
         /\ OSRdyTbl' = IF free THEN OSRdyTbl \cup {OSTCBPrio[t]} ELSE OSRdyTbl
         /\ IF free THEN Goto("sched") ELSE Goto("app")
  /\ UNCHANGED <<OSTCBPrio, OSTCBDly, OSTCBPendTO, OSTCBEventPtr, OSEventTbl,
                 OSLockNesting, loc, tblVars, cpuVars>>

\* Mutant: the entry of the old priority stays.
OSTaskChangePrio_Old(p, q) ==
  /\ Call("OSTaskChangePrio") /\ HasTcb(p) /\ OSTCBPrioTbl[q] = NullTcb
  /\ LET t == OSTCBPrioTbl[p]
         old == OSTCBPrio[t]
     IN  /\ OSTCBPrioTbl' = [OSTCBPrioTbl EXCEPT ![q] = t]
         /\ OSTCBPrio' = [OSTCBPrio EXCEPT ![t] = q]
         /\ OSRdyTbl' = IF old \in OSRdyTbl THEN (OSRdyTbl \ {old}) \cup {q} ELSE OSRdyTbl
  /\ Goto("sched")
  /\ UNCHANGED <<OSTCBStat, OSTCBDly, OSTCBPendTO, OSTCBEventPtr, OSEventTbl, OSLockNesting,
                 loc, OSTCBList, OSTCBFreeList, cpuVars>>

\* A ready task moves in the ready table, another one in the list it waits in.
OSTaskChangePrio(p, q) ==
  /\ Call("OSTaskChangePrio") /\ HasTcb(p) /\ OSTCBPrioTbl[q] = NullTcb
  /\ LET t == OSTCBPrioTbl[p]
         old == OSTCBPrio[t]
         e == OSTCBEventPtr[t]
     IN  /\ OSTCBPrioTbl' = [OSTCBPrioTbl EXCEPT ![p] = NullTcb, ![q] = t]
         /\ OSTCBPrio' = [OSTCBPrio EXCEPT ![t] = q]
         /\ IF old \in OSRdyTbl
            THEN OSRdyTbl' = (OSRdyTbl \ {old}) \cup {q} /\ UNCHANGED OSEventTbl
            ELSE /\ OSEventTbl' = IF e = NullEvent THEN OSEventTbl
                                  ELSE [OSEventTbl EXCEPT ![e] = (@ \ {old}) \cup {q}]
                 /\ UNCHANGED OSRdyTbl
  /\ Goto("sched")
  /\ UNCHANGED <<OSTCBStat, OSTCBDly, OSTCBPendTO, OSTCBEventPtr, OSLockNesting, loc,
                 OSTCBList, OSTCBFreeList, cpuVars>>

---------------------------------------------------------------------------
TaskStep ==
  \/ OS_TCBInit_Take \/ OS_TCBInit_Link \/ OSTaskCreate_Undo \/ OSTaskDel_Free
  \/ \E p \in UserPrio :
       \/ OSTaskCreate(p) \/ OSTaskDel(p) \/ OSTaskSuspend(p) \/ OSTaskResume(p)
       \/ \E q \in UserPrio : OSTaskChangePrio(p, q)
=============================================================================
