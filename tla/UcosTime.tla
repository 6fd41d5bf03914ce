------------------------------ MODULE UcosTime ------------------------------
(***************************************************************************)
(* Time management (os_time.c): a task delays itself, and another one, or  *)
(* an interrupt handler, ends its delay early.  OSTimeDlyHMSM is a         *)
(* sequence of OSTimeDly calls; UcosDelay computes which.                  *)
(***************************************************************************)
EXTENDS UcosCore

OSTimeDly(n) ==
  /\ TaskCall("OSTimeDly") /\ n > 0
  /\ OSRdyTbl' = OSRdyTbl \ {OSTCBPrio[OSTCBCur]}
  /\ OSTCBDly' = [OSTCBDly EXCEPT ![OSTCBCur] = n]
  /\ Goto("sched")
  /\ UNCHANGED <<OSTCBPrio, OSTCBStat, OSTCBPendTO, OSTCBEventPtr, OSEventTbl,
                 OSLockNesting, loc, tblVars, cpuVars>>

OSTimeDlyResume(p) ==
  /\ Call("OSTimeDlyResume") /\ HasTcb(p)
  /\ LET t == OSTCBPrioTbl[p]
     IN  /\ OSTCBDly[t] # 0
         /\ OSTCBDly' = [OSTCBDly EXCEPT ![t] = 0]
         /\ DelayEnds({t})
         /\ IF "SUSPEND" \in OSTCBStat[t] THEN Goto("app") ELSE Goto("sched")
  /\ UNCHANGED <<OSTCBPrio, OSTCBEventPtr, OSEventTbl, OSLockNesting, loc,
                 tblVars, cpuVars>>

TimeStep ==
  \/ \E n \in Ticks : OSTimeDly(n)
  \/ \E p \in Prio \ {OS_LOWEST_PRIO} : OSTimeDlyResume(p)
=============================================================================
