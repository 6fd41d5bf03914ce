------------------------- MODULE UcosSemRefinement -------------------------
(***************************************************************************)
(* The semaphores of UcosSem implement the abstract semaphore PrioSem.  A  *)
(* task waits, abstractly, from the moment it enters the wait list until a *)
(* post takes it out, or its own OS_EventTO does after a timeout.          *)
(***************************************************************************)
EXTENDS UcosSem

CONSTANT sem       \* the semaphore looked at, made before OSStart

State(t) == IF OSTCBPrio[t] \in OSEventTbl[sem] THEN "waiting"
            ELSE IF given[t] THEN "owns"
            ELSE IF err[t] = "OS_TIMEOUT" THEN "timedout" ELSE "idle"

Abstract == INSTANCE PrioSem WITH
  Client <- DOMAIN InitPrio, Rank <- InitPrio, Limit <- CntMax, Initial <- InitCnt[sem],
  count <- OSEventCnt[sem], state <- [t \in DOMAIN InitPrio |-> State(t)]

\* Every step of the semaphore services, in whatever order their regions, ticks
\* and interrupts come, is a step of the abstract semaphore or none: units are
\* neither made nor lost, a unit goes to the highest-priority waiter, and a
\* timeout takes none.
ImplementsPrioSem == Abstract!Spec

---------------------------------------------------------------------------
User == DOMAIN InitPrio

\* The rules of use: those of the semaphores, one semaphore (State looks at a task's
\* last OSSemPend, whatever it was of), and no task created later (it could take
\* the priority of one that was deleted, and PrioSem has tasks with fixed ranks).
RefSafeUse ==
  /\ SemSafeUse /\ "OSTaskCreate" \notin TaskCalls
  /\ Event = {sem} /\ sem \in DOMAIN InitCnt

\* The tasks in use are those created before OSStart, at their own priorities.
OwnPrio ==
  /\ \A t \in User : OSTCBPrio[t] = InitPrio[t]
  /\ OSTCBList \subseteq User \cup {Idle}
  /\ \A t \in Tcb : ~Creating(t)

RefInv == SemInv /\ OwnPrio
=============================================================================
