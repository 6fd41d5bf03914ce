------------------------ MODULE UcosMutexRefinement ------------------------
(***************************************************************************)
(* The mutexes of UcosMutex implement the abstract lock PrioLock, with     *)
(* ranks that are the tasks' own priorities whatever they inherit.         *)
(***************************************************************************)
EXTENDS UcosMutex

CONSTANT mutex     \* the mutex looked at

Holder == IF OSEventType[mutex] = "MUTEX" THEN Owner(mutex) ELSE NullEvent
Waiters == {t \in DOMAIN InitPrio : OSTCBPrio[t] \in OSEventTbl[mutex]}

Abstract == INSTANCE PrioLock WITH
  Client <- DOMAIN InitPrio, Rank <- InitPrio, None <- NullEvent,
  owner <- Holder, waiting <- Waiters

\* Every step of the mutex services, in whatever order their regions, ticks and
\* interrupts come, is a step of the abstract lock or none.
ImplementsPrioLock == Abstract!Spec
=============================================================================
