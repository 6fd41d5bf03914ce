----------------------------- MODULE UcosMutex -----------------------------
(***************************************************************************)
(* Mutual exclusion semaphores with priority inheritance (os_mutex.c).     *)
(* OSEventCnt holds the inheritance priority (pip) in its upper byte and   *)
(* the owner's own priority, or 0xFF for none, in its lower one;           *)
(* OSEventPtr is the owner's TCB.  No service of a mutex is for handlers.  *)
(* A task's base priority is the one it was created with: a mutex is used  *)
(* with OSTaskChangePrio by no task (note 2 of OSMutexPend).               *)
(***************************************************************************)
EXTENDS UcosEvent

CONSTANTS
  Pips,            \* the inheritance priorities that the application asks for
  DelRule          \* owners that inherit are not deleted from under (see OSMutexDel_NoPend)

\* That a priority fits into the lower byte and is not 0xFF is an #error in ucos_ii.h.
ASSUME MutexAssumption ==
  /\ IsFiniteSet(Event) /\ NullEvent \notin Tcb
  /\ Pips \subseteq UserPrio /\ OS_LOWEST_PRIO <= 254 /\ DelRule \in BOOLEAN

VARIABLES
  holds,           \* history: the mutex each task was told it owns
  voided,          \* history: the tasks that were in OSMutexPend when it was deleted
  lowered          \* history: OSMutexPost took the running task's inherited priority
                   \* away and no scheduler has run since

mutexVars == <<ecbVars, holds, voided, lowered>>
vars == <<coreVars, mutexVars>>

OS_MUTEX_AVAILABLE == 255
Pip(e) == OSEventCnt[e] \div 256
MPrio(e) == OSEventCnt[e] % 256
Owner(e) == OSEventPtr[e]
Available(e) == MPrio(e) = OS_MUTEX_AVAILABLE
Owned(t) == {e \in Event : OSEventType[e] = "MUTEX" /\ Owner(e) = t}

MutexInit ==
  /\ CoreInit /\ EventInit(<<>>, <<>>)
  /\ holds = [t \in Tcb |-> NullEvent]
  /\ voided = {} /\ lowered = FALSE

---------------------------------------------------------------------------
\* OSMutexCreate reserves the inheritance priority and takes a block.
OSMutexCreate(p) ==
  /\ TaskCall("OSMutexCreate") /\ OSTCBPrioTbl[p] = NullTcb /\ TakeEvent
  /\ OSTCBPrioTbl' = [OSTCBPrioTbl EXCEPT ![p] = Reserved]
  /\ Goto("create") /\ Keep([NoLocals EXCEPT !.ev = OSEventFreeList, !.prio = p])
  /\ UNCHANGED <<OSRdyTbl, OSEventTbl, OSLockNesting, tcbVars, OSTCBList, OSTCBFreeList,
                 cpuVars, OSEventType, OSEventCnt, OSEventPtr, holds, voided, lowered>>

OSMutexCreate_Init ==
  /\ InTask("create")
  /\ LET e == loc[OSTCBCur].ev
     IN  /\ OSEventType' = [OSEventType EXCEPT ![e] = "MUTEX"]
         /\ OSEventCnt' = [OSEventCnt EXCEPT ![e] =
                             loc[OSTCBCur].prio * 256 + OS_MUTEX_AVAILABLE]
         /\ OSEventPtr' = [OSEventPtr EXCEPT ![e] = NullEvent]
         /\ OSEventTbl' = [OSEventTbl EXCEPT ![e] = {}]
  /\ Return("app")
  /\ UNCHANGED <<OSRdyTbl, OSLockNesting, tcbVars, tblVars, cpuVars, OSEventFreeList,
                 holds, voided, lowered>>

---------------------------------------------------------------------------
\* Mutant: the owner's TCB is not recorded.
Own_NoPtr(e, t) ==
  /\ OSEventCnt' = [OSEventCnt EXCEPT ![e] = Pip(e) * 256 + OSTCBPrio[t]]
  /\ UNCHANGED OSEventPtr

\* t becomes the owner: its priority goes to the lower byte.
Own(e, t) ==
  /\ OSEventCnt' = [OSEventCnt EXCEPT ![e] = Pip(e) * 256 + OSTCBPrio[t]]
  /\ OSEventPtr' = [OSEventPtr EXCEPT ![e] = t]

OSMutexAccept(e) ==
  /\ InTask("accept") /\ loc[OSTCBCur].ev = e
  /\ IF Available(e)
     THEN Own(e, OSTCBCur) /\ holds' = [holds EXCEPT ![OSTCBCur] = e]
     ELSE UNCHANGED <<OSEventCnt, OSEventPtr, holds>>
  /\ Return("app")
  /\ UNCHANGED <<OSRdyTbl, OSEventTbl, OSLockNesting, tcbVars, tblVars, cpuVars,
                 OSEventType, OSEventFreeList, voided, lowered>>

\* "The task that owns the Mutex MUST NOT pend on any other event while it owns the
\* mutex" (note 1), and pending on the same one would wait for oneself.
OSMutexPend(e, n) ==
  /\ OSLockNesting = 0 /\ Owned(OSTCBCur) = {}
  /\ Check("OSMutexPend", "MUTEX", e, "pend", n)
  /\ UNCHANGED <<holds, voided, lowered>>

OSMutexPend_Take ==
  /\ InTask("pend")
  /\ LET e == loc[OSTCBCur].ev
     IN  /\ Available(e) /\ Own(e, OSTCBCur)
         /\ holds' = [holds EXCEPT ![OSTCBCur] = e]
  /\ Return("app")
  /\ UNCHANGED <<OSRdyTbl, OSEventTbl, OSLockNesting, tcbVars, tblVars, cpuVars,
                 OSEventType, OSEventFreeList, voided, lowered>>

\* The owner o moves to the inheritance priority p, in the ready table or in the list
\* it waits in; its own entry of OSTCBPrioTbl stays.  S and L are those tables.
\* Mutants: the ready table keeps the old priority; OSTCBPrioTbl is not told.
Inherit_Ready(o, p, S, L) ==
  LET old == OSTCBPrio[o]
      e == OSTCBEventPtr[o]
  IN  /\ OSTCBPrio' = [OSTCBPrio EXCEPT ![o] = p]
      /\ OSTCBPrioTbl' = [OSTCBPrioTbl EXCEPT ![p] = o]
      /\ OSRdyTbl' = IF old \in S THEN S \cup {p} ELSE S
      /\ OSEventTbl' = IF old \in S \/ e = NullEvent THEN L
                       ELSE [L EXCEPT ![e] = (@ \ {old}) \cup {p}]
Inherit_NoTbl(o, p, S, L) ==
  LET old == OSTCBPrio[o]
      e == OSTCBEventPtr[o]
  IN  /\ OSTCBPrio' = [OSTCBPrio EXCEPT ![o] = p]
      /\ OSRdyTbl' = IF old \in S THEN (S \ {old}) \cup {p} ELSE S
      /\ OSEventTbl' = IF old \in S \/ e = NullEvent THEN L
                       ELSE [L EXCEPT ![e] = (@ \ {old}) \cup {p}]
      /\ UNCHANGED OSTCBPrioTbl
Inherit(o, p, S, L) ==
  LET old == OSTCBPrio[o]
      e == OSTCBEventPtr[o]
  IN  /\ OSTCBPrio' = [OSTCBPrio EXCEPT ![o] = p]
      /\ OSTCBPrioTbl' = [OSTCBPrioTbl EXCEPT ![p] = o]
      /\ OSRdyTbl' = IF old \in S THEN (S \ {old}) \cup {p} ELSE S
      /\ OSEventTbl' = IF old \in S \/ e = NullEvent THEN L
                       ELSE [L EXCEPT ![e] = (@ \ {old}) \cup {p}]

\* Mutant: the wrong way round, a lower priority is inherited.
Promotes_Lower(e) == OSTCBPrio[Owner(e)] > Pip(e) /\ MPrio(e) < OSTCBPrio[OSTCBCur]

\* The owner is below the pip, and its own priority below the caller's.
Promotes(e) == OSTCBPrio[Owner(e)] > Pip(e) /\ MPrio(e) > OSTCBPrio[OSTCBCur]

\* The mutex is owned: the owner inherits if need be, and the caller waits.  The
\* caller is not the owner, so the two changes touch different tasks.
OSMutexPend_Wait ==
  /\ InTask("pend")
  /\ LET e == loc[OSTCBCur].ev
         p == OSTCBPrio[OSTCBCur]
         S == OSRdyTbl \ {p}
         L == [OSEventTbl EXCEPT ![e] = @ \cup {p}]
     IN  /\ ~Available(e)
         /\ IF Promotes(e) THEN Inherit(Owner(e), Pip(e), S, L)
            ELSE /\ OSRdyTbl' = S /\ OSEventTbl' = L
                 /\ UNCHANGED <<OSTCBPrio, OSTCBPrioTbl>>
         /\ OSTCBEventPtr' = [OSTCBEventPtr EXCEPT ![OSTCBCur] = e]
  /\ OSTCBStat' = [OSTCBStat EXCEPT ![OSTCBCur] = @ \cup {"MUTEX"}]
  /\ OSTCBPendTO' = [OSTCBPendTO EXCEPT ![OSTCBCur] = FALSE]
  /\ OSTCBDly' = [OSTCBDly EXCEPT ![OSTCBCur] = loc[OSTCBCur].arg]
  /\ Goto("pendwait")
  /\ UNCHANGED <<OSLockNesting, loc, OSTCBList, OSTCBFreeList, cpuVars, mutexVars>>

\* A timeout: the owner keeps the priority it inherited from this task.
OSMutexPend_Timeout ==
  /\ InTask("pendwake") /\ OSTCBPendTO[OSTCBCur]
  /\ OS_EventTO(loc[OSTCBCur].ev)
  /\ voided' = voided \ {OSTCBCur}
  /\ Return("app")
  /\ UNCHANGED <<OSRdyTbl, OSLockNesting, OSTCBPrio, OSTCBDly, tblVars, cpuVars,
                 ecbVars, holds, lowered>>

OSMutexPend_Done ==
  /\ InTask("pendwake") /\ ~OSTCBPendTO[OSTCBCur]
  /\ OSTCBEventPtr' = [OSTCBEventPtr EXCEPT ![OSTCBCur] = NullEvent]
  /\ holds' = [holds EXCEPT ![OSTCBCur] = IF OSTCBCur \in voided THEN @ ELSE loc[OSTCBCur].ev]
  /\ voided' = voided \ {OSTCBCur}
  /\ Return("app")
  /\ UNCHANGED <<OSRdyTbl, OSEventTbl, OSLockNesting, OSTCBPrio, OSTCBStat, OSTCBDly,
                 OSTCBPendTO, tblVars, cpuVars, ecbVars, lowered>>

---------------------------------------------------------------------------
\* OSMutex_RdyAtPrio(o, prio): ready at prio, whatever o waits for; the ready table
\* that it leaves.
RdyAtPrio(o, p) == (OSRdyTbl \ {OSTCBPrio[o]}) \cup {p}

\* Mutant: the inherited priority is kept.
Lowers_Never(e) == FALSE

\* The running task inherited its priority from e.
Lowers(e) == OSTCBPrio[OSTCBCur] = Pip(e)

\* Mutant: the mutex goes to any of the waiting tasks.
HeirOf_Any(e, p) == p \in OSEventTbl[e]

\* The task that gets the mutex next is the waiting one of the highest priority.
HeirOf(e, p) == HighestIn(p, OSEventTbl[e])

\* Only the owner may post; it gives an inherited priority back first.
OSMutexPost(e) ==
  LET low == Lowers(e)
      S == IF low THEN RdyAtPrio(OSTCBCur, MPrio(e)) ELSE OSRdyTbl
  IN  /\ InTask("post") /\ loc[OSTCBCur].ev = e /\ Owner(e) = OSTCBCur
      /\ OSTCBPrio' = [OSTCBPrio EXCEPT ![OSTCBCur] = IF low THEN MPrio(e) ELSE @]
      /\ OSTCBPrioTbl' = [OSTCBPrioTbl EXCEPT ![Pip(e)] = Reserved,
                          ![MPrio(e)] = IF low THEN OSTCBCur ELSE @]
      /\ holds' = [holds EXCEPT ![OSTCBCur] = NullEvent]
      /\ IF OSEventTbl[e] = {}
         THEN /\ OSEventCnt' = [OSEventCnt EXCEPT ![e] = Pip(e) * 256 + OS_MUTEX_AVAILABLE]
              /\ OSEventPtr' = [OSEventPtr EXCEPT ![e] = NullEvent]
              /\ OSRdyTbl' = S /\ lowered' = (lowered \/ low)
              /\ Return("app")                 \* no call of OS_Sched here
              /\ UNCHANGED <<OSEventTbl, OSTCBStat, OSTCBDly, OSTCBPendTO, OSTCBEventPtr>>
         ELSE /\ \E p \in OSEventTbl[e] : /\ HeirOf(e, p)
                                          /\ EventTaskRdy(S, e, {p}, "MUTEX")
                                          /\ Own(e, OSTCBPrioTbl[p])
              /\ Return("sched") /\ UNCHANGED lowered
      /\ UNCHANGED <<OSLockNesting, OSTCBList, OSTCBFreeList, cpuVars, OSEventType,
                     OSEventFreeList, voided>>

\* OS_ERR_NOT_MUTEX_OWNER
OSMutexPost_Refused(e) ==
  /\ InTask("post") /\ loc[OSTCBCur].ev = e /\ Owner(e) # OSTCBCur
  /\ Return("app")
  /\ UNCHANGED <<OSRdyTbl, OSEventTbl, OSLockNesting, tcbVars, tblVars, cpuVars, mutexVars>>

---------------------------------------------------------------------------
\* History: nobody owns e from here on, nor will by a pend that is under way.
Void(e) ==
  /\ holds' = [t \in Tcb |-> IF holds[t] = e THEN NullEvent ELSE holds[t]]
  /\ voided' = voided \cup {t \in Tcb : at[t] \in {"pendwait", "pendwake"} /\ loc[t].ev = e}

\* With OS_DEL_NO_PEND the pip is freed although the owner may still be at it:
\* the task it inherited from timed out.  DelRule says that this does not happen.
OSMutexDel_NoPend(e) ==
  /\ InTask("del") /\ loc[OSTCBCur].ev = e /\ Apart(e)
  /\ DelRule => OSTCBPrioTbl[Pip(e)] = Reserved
  /\ IF OSEventTbl[e] = {}
     THEN /\ OSTCBPrioTbl' = [OSTCBPrioTbl EXCEPT ![Pip(e)] = NullTcb]
          /\ FreeEvent(e) /\ Void(e)
     ELSE UNCHANGED <<OSTCBPrioTbl, ecbVars, holds, voided>>
  /\ Return("app")
  /\ UNCHANGED <<OSRdyTbl, OSEventTbl, OSLockNesting, tcbVars, OSTCBList, OSTCBFreeList,
                 cpuVars, lowered>>

\* With OS_DEL_ALWAYS "we assume that the owner of the Mutex (if there is one) is
\* ready-to-run" (note 4): it is made ready at its own priority.
OSMutexDel_Always(e) ==
  LET o == Owner(e)
      low == o # NullEvent /\ OSTCBPrio[o] = Pip(e)
  IN  /\ InTask("delalways") /\ loc[OSTCBCur].ev = e /\ Apart(e)
      /\ o # NullEvent => OSTCBPrio[o] \in OSRdyTbl
      /\ OSTCBPrio' = IF low THEN [OSTCBPrio EXCEPT ![o] = MPrio(e)] ELSE OSTCBPrio
      /\ OSTCBPrioTbl' = [p \in Prio |-> IF p = Pip(e) THEN NullTcb
                                         ELSE IF low /\ p = MPrio(e) THEN o
                                         ELSE OSTCBPrioTbl[p]]
      /\ EventTaskRdy(IF low THEN RdyAtPrio(o, MPrio(e)) ELSE OSRdyTbl, e, OSEventTbl[e], "MUTEX")
      /\ FreeEvent(e) /\ Void(e)
      /\ IF OSEventTbl[e] = {} THEN Return("app") ELSE Return("sched")
      /\ lowered' = (lowered \/ (low /\ OSEventTbl[e] = {}))
      /\ UNCHANGED <<OSLockNesting, OSTCBList, OSTCBFreeList, cpuVars>>

---------------------------------------------------------------------------
MutexStep ==
  \/ OSMutexPend_Take \/ OSMutexPend_Wait \/ OSMutexPend_Timeout \/ OSMutexPend_Done
  \/ OSMutexCreate_Init
  \/ \E p \in Pips : OSMutexCreate(p)
  \/ \E e \in Event :
       \/ \E n \in Ticks : OSMutexPend(e, n)
       \/ /\ Owned(OSTCBCur) \subseteq {e}    \* a rule of use, as for OSMutexPend
          /\ Check("OSMutexAccept", "MUTEX", e, "accept", 0) /\ UNCHANGED <<holds, voided, lowered>>
       \/ OSMutexAccept(e)
       \/ Check("OSMutexPost", "MUTEX", e, "post", 0) /\ UNCHANGED <<holds, voided, lowered>>
       \/ OSMutexPost(e) \/ OSMutexPost_Refused(e)
       \/ Check("OSMutexDel", "MUTEX", e, "del", 0) /\ UNCHANGED <<holds, voided, lowered>>
       \/ OSMutexDel_NoPend(e)
       \/ Check("OSMutexDelAlways", "MUTEX", e, "delalways", 0) /\ UNCHANGED <<holds, voided, lowered>>
       \/ OSMutexDel_Always(e)

Next ==
  \/ MutexStep
  \/ /\ KernelStep /\ NamesSelf
     /\ lowered' = (lowered /\ ~(OSLockNesting = 0 /\ (OS_Sched \/ OSIntExit)))
     /\ UNCHANGED <<ecbVars, holds, voided>>

Spec == MutexInit /\ [][Next]_vars

---------------------------------------------------------------------------
\* Types of the mutexes' own variables.
MutexTypeOK ==
  /\ KernelTypeOK
  /\ OSEventType \in [Event -> {"MUTEX", "UNUSED"}]
  /\ OSEventCnt \in [Event -> Nat]
  /\ OSEventPtr \in [Event -> Tcb \cup Event \cup {NullEvent}]
  /\ OSEventFreeList \in Event \cup {NullEvent}
  /\ holds \in [Tcb -> Event \cup {NullEvent}]
  /\ voided \subseteq Tcb /\ lowered \in BOOLEAN

Live == {e \in Event : OSEventType[e] = "MUTEX"}

\* A task that was told it owns the mutex does, and the owner was told so or is on
\* its way to be: no two tasks are inside, and no mutex belongs to a task whose
\* OSMutexPend said OS_TIMEOUT, whichever of post and tick came first.
MutualExclusion ==
  \A e \in Live :
    /\ \A t \in Tcb : holds[t] = e => Owner(e) = t
    /\ Owner(e) # NullEvent =>
         LET o == Owner(e)
         IN  \/ holds[o] = e
             \/ at[o] \in {"pendwait", "pendwake"} /\ loc[o].ev = e /\ ~OSTCBPendTO[o]

\* Priority inheritance works: the owner outranks every task that waits for it,
\* also when it is delayed or suspended at the time and when owners change.
NoInversion ==
  \A e \in Live : Owner(e) # NullEvent =>
    \A p \in OSEventTbl[e] : OSTCBPrio[Owner(e)] < p

\* A task is at its own priority unless it owns a mutex, and then perhaps at that
\* one's pip; both its entries of OSTCBPrioTbl are its, and no other is.
PriorityGivenBack ==
  /\ \A t \in DOMAIN InitPrio :
       \/ OSTCBPrio[t] = InitPrio[t]
       \/ \E e \in Owned(t) : OSTCBPrio[t] = Pip(e) /\ MPrio(e) = InitPrio[t]
  /\ \A p \in Prio, t \in DOMAIN InitPrio :
       OSTCBPrioTbl[p] = t <=> p \in {InitPrio[t], OSTCBPrio[t]}

\* Nothing ready outranks the running task past its OS_Sched, except from the
\* OSMutexPost that took its inherited priority away to the next OS_Sched or
\* interrupt (compare RunsHighest).
OutrankedOnlyAfterPost == Settled /\ ~HighestIn(OSTCBPrio[OSTCBCur], OSRdyTbl) => lowered

---------------------------------------------------------------------------
\* The rules of use under which all of this holds, for any number of tasks and
\* mutexes: the kernel's; DelRule; a pip is "LOWER in value than ANY of the tasks
\* competing for the mutex" (OSMutexCreate); and no scheduler lock, under which a task
\* may delay itself and run on, until OSMutexPost makes it ready with its delay running.
MutexSafeUse ==
  /\ SafeUse /\ Inherits /\ DelRule /\ "OSSchedLock" \notin TaskCalls
  /\ \A p \in Pips, t \in DOMAIN InitPrio : p < InitPrio[t]

\* Every task was made before OSStart, and only tasks wait.  Who is inside a service of a
\* mutex, and does not wait, finds the mutex in use.
TasksFixed ==
  /\ OSTCBList = DOMAIN InitPrio \cup {Idle}
  /\ \A t \in Tcb : OSTCBEventPtr[t] # NullEvent => t \in OSTCBList
InsideLive ==
  \A t \in Tcb : at[t] \in {"pend", "post", "accept", "del", "delalways"} => loc[t].ev \in Live

\* The two bytes of OSEventCnt: the pip, and the owner's own priority or 0xFF.
BytesExact ==
  \A e \in Live :
    /\ Pip(e) \in Pips
    /\ IF Owner(e) = NullEvent THEN Available(e)
       ELSE Owner(e) \in DOMAIN InitPrio /\ MPrio(e) = InitPrio[Owner(e)]

\* Nobody waits for a mutex that is to be had.
AvailableUnawaited == \A e \in Live : Available(e) => OSEventTbl[e] = {}

\* A task owns one mutex, and none when it waits for one or is about to.
OwnsOne ==
  /\ \A e, f \in Live : Owner(e) = Owner(f) /\ Owner(e) # NullEvent => e = f
  /\ \A t \in Tcb : at[t] = "pend" \/ OSTCBEventPtr[t] # NullEvent => Owned(t) = {}
  /\ \A t \in Tcb : at[t] = "accept" => Owned(t) \subseteq {loc[t].ev}

\* The pips of the mutexes in use and of those being made are different, and the owner's
\* or nobody's.
PipsApart ==
  /\ \A e \in Live : \/ OSTCBPrioTbl[Pip(e)] = Reserved
                     \/ Owner(e) # NullEvent /\ OSTCBPrioTbl[Pip(e)] = Owner(e)
  /\ \A e, f \in Live : Pip(e) = Pip(f) => e = f
  /\ \A t \in Tcb : at[t] = "create" =>
       /\ loc[t].prio \in Pips /\ OSTCBPrioTbl[loc[t].prio] = Reserved
       /\ \A e \in Live : Pip(e) # loc[t].prio
       /\ \A u \in Tcb \ {t} : at[u] = "create" => loc[u].prio # loc[t].prio

\* What a task was told is so, and what a post did for a task inside its pend is there
\* when it runs, unless the mutex was deleted.
HoldsExact ==
  /\ \A t \in Tcb : holds[t] # NullEvent => holds[t] \in Live /\ Owner(holds[t]) = t
  /\ \A e \in Live : Owner(e) # NullEvent =>
       holds[Owner(e)] = e \/ (Pending(Owner(e)) /\ loc[Owner(e)].ev = e)
  /\ \A t \in Tcb : Pending(t) /\ OSTCBEventPtr[t] = NullEvent /\ t \notin voided =>
       loc[t].ev \in Live /\ Owner(loc[t].ev) = t
  /\ \A t \in voided : Pending(t) /\ OSTCBEventPtr[t] = NullEvent /\ Owned(t) = {}

\* Where a post took the priority away that the running task was switched in at, no
\* other task inherits that priority before the next switch.
SwitchedRight ==
  \/ OSPrioCur = OSTCBPrio[OSTCBCur] \/ at[OSTCBCur] = "sched"
  \/ \A e \in Live : Pip(e) = OSPrioCur => Owner(e) \in {NullEvent, OSTCBCur}

\* The inductive invariant.
MutexInv ==
  /\ EventInv /\ MutexTypeOK /\ FreeListSound /\ TasksFixed /\ InsideLive /\ BytesExact
  /\ AvailableUnawaited /\ OwnsOne /\ PipsApart /\ HoldsExact /\ SwitchedRight
  /\ MutualExclusion /\ NoInversion /\ PriorityGivenBack /\ OutrankedOnlyAfterPost
=============================================================================
