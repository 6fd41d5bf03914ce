-------------------------- MODULE UcosMutexProofs --------------------------
(***************************************************************************)
(* MutexInv holds for any number of tasks and mutexes, and with it that a  *)
(* mutex has one owner, which outranks every task that waits for it, and   *)
(* that inherited priorities are given back.  The lemmas of                *)
(* UcosEventProofs cover the regions that change no priority; the lemmas   *)
(* PromoteKeeps and LowerKeeps are for those that do.                      *)
(***************************************************************************)
EXTENDS UcosMutexRefinement, UcosEventProofs

---------------------------------------------------------------------------
\* What the constants mean.
LEMMA MutexConstants ==
  ASSUME MutexSafeUse
  PROVE  /\ SafeUse /\ Inherits /\ "OSTaskChangePrio" \notin TaskCalls
         /\ \A t \in DOMAIN InitPrio : /\ t \in Tcb /\ t # Idle /\ t # NullTcb /\ t # Reserved
                                       /\ t # NullEvent
                                       /\ InitPrio[t] \in UserPrio /\ InitPrio[t] <= 254
         /\ \A t, u \in DOMAIN InitPrio : InitPrio[t] = InitPrio[u] => t = u
         /\ \A p \in Pips : p \in UserPrio /\ \A t \in DOMAIN InitPrio : p < InitPrio[t]
         /\ \A p \in Prio : p \in Nat
  <1>1. SafeUse /\ Inherits /\ "OSTaskChangePrio" \notin TaskCalls
    BY DEF MutexSafeUse, SafeUse
  <1>2. \A p \in UserPrio : p \in Nat /\ p <= 254
    BY CoreAssumption, MutexAssumption DEF UserPrio, Prio
  <1>3. \A t \in DOMAIN InitPrio : /\ t \in Tcb /\ t # Idle /\ t # NullTcb /\ t # Reserved
                                   /\ t # NullEvent /\ InitPrio[t] \in UserPrio
    BY CoreAssumption, MutexAssumption DEF Tcb, UserPrio
  <1>4. \A p \in Prio : p \in Nat
    BY CoreAssumption DEF Prio
  <1> QED BY <1>1, <1>2, <1>3, <1>4, CoreAssumption, MutexAssumption DEF MutexSafeUse

\* With mutexes, the scheduler is not locked, and nothing is made or deleted.
LEMMA MutexFacts ==
  ASSUME MutexInv, MutexSafeUse
  PROVE  /\ EventInv /\ CoreInv /\ OSLockNesting = 0
         /\ \A t \in Tcb : ~Deleting(t) /\ ~Creating(t) /\ at[t] # "delwin"
         /\ OSTCBList = DOMAIN InitPrio \cup {Idle} /\ OSTCBList \subseteq Tcb
         /\ OSTCBCur \in Tcb
  <1>1. EventInv /\ CoreInv /\ OSTCBCur \in Tcb /\ OSLockNesting \in Nat
    BY CoreAssumption DEF MutexInv, EventInv, CoreInv, KernelTypeOK
  <1>2. \A t \in Tcb : at[t] # "delwin" /\ ~Creating(t)
    BY <1>1 DEF MutexSafeUse, CoreInv, DeletionHolds, CreationsApart
  <1>3. OSLockNesting = 0
    BY <1>1, <1>2 DEF MutexSafeUse, CoreInv, LockUnused
  <1>4. \A t \in Tcb : ~Deleting(t)
    BY <1>1, <1>2 DEF Deleting
  <1>5. OSTCBList = DOMAIN InitPrio \cup {Idle} /\ OSTCBList \subseteq Tcb
    BY <1>1 DEF MutexInv, TasksFixed, CoreInv, KernelTypeOK
  <1> QED BY <1>1, <1>2, <1>3, <1>4, <1>5

\* An owner waits for nothing, and is at its own priority or at the one it inherited.
LEMMA OwnerIs ==
  ASSUME MutexInv, MutexSafeUse, NEW e \in Live, Owner(e) # NullEvent
  PROVE  /\ Owner(e) \in DOMAIN InitPrio /\ Owner(e) \in OSTCBList /\ Owner(e) \in Tcb
         /\ Owner(e) # Idle /\ Owner(e) \notin {NullTcb, Reserved}
         /\ OSTCBEventPtr[Owner(e)] = NullEvent /\ at[Owner(e)] # "pend"
         /\ MPrio(e) = InitPrio[Owner(e)] /\ Pip(e) < InitPrio[Owner(e)] /\ ~Available(e)
         /\ Pip(e) \in Pips /\ Pip(e) \in UserPrio
         /\ OSTCBPrio[Owner(e)] \in {InitPrio[Owner(e)], Pip(e)}
         /\ OSTCBPrioTbl[Pip(e)] = Owner(e) <=> OSTCBPrio[Owner(e)] = Pip(e)
         /\ \A f \in Live : Owner(f) = Owner(e) => f = e
         /\ Owned(Owner(e)) = {e}
  <1> DEFINE o == Owner(e)
  <1>1. /\ o \in DOMAIN InitPrio /\ MPrio(e) = InitPrio[o] /\ Pip(e) \in Pips
    BY DEF MutexInv, BytesExact
  <1>2. /\ o \in Tcb /\ o # Idle /\ o \notin {NullTcb, Reserved} /\ o \in OSTCBList
        /\ Pip(e) < InitPrio[o] /\ Pip(e) \in UserPrio /\ InitPrio[o] <= 254 /\ InitPrio[o] \in Nat
        /\ Pip(e) \in Nat
    BY <1>1, MutexConstants, MutexFacts, CoreAssumption DEF UserPrio, Prio
  <1>3. ~Available(e)
    BY <1>1, <1>2 DEF Available, OS_MUTEX_AVAILABLE
  <1>4. e \in Owned(o) /\ \A f \in Live : Owner(f) = o => f = e
    BY DEF Owned, Live, MutexInv, OwnsOne
  <1>5. Owned(o) = {e}
    BY <1>4 DEF Owned, Live
  <1>6. OSTCBEventPtr[o] = NullEvent /\ at[o] # "pend"
    BY <1>2, <1>5 DEF MutexInv, OwnsOne
  <1>7. OSTCBPrio[o] \in {InitPrio[o], Pip(e)}
    BY <1>1, <1>5 DEF MutexInv, PriorityGivenBack
  <1>8. OSTCBPrioTbl[Pip(e)] = o <=> OSTCBPrio[o] = Pip(e)
    <2>1. OSTCBPrioTbl[Pip(e)] = o <=> Pip(e) \in {InitPrio[o], OSTCBPrio[o]}
      BY <1>1, <1>2 DEF MutexInv, PriorityGivenBack, UserPrio
    <2> QED BY <1>2, <1>7, <2>1
  <1> QED BY <1>1, <1>2, <1>3, <1>4, <1>5, <1>6, <1>7, <1>8

\* A task that owns nothing is at its own priority, and has no other.
LEMMA OwnerlessIs ==
  ASSUME MutexInv, MutexSafeUse, NEW t \in DOMAIN InitPrio, Owned(t) = {}
  PROVE  OSTCBPrio[t] = InitPrio[t] /\ \A p \in Prio : OSTCBPrioTbl[p] = t <=> p = InitPrio[t]
  <1>1. OSTCBPrio[t] = InitPrio[t]
    BY DEF MutexInv, PriorityGivenBack
  <1> QED BY <1>1 DEF MutexInv, PriorityGivenBack

\* A task that waits owns nothing; its event is a mutex in use.
LEMMA WaiterOwnsNone ==
  ASSUME MutexInv, MutexSafeUse, NEW e \in Event, NEW p \in OSEventTbl[e]
  PROVE  /\ e \in Live /\ p \in Prio /\ OSTCBPrioTbl[p] \in DOMAIN InitPrio
         /\ OSTCBPrioTbl[p] \in OSTCBList /\ OSTCBPrioTbl[p] \in Tcb
         /\ InitPrio[OSTCBPrioTbl[p]] = p /\ OSTCBPrio[OSTCBPrioTbl[p]] = p
         /\ OSTCBEventPtr[OSTCBPrioTbl[p]] = e /\ Owned(OSTCBPrioTbl[p]) = {}
         /\ Pending(OSTCBPrioTbl[p]) /\ loc[OSTCBPrioTbl[p]].ev = e
  <1> DEFINE w == OSTCBPrioTbl[p]
  <1>1. /\ p \in Prio /\ w \in OSTCBList /\ w \in Tcb /\ OSTCBPrio[w] = p /\ OSTCBEventPtr[w] = e
        /\ ~Deleting(w)
    BY MutexFacts, WaiterAt
  <1>2. Pending(w) /\ loc[w].ev = e
    BY <1>1, MutexFacts, PenderAt, CoreAssumption
  <1>3. w # Idle /\ w \in DOMAIN InitPrio
    BY <1>1, <1>2, MutexFacts DEF CoreInv, IdleStays, Pending
  <1>4. Owned(w) = {}
    BY <1>1, CoreAssumption DEF MutexInv, OwnsOne
  <1>5. OSEventType[e] # "UNUSED" /\ OSEventType[e] \in {"MUTEX", "UNUSED"}
    BY DEF MutexInv, EventInv, BlocksApart, MutexTypeOK
  <1> QED BY <1>1, <1>2, <1>3, <1>4, <1>5, OwnerlessIs DEF Live

---------------------------------------------------------------------------
\* Regions and steps of the kernel that change no block and no priority.

\* Nobody but the tasks that run moves, into a service of a block in use or out of one.
Inside == {"pend", "post", "accept", "del", "delalways"}
PlacesQuiet ==
  \A t \in Tcb :
    \/ at'[t] = at[t] /\ loc'[t] = loc[t]
    \/ at[t] = "pendwait" /\ at'[t] = "pendwake" /\ loc'[t] = loc[t]
    \/ at'[t] \in {"app", "sched"} /\ ~Pending(t)
    \/ /\ ~Pending(t) /\ at'[t] \in Inside /\ loc'[t].ev \in Live
       /\ at'[t] = "pend" => Owned(t) = {}
       /\ at'[t] = "accept" => Owned(t) \subseteq {loc'[t].ev}

LEMMA BlocksStay ==
  ASSUME MutexInv, UNCHANGED <<ecbVars, OSTCBPrio, OSTCBPrioTbl, OSTCBList>>,
         \A t \in Tcb : OSTCBEventPtr'[t] \in {OSTCBEventPtr[t], NullEvent},
         \A e \in Event : OSEventTbl'[e] \subseteq OSEventTbl[e]
  PROVE  /\ TasksFixed' /\ BytesExact' /\ AvailableUnawaited' /\ NoInversion' /\ PriorityGivenBack'
         /\ Live' = Live /\ \A t : Owned(t)' = Owned(t)
         /\ \A e : Owner(e)' = Owner(e) /\ Pip(e)' = Pip(e)
  <1>1. UNCHANGED <<OSEventType, OSEventCnt, OSEventPtr>>
    BY DEF ecbVars
  <1>2. /\ Live' = Live /\ Live \subseteq Event /\ \A t : Owned(t)' = Owned(t)
        /\ \A e : /\ Owner(e)' = Owner(e) /\ Pip(e)' = Pip(e) /\ MPrio(e)' = MPrio(e)
                  /\ (Available(e)' <=> Available(e))
    BY <1>1 DEF Live, Owned, Owner, Pip, MPrio, Available
  <1>3. TasksFixed' /\ BytesExact' /\ AvailableUnawaited' /\ NoInversion'
    BY <1>2 DEF MutexInv, TasksFixed, BytesExact, AvailableUnawaited, NoInversion
  <1>4. PriorityGivenBack'
    BY <1>2 DEF MutexInv, PriorityGivenBack
  <1> QED BY <1>2, <1>3, <1>4

LEMMA PlacesStay ==
  ASSUME MutexInv, UNCHANGED <<ecbVars, OSTCBPrio, OSTCBPrioTbl, OSTCBList, OSTCBEventPtr, holds, voided>>,
         \A e \in Event : OSEventTbl'[e] \subseteq OSEventTbl[e], PlacesQuiet
  PROVE  InsideLive' /\ OwnsOne' /\ PipsApart' /\ HoldsExact'
  <1>1. /\ Live' = Live /\ \A t : Owned(t)' = Owned(t)
        /\ \A e : Owner(e)' = Owner(e) /\ Pip(e)' = Pip(e)
    BY BlocksStay
  <1>2. \A t \in Tcb :
          /\ Pending(t)' <=> Pending(t)
          /\ Pending(t) => loc'[t] = loc[t]
          /\ at'[t] = "create" => at[t] = "create" /\ loc'[t] = loc[t]
    BY DEF PlacesQuiet, Pending, Inside
  <1>3. InsideLive'
    BY <1>1 DEF MutexInv, InsideLive, PlacesQuiet, Inside
  <1>4. OwnsOne'
    BY <1>1 DEF MutexInv, OwnsOne, PlacesQuiet, Inside
  <1>5. PipsApart'
    BY <1>1, <1>2 DEF MutexInv, PipsApart
  <1>6. HoldsExact'
    <2>1. \A e \in Live : Owner(e) # NullEvent => Owner(e) \in Tcb
      BY CoreAssumption DEF MutexInv, BytesExact, Tcb
    <2>2. voided \subseteq Tcb
      BY DEF MutexInv, MutexTypeOK
    <2> QED BY <1>1, <1>2, <2>1, <2>2 DEF MutexInv, HoldsExact
  <1> QED BY <1>3, <1>4, <1>5, <1>6

\* One owner: who was told so, or who is on its way to be and has not timed out, for a
\* task that timed out owns nothing.
LEMMA OneOwnerNext ==
  ASSUME MutexSafeUse, EventInv', TasksFixed', BytesExact', OwnsOne', HoldsExact'
  PROVE  MutualExclusion'
  <1>1. \A e \in Live', t \in Tcb : holds'[t] = e => Owner(e)' = t
    BY CoreAssumption DEF HoldsExact, Live
  <1>2. ASSUME NEW e \in Live', NEW o, o = Owner(e)', o # NullEvent
        PROVE  \/ holds'[o] = e
               \/ at'[o] \in {"pendwait", "pendwake"} /\ loc'[o].ev = e /\ ~OSTCBPendTO'[o]
    <2>1. /\ o \in OSTCBList' /\ o \in Tcb /\ Owned(o)' # {}
      BY <1>2, CoreAssumption DEF TasksFixed, BytesExact, Owned, Live, Tcb
    <2>2. OSTCBEventPtr'[o] = NullEvent
      BY <2>1 DEF OwnsOne
    <2>3. ~Deleting(o)'
      BY DEF MutexSafeUse, EventInv, CoreInv, KernelTypeOK, DeletionHolds, Deleting, Inherits
    <2>4. ~OSTCBPendTO'[o]
      BY <2>1, <2>2, <2>3 DEF EventInv, WaitsExact, PendLinked
    <2> QED BY <1>2, <2>4 DEF HoldsExact, Pending
  <1> QED BY <1>1, <1>2 DEF MutualExclusion

\* The invariant after a step, part by part.
LEMMA MutexInvNext ==
  ASSUME MutexSafeUse, EventInv', FreeListSound', TasksFixed', InsideLive', BytesExact',
         AvailableUnawaited', OwnsOne', PipsApart', HoldsExact', SwitchedRight',
         NoInversion', PriorityGivenBack', OutrankedOnlyAfterPost',
         OSEventType' \in [Event -> {"MUTEX", "UNUSED"}], OSEventCnt' \in [Event -> Nat],
         OSEventPtr' \in [Event -> Tcb \cup Event \cup {NullEvent}],
         OSEventFreeList' \in Event \cup {NullEvent},
         holds' \in [Tcb -> Event \cup {NullEvent}], voided' \subseteq Tcb, lowered' \in BOOLEAN
  PROVE  MutexInv'
  <1>1. KernelTypeOK'
    BY DEF EventInv, CoreInv
  <1>2. MutexTypeOK'
    BY <1>1 DEF MutexTypeOK
  <1>3. MutualExclusion'
    BY OneOwnerNext
  <1> QED BY <1>2, <1>3, Zenon DEF MutexInv

LEMMA TypesAre ==
  ASSUME MutexInv
  PROVE  /\ OSEventType \in [Event -> {"MUTEX", "UNUSED"}] /\ OSEventCnt \in [Event -> Nat]
         /\ OSEventPtr \in [Event -> Tcb \cup Event \cup {NullEvent}]
         /\ OSEventFreeList \in Event \cup {NullEvent}
         /\ holds \in [Tcb -> Event \cup {NullEvent}] /\ voided \subseteq Tcb /\ lowered \in BOOLEAN
  BY DEF MutexInv, MutexTypeOK

LEMMA QuietMutex ==
  ASSUME MutexInv, MutexSafeUse, EventInv', FreeListSound', PlacesQuiet,
         UNCHANGED <<ecbVars, OSTCBPrio, OSTCBPrioTbl, OSTCBList, OSTCBEventPtr, holds, voided>>,
         \A e \in Event : OSEventTbl'[e] \subseteq OSEventTbl[e],
         SwitchedRight', OutrankedOnlyAfterPost', lowered' \in BOOLEAN
  PROVE  MutexInv'
  <1>1. /\ TasksFixed' /\ BytesExact' /\ AvailableUnawaited' /\ NoInversion' /\ PriorityGivenBack'
    BY BlocksStay
  <1>2. InsideLive' /\ OwnsOne' /\ PipsApart' /\ HoldsExact'
    BY PlacesStay
  <1>3. /\ OSEventType' \in [Event -> {"MUTEX", "UNUSED"}] /\ OSEventCnt' \in [Event -> Nat]
        /\ OSEventPtr' \in [Event -> Tcb \cup Event \cup {NullEvent}]
        /\ OSEventFreeList' \in Event \cup {NullEvent}
        /\ holds' \in [Tcb -> Event \cup {NullEvent}] /\ voided' \subseteq Tcb
    BY TypesAre DEF ecbVars
  <1> QED BY <1>1, <1>2, <1>3, MutexInvNext

\* Outranked only after a post, said as it is used.
LEMMA OutrankedIs == OutrankedOnlyAfterPost <=> lowered \/ RunsHighest
  BY DEF OutrankedOnlyAfterPost, RunsHighest
LEMMA OutrankedIsNext == OutrankedOnlyAfterPost' <=> lowered' \/ RunsHighest'
  BY DEF OutrankedOnlyAfterPost, RunsHighest

\* A step of the kernel leaves priorities, blocks and wait lists alone, and moves the
\* running task to or from its OS_Sched only.
LEMMA KernelLeaves ==
  ASSUME MutexInv, MutexSafeUse, KernelStep
  PROVE  /\ UNCHANGED <<OSTCBPrio, OSTCBEventPtr, OSTCBPrioTbl, OSTCBList, OSEventTbl, loc>>
         /\ \A t \in Tcb : \/ at'[t] = at[t]
                           \/ at[t] = "pendwait" /\ at'[t] = "pendwake"
                           \/ at[t] \in {"app", "sched"} /\ at'[t] \in {"app", "sched"}
         /\ \/ OS_Sched \/ OSIntExit
            \/ /\ UNCHANGED <<OSTCBCur, OSPrioCur>>
               /\ at[OSTCBCur] = "sched" => at'[OSTCBCur] = "sched"
  <1> DEFINE Move == \A t \in Tcb : \/ at'[t] = at[t]
                                    \/ at[t] = "pendwait" /\ at'[t] = "pendwake"
                                    \/ at[t] \in {"app", "sched"} /\ at'[t] \in {"app", "sched"}
             Leave == UNCHANGED <<OSTCBPrio, OSTCBEventPtr, OSTCBPrioTbl, OSTCBList, OSEventTbl, loc>>
             Stay == /\ UNCHANGED <<OSTCBCur, OSPrioCur>>
                     /\ at[OSTCBCur] = "sched" => at'[OSTCBCur] = "sched"
  <1>1. CoreInv /\ OSTCBCur \in Tcb /\ at \in [Tcb -> Label]
    BY MutexFacts DEF CoreInv, KernelTypeOK
  <1>2. \A t \in Tcb : ~Creating(t) /\ at[t] # "delwin"
    BY MutexFacts
  <1>3. CASE OS_Sched \/ OSIntExit
    <2>1. Leave
      BY <1>3 DEF OS_Sched, OSIntExit, tcbVars, tblVars
    <2>2. Move
      BY <1>1, <1>3 DEF OS_Sched, OSIntExit, InTask
    <2> QED BY <1>3, <2>1, <2>2
  <1>4. CASE OSIntEnter \/ OSTimeTick
    BY <1>4 DEF OSIntEnter, OSTimeTick, tcbVars, tblVars, cpuVars
  <1>5. ASSUME NEW s, Call(s), NEW l \in {"sched", "app"}, Goto(l), Leave, UNCHANGED <<OSTCBCur, OSPrioCur>>
        PROVE  Leave /\ Move /\ Stay
    BY <1>1, <1>5, ServiceReturns
  <1>6. CASE OSSchedLock \/ OSSchedUnlock
    <2>1. ~OSSchedLock /\ ~OSSchedUnlock
      BY DEF MutexSafeUse, OSSchedLock, OSSchedUnlock, TaskCall
    <2> QED BY <1>6, <2>1
  <1>7. CASE TimeStep
    <2>1. ASSUME NEW n \in Ticks, OSTimeDly(n) PROVE Leave /\ Move /\ Stay
      BY <1>5, <2>1 DEF OSTimeDly, Call, tblVars, cpuVars
    <2>2. ASSUME NEW p \in UserPrio, OSTimeDlyResume(p) PROVE Leave /\ Move /\ Stay
      BY <1>5, <2>2 DEF OSTimeDlyResume, tblVars, cpuVars
    <2> QED BY <1>7, <2>1, <2>2 DEF TimeStep, UserPrio
  <1>8. CASE TaskStep
    <2>1. ~OS_TCBInit_Take /\ ~OS_TCBInit_Link /\ ~OSTaskCreate_Undo /\ ~OSTaskDel_Free
      BY <1>1, <1>2 DEF OS_TCBInit_Take, OS_TCBInit_Link, OSTaskCreate_Undo, OSTaskDel_Free, InTask, Creating
    <2>2. \A p \in UserPrio : /\ ~OSTaskCreate(p) /\ ~OSTaskDel(p)
                              /\ \A q \in UserPrio : ~OSTaskChangePrio(p, q)
      BY DEF MutexSafeUse, SafeUse, OSTaskCreate, OSTaskDel, OSTaskChangePrio, Call, TaskCall, IsrCall
    <2>3. ASSUME NEW p \in UserPrio, OSTaskSuspend(p) PROVE Leave /\ Move /\ Stay
      BY <1>5, <2>3 DEF OSTaskSuspend, tblVars, cpuVars
    <2>4. ASSUME NEW p \in UserPrio, OSTaskResume(p) PROVE Leave /\ Move /\ Stay
      BY <1>5, <2>4 DEF OSTaskResume, tblVars, cpuVars
    <2> QED BY <1>8, <2>1, <2>2, <2>3, <2>4 DEF TaskStep
  <1> QED BY <1>3, <1>4, <1>6, <1>7, <1>8 DEF KernelStep

LEMMA MutexKernelKeeps ==
  ASSUME MutexInv, MutexSafeUse, KernelStep, NamesSelf,
         lowered' = (lowered /\ ~(OSLockNesting = 0 /\ (OS_Sched \/ OSIntExit))),
         UNCHANGED <<ecbVars, holds, voided>>
  PROVE  MutexInv'
  <1>1. /\ EventInv' /\ PlacesKept /\ (RunsHighest => RunsHighest')
        /\ \A e \in Event : OSEventTbl'[e] \subseteq OSEventTbl[e]
    BY MutexFacts, MutexConstants, KernelKeepsEvents DEF ecbVars
  <1>2. FreeListSound'
    BY <1>1, KernelKeepsList DEF MutexInv
  <1>3. PlacesQuiet
    BY KernelLeaves DEF PlacesQuiet, Pending
  <1>4. lowered' \in BOOLEAN /\ OutrankedOnlyAfterPost'
    <2>1. lowered \in BOOLEAN /\ (lowered \/ RunsHighest)
      BY TypesAre, OutrankedIs DEF MutexInv
    <2>2. CASE OS_Sched \/ OSIntExit
      BY <2>2, MutexFacts, SchedSettles, OutrankedIsNext
    <2>3. CASE ~(OS_Sched \/ OSIntExit)
      BY <1>1, <2>1, <2>3, OutrankedIsNext
    <2>4. lowered' \in BOOLEAN
      BY <2>1
    <2> QED BY <2>2, <2>3, <2>4
  <1>5. SwitchedRight'
    <2>1. CASE OS_Sched \/ OSIntExit
      BY <2>1, MutexFacts, DispatchKeeps DEF OS_Sched, OSIntExit, SwitchedRight, tcbVars
    <2>2. CASE ~(OS_Sched \/ OSIntExit)
      BY <1>1, <2>2, KernelLeaves, BlocksStay DEF SwitchedRight, MutexInv
    <2> QED BY <2>1, <2>2
  <1> QED BY <1>1, <1>2, <1>3, <1>4, <1>5, KernelLeaves, QuietMutex

---------------------------------------------------------------------------
\* The regions that begin a service, and those that change no priority.

LEMMA MutexCheckKeeps ==
  ASSUME MutexInv, MutexSafeUse, NEW s, NEW e \in Event, NEW n \in Ticks, NEW l \in Inside,
         l = "pend" => Owned(OSTCBCur) = {}, l = "accept" => Owned(OSTCBCur) \subseteq {e},
         Check(s, "MUTEX", e, l, n), UNCHANGED <<holds, voided, lowered>>
  PROVE  MutexInv'
  <1>1. l \in Points \ {"pendwake", "take", "qinit", "create"} /\ EventInv /\ OSLockNesting = 0
    BY MutexFacts DEF Inside, Points
  <1>2. /\ EventInv' /\ (RunsHighest => RunsHighest')
        /\ OSTCBCur \in Tcb /\ OSIntNesting = 0 /\ at[OSTCBCur] = "app" /\ at'[OSTCBCur] = l
        /\ loc'[OSTCBCur].ev = e /\ Moves({"app"}, l)
        /\ UNCHANGED <<OSRdyTbl, OSEventTbl, OSLockNesting, tcbVars, tblVars, cpuVars, ecbVars>>
    BY <1>1, CheckKeeps
  <1>3. e \in Live
    BY DEF Check, Live
  <1>4. PlacesQuiet
    BY <1>2, <1>3 DEF PlacesQuiet, Moves, Pending
  <1>5. FreeListSound'
    BY <1>2, ServiceKeepsList DEF MutexInv, Inside, Label
  <1>6. SwitchedRight'
    BY <1>2, BlocksStay DEF MutexInv, SwitchedRight, tcbVars, tblVars, cpuVars
  <1>7. OutrankedOnlyAfterPost' /\ lowered' \in BOOLEAN
    BY <1>2, TypesAre, OutrankedIs, OutrankedIsNext DEF MutexInv
  <1> QED BY <1>2, <1>4, <1>5, <1>6, <1>7, QuietMutex DEF tcbVars, tblVars

\* A service that has nothing to do: a mutex that is not to be had, a task that is
\* not the owner, a deletion while others wait.
LEMMA NothingDone ==
  ASSUME MutexInv, MutexSafeUse, OSIntNesting = 0, at[OSTCBCur] \in Inside, Return("app"),
         UNCHANGED <<OSRdyTbl, OSEventTbl, OSLockNesting, tcbVars, tblVars, cpuVars, mutexVars>>
  PROVE  MutexInv'
  <1>1. /\ EventInv' /\ (RunsHighest => RunsHighest') /\ Moves(Points \ {"app", "pendwake"}, "app")
    BY MutexFacts, ReturnKeeps DEF Inside, Points, mutexVars, ecbVars
  <1>2. Moves(Inside, "app") /\ OSTCBCur \in Tcb
    BY <1>1, MutexFacts DEF Moves
  <1>3. PlacesQuiet
    BY <1>2 DEF PlacesQuiet, Moves, Pending, Inside
  <1>4. FreeListSound'
    BY <1>2, ServiceKeepsList DEF MutexInv, Inside, Label, mutexVars
  <1>5. SwitchedRight'
    BY <1>2, BlocksStay DEF MutexInv, SwitchedRight, tcbVars, tblVars, cpuVars, mutexVars, Inside
  <1>6. OutrankedOnlyAfterPost' /\ lowered' \in BOOLEAN
    BY <1>1, TypesAre, OutrankedIs, OutrankedIsNext DEF MutexInv, mutexVars
  <1> QED BY <1>1, <1>3, <1>4, <1>5, <1>6, QuietMutex DEF tcbVars, tblVars, mutexVars

\* The two bytes of OSEventCnt.
Word(a, b) == a * 256 + b
Upper(w) == w \div 256
Lower(w) == w % 256
LEMMA BytesOf ==
  ASSUME NEW a \in Nat, NEW b \in 0 .. 255
  PROVE  Word(a, b) \in Nat /\ Upper(Word(a, b)) = a /\ Lower(Word(a, b)) = b
  BY DEF Word, Upper, Lower
LEMMA FreeWord ==
  ASSUME NEW a \in Nat
  PROVE  Word(a, 255) \in Nat /\ Upper(Word(a, 255)) = a /\ Lower(Word(a, 255)) = 255
  BY DEF Word, Upper, Lower

\* A task takes a mutex that is to be had.
LEMMA OwnKeeps ==
  ASSUME MutexInv, MutexSafeUse, OSIntNesting = 0, at[OSTCBCur] \in {"pend", "accept"},
         NEW e \in Event, loc[OSTCBCur].ev = e, Available(e), Own(e, OSTCBCur),
         holds' = [holds EXCEPT ![OSTCBCur] = e], Return("app"),
         UNCHANGED <<OSRdyTbl, OSEventTbl, OSLockNesting, tcbVars, tblVars, cpuVars,
                     OSEventType, OSEventFreeList, voided, lowered>>
  PROVE  MutexInv'
  <1> DEFINE me == OSTCBCur
  <1>1. /\ EventInv' /\ (RunsHighest => RunsHighest') /\ Moves(Points \ {"app", "pendwake"}, "app")
    BY MutexFacts, ReturnKeeps DEF Points
  <1>2. Moves({"pend", "accept"}, "app") /\ me \in Tcb /\ me # Idle
    BY <1>1, MutexFacts DEF Moves
  <1>3. /\ at'[me] = "app" /\ at[me] \in {"pend", "accept"}
        /\ \A t \in Tcb \ {me} : at'[t] = at[t] /\ loc'[t] = loc[t]
    BY <1>2 DEF Moves
  <1>4. e \in Live /\ Owner(e) = NullEvent /\ OSEventTbl[e] = {} /\ Live \subseteq Event
    <2>1. e \in Live
      BY <1>2, <1>3 DEF MutexInv, InsideLive
    <2> QED BY <2>1, OwnerIs DEF MutexInv, AvailableUnawaited, Live
  <1>5. me \in DOMAIN InitPrio /\ OSTCBEventPtr[me] = NullEvent
    BY <1>2, <1>3, RunnerAt, MutexFacts DEF Points
  <1>6. Owned(me) = {}
    <2>1. e \notin Owned(me)
      BY <1>4, <1>5, MutexConstants DEF Owned
    <2> QED BY <1>2, <1>3, <2>1 DEF MutexInv, OwnsOne
  <1>7. /\ OSTCBPrio[me] = InitPrio[me] /\ OSTCBPrio[me] \in 0 .. 255 /\ InitPrio[me] \in Nat
        /\ InitPrio[me] <= 254
    BY <1>5, <1>6, OwnerlessIs, MutexConstants, CoreAssumption DEF UserPrio, Prio
  <1>8. /\ OSEventCnt' \in [Event -> Nat] /\ Pip(e)' = Pip(e) /\ MPrio(e)' = InitPrio[me]
        /\ \A f \in Event \ {e} : Pip(f)' = Pip(f) /\ MPrio(f)' = MPrio(f)
    <2>1. Pip(e) \in Nat
      BY <1>4, MutexConstants, CoreAssumption DEF MutexInv, BytesExact, UserPrio, Prio
    <2>2. OSEventCnt' = [OSEventCnt EXCEPT ![e] = Pip(e) * 256 + InitPrio[me]]
      BY <1>7 DEF Own
    <2>3. InitPrio[me] \in 0 .. 255
      BY <1>7
    <2>4. OSEventCnt \in [Event -> Nat]
      BY TypesAre
    <2>5. /\ OSEventCnt' \in [Event -> Nat]
          /\ OSEventCnt'[e] \div 256 = Pip(e) /\ OSEventCnt'[e] % 256 = InitPrio[me]
          /\ \A f \in Event \ {e} : OSEventCnt'[f] = OSEventCnt[f]
      <3> PICK a \in Nat, b \in 0 .. 255 : a = Pip(e) /\ b = InitPrio[me]
        BY <2>1, <2>3
      <3>1. OSEventCnt' = [OSEventCnt EXCEPT ![e] = Word(a, b)]
        BY <2>2 DEF Word
      <3>2. Word(a, b) \in Nat /\ Upper(Word(a, b)) = a /\ Lower(Word(a, b)) = b
        BY BytesOf
      <3>3. Word(a, b) \div 256 = a
        BY <3>2 DEF Upper
      <3>4. Word(a, b) % 256 = b
        BY <3>2 DEF Lower
      <3> QED BY <2>4, <3>1, <3>2, <3>3, <3>4
    <2> QED BY <2>5 DEF Pip, MPrio
  <1>9. /\ OSEventPtr' \in [Event -> Tcb \cup Event \cup {NullEvent}]
        /\ Owner(e)' = me /\ \A f \in Event \ {e} : Owner(f)' = Owner(f)
        /\ Live' = Live
    BY <1>2, <1>4, TypesAre DEF Own, Owner, Live
  <1>10. /\ Owned(me)' = {e} /\ \A t \in Tcb \ {me} : Owned(t)' = Owned(t)
         /\ me # NullEvent
    <2>1. \A t : Owned(t) = {f \in Live : Owner(f) = t} /\ Owned(t)' = {f \in Live' : Owner(f)' = t}
      BY DEF Owned, Live
    <2>2. \A t \in Tcb : t # NullEvent
      BY MutexAssumption
    <2>3. \A t \in Tcb : \A f \in Live : Owner(f)' = t <=> Owner(f) = t \/ (f = e /\ t = me)
      <3>1. \A f \in Live : f # e => Owner(f)' = Owner(f)
        BY <1>4, <1>9
      <3> QED BY <1>2, <1>4, <1>9, <2>2, <3>1
    <2>4. \A f \in Live : Owner(f) # me
      BY <1>6, <2>1
    <2>5. Owned(me)' = {e}
      <3>1. Owned(me)' = {f \in Live : OSEventPtr'[f] = me}
        BY <1>9 DEF Owned, Live, Owner, cpuVars
      <3>2. \A f \in Live : OSEventPtr'[f] = me <=> f = e
        BY <1>2, <2>3, <2>4 DEF Owner
      <3> QED BY <1>4, <3>1, <3>2
    <2>6. ASSUME NEW t \in Tcb \ {me} PROVE Owned(t)' = Owned(t)
      BY <1>9, <2>1, <2>3
    <2> QED BY <1>2, <2>2, <2>5, <2>6
  <1>11. FreeListSound'
    <2>1. \A t \in Tcb : (Making(t)' <=> Making(t)) /\ (Making(t) => loc'[t].ev = loc[t].ev)
      BY <1>3 DEF Making
    <2>2. Taken' = Taken
      BY <2>1, TakenSame
    <2>3. Untaken' = Untaken /\ e \notin Untaken
      BY <1>4, <2>2 DEF Untaken, Live
    <2>4. \A f \in Untaken : OSEventPtr'[f] = OSEventPtr[f]
      BY <1>9, <2>3 DEF Untaken, Owner
    <2> QED BY <2>3, <2>4, FreeListStays DEF MutexInv
  <1>12. TasksFixed' /\ InsideLive'
    BY <1>3, <1>9 DEF MutexInv, TasksFixed, InsideLive, tblVars, tcbVars
  <1>13. BytesExact'
    BY <1>4, <1>5, <1>8, <1>9, <1>10 DEF MutexInv, BytesExact, Available
  <1>14. AvailableUnawaited' /\ NoInversion'
    BY <1>4, <1>8, <1>9 DEF MutexInv, AvailableUnawaited, NoInversion, Available, tcbVars
  <1>15. OwnsOne'
    <2>1. \A f, g \in Live : Owner(f)' = Owner(g)' /\ Owner(f)' # NullEvent => f = g
      BY <1>6, <1>4, <1>9 DEF MutexInv, OwnsOne, Owned, Live
    <2>2. \A t \in Tcb : at'[t] = "pend" \/ OSTCBEventPtr'[t] # NullEvent => Owned(t)' = {}
      BY <1>3, <1>5, <1>10 DEF MutexInv, OwnsOne, tcbVars
    <2>3. \A t \in Tcb : at'[t] = "accept" => Owned(t)' \subseteq {loc'[t].ev}
      BY <1>3, <1>10 DEF MutexInv, OwnsOne
    <2> QED BY <1>9, <2>1, <2>2, <2>3 DEF OwnsOne
  <1>16. PipsApart'
    <2>1. \A f \in Live : Pip(f)' = Pip(f)
      BY <1>4, <1>8
    <2>2. OSTCBPrioTbl[Pip(e)] = Reserved
      BY <1>4 DEF MutexInv, PipsApart
    <2>3. \A t \in Tcb : at'[t] = "create" => at[t] = "create" /\ loc'[t] = loc[t]
      BY <1>3
    <2>4. \A f \in Live : \/ OSTCBPrioTbl'[Pip(f)'] = Reserved
                          \/ Owner(f)' # NullEvent /\ OSTCBPrioTbl'[Pip(f)'] = Owner(f)'
      BY <1>4, <1>9, <2>1, <2>2 DEF MutexInv, PipsApart, tblVars
    <2>5. /\ \A f, g \in Live : Pip(f)' = Pip(g)' => f = g
          /\ \A t \in Tcb : at'[t] = "create" =>
               /\ loc'[t].prio \in Pips /\ OSTCBPrioTbl'[loc'[t].prio] = Reserved
               /\ \A f \in Live : Pip(f)' # loc'[t].prio
               /\ \A u \in Tcb \ {t} : at'[u] = "create" => loc'[u].prio # loc'[t].prio
      BY <2>1, <2>3 DEF MutexInv, PipsApart, tblVars
    <2> QED BY <1>9, <2>4, <2>5 DEF PipsApart
  <1>17. HoldsExact' /\ holds' \in [Tcb -> Event \cup {NullEvent}]
    <2>1. /\ holds'[me] = e /\ \A t \in Tcb \ {me} : holds'[t] = holds[t]
          /\ holds' \in [Tcb -> Event \cup {NullEvent}]
      BY <1>2, TypesAre
    <2>2. \A t \in Tcb : holds'[t] # NullEvent => holds'[t] \in Live /\ OSEventPtr'[holds'[t]] = t
      <3>1. \A t \in Tcb \ {me} : holds[t] # NullEvent => holds[t] \in Live \ {e} /\ Owner(holds[t]) = t
        BY <1>4, MutexAssumption DEF MutexInv, HoldsExact
      <3> QED BY <1>4, <1>9, <2>1, <3>1 DEF Owner
    <2>3. \A f \in Live : Owner(f)' # NullEvent =>
            holds'[Owner(f)'] = f \/ (Pending(Owner(f))' /\ loc'[Owner(f)'].ev = f)
      <3>1. \A f \in Live \ {e} : Owner(f) # NullEvent => Owner(f) \in Tcb \ {me}
        BY <1>6, OwnerIs DEF Owned, Live
      <3> QED BY <1>2, <1>3, <1>4, <1>9, <2>1, <3>1 DEF MutexInv, HoldsExact, Pending, Owner
    <2>4. \A t \in Tcb : Pending(t)' <=> Pending(t)
      BY <1>3 DEF Pending
    <2>5. \A t \in Tcb : Pending(t)' /\ OSTCBEventPtr'[t] = NullEvent /\ t \notin voided' =>
            loc'[t].ev \in Live /\ OSEventPtr'[loc'[t].ev] = t
      <3> SUFFICES ASSUME NEW t \in Tcb, Pending(t), OSTCBEventPtr[t] = NullEvent, t \notin voided
                   PROVE  loc'[t].ev \in Live /\ OSEventPtr'[loc'[t].ev] = t
        BY <2>4 DEF tcbVars
      <3>1. loc'[t] = loc[t] /\ loc[t].ev \in Live /\ Owner(loc[t].ev) = t
        BY <1>3 DEF Pending, MutexInv, HoldsExact
      <3>2. loc[t].ev # e
        BY <1>4, <3>1, MutexAssumption
      <3> QED BY <1>4, <1>9, <3>1, <3>2 DEF Owner
    <2>6. \A t \in voided : Pending(t)' /\ OSTCBEventPtr'[t] = NullEvent /\ Owned(t)' = {}
      BY <1>3, <1>10, <2>4, TypesAre DEF MutexInv, HoldsExact, Pending, tcbVars
    <2> QED BY <1>9, <2>1, <2>2, <2>3, <2>5, <2>6 DEF HoldsExact, Owner
  <1>18. SwitchedRight'
    BY <1>3, <1>4, <1>8, <1>9 DEF MutexInv, SwitchedRight, cpuVars, tcbVars
  <1>19. PriorityGivenBack'
    <2>1. \A t \in Tcb : Owned(t) \subseteq Owned(t)'
      BY <1>6, <1>10
    <2>2. \A t \in Tcb : \A f \in Owned(t) : f \in Event \ {e} \/ t = me
      BY <1>4, MutexAssumption DEF Owned
    <2>3. \A t \in DOMAIN InitPrio :
            \/ OSTCBPrio'[t] = InitPrio[t]
            \/ \E f \in Owned(t)' : OSTCBPrio'[t] = Pip(f)' /\ MPrio(f)' = InitPrio[t]
      BY <1>7, <1>8, <2>1, <2>2, MutexConstants DEF MutexInv, PriorityGivenBack, tcbVars
    <2> QED BY <2>3 DEF MutexInv, PriorityGivenBack, tcbVars, tblVars
  <1>20. OutrankedOnlyAfterPost' /\ lowered' \in BOOLEAN
    BY <1>1, TypesAre, OutrankedIs, OutrankedIsNext DEF MutexInv
  <1>21. /\ OSEventType' \in [Event -> {"MUTEX", "UNUSED"}]
         /\ OSEventFreeList' \in Event \cup {NullEvent} /\ voided' \subseteq Tcb
    BY TypesAre
  <1> QED BY <1>1, <1>8, <1>9, <1>11, <1>12, <1>13, <1>14, <1>15, <1>16, <1>17, <1>18, <1>19, <1>20,
             <1>21, MutexInvNext

\* A task leaves its pend: what a post did for it is there, unless the mutex was deleted.
LEMMA LeaveKeeps ==
  ASSUME MutexInv, MutexSafeUse, OSIntNesting = 0, at[OSTCBCur] = "pendwake", Moves({"pendwake"}, "app"),
         EventInv', RunsHighest => RunsHighest',
         UNCHANGED <<ecbVars, OSTCBPrio, tblVars, cpuVars, lowered>>,
         \A f \in Event : OSEventTbl'[f] \subseteq OSEventTbl[f],
         OSTCBEventPtr' = [OSTCBEventPtr EXCEPT ![OSTCBCur] = NullEvent],
         voided' = voided \ {OSTCBCur},
         holds' = [holds EXCEPT ![OSTCBCur] =
                     IF OSTCBEventPtr[OSTCBCur] = NullEvent /\ OSTCBCur \notin voided
                     THEN loc[OSTCBCur].ev ELSE @]
  PROVE  MutexInv'
  <1> PICK me : me = OSTCBCur
    OBVIOUS
  <1>1. /\ at[me] = "pendwake" /\ at'[me] = "app" /\ me \in Tcb /\ OSTCBCur' = me
        /\ \A t \in Tcb \ {me} : at'[t] = at[t] /\ loc'[t] = loc[t]
    BY MutexFacts DEF Moves, cpuVars
  <1>2. /\ TasksFixed' /\ BytesExact' /\ AvailableUnawaited' /\ NoInversion' /\ PriorityGivenBack'
        /\ Live' = Live /\ (\A t : Owned(t)' = Owned(t))
        /\ \A e : Owner(e)' = Owner(e) /\ Pip(e)' = Pip(e)
    <2>1. \A t \in Tcb : OSTCBEventPtr'[t] \in {OSTCBEventPtr[t], NullEvent}
      BY MutexFacts DEF CoreInv, KernelTypeOK
    <2> QED BY <2>1, BlocksStay DEF tblVars
  <1>3. /\ OSTCBEventPtr'[me] = NullEvent /\ loc[me].ev \in Event
        /\ \A t \in Tcb \ {me} : OSTCBEventPtr'[t] = OSTCBEventPtr[t]
    BY <1>1, MutexFacts, RunnerAt DEF CoreInv, KernelTypeOK, Points
  <1>4. /\ holds'[me] = IF OSTCBEventPtr[me] = NullEvent /\ me \notin voided THEN loc[me].ev ELSE holds[me]
        /\ \A t \in Tcb \ {me} : holds'[t] = holds[t]
        /\ holds' \in [Tcb -> Event \cup {NullEvent}] /\ voided' = voided \ {me} /\ voided \subseteq Tcb
    BY <1>1, <1>3, TypesAre
  <1>5. \A t \in Tcb : Pending(t)' <=> Pending(t) /\ t # me
    BY <1>1 DEF Pending
  <1>6. InsideLive' /\ PipsApart' /\ OwnsOne'
    <2>1. InsideLive'
      BY <1>1, <1>2 DEF MutexInv, InsideLive
    <2>2. PipsApart'
      BY <1>1, <1>2 DEF MutexInv, PipsApart, tblVars
    <2>3. OwnsOne'
      BY <1>1, <1>2, <1>3 DEF MutexInv, OwnsOne
    <2> QED BY <2>1, <2>2, <2>3
  <1>7. OSTCBEventPtr[me] = NullEvent /\ me \notin voided => loc[me].ev \in Live /\ Owned(me) = {loc[me].ev}
    <2> SUFFICES ASSUME OSTCBEventPtr[me] = NullEvent, me \notin voided
                 PROVE  loc[me].ev \in Live /\ Owned(me) = {loc[me].ev}
      OBVIOUS
    <2>1. loc[me].ev \in Live /\ Owner(loc[me].ev) = me
      BY <1>1 DEF MutexInv, HoldsExact, Pending
    <2>2. me # NullEvent
      BY <1>1, MutexAssumption
    <2> QED BY <2>1, <2>2, OwnerIs
  <1>8. OSTCBEventPtr[me] # NullEvent \/ me \in voided => Owned(me) = {}
    BY <1>1 DEF MutexInv, OwnsOne, HoldsExact
  <1>9. HoldsExact'
    <2>1. \A t \in Tcb : holds'[t] # NullEvent => holds'[t] \in Live /\ OSEventPtr[holds'[t]] = t
      BY <1>1, <1>4, <1>7 DEF MutexInv, HoldsExact, Owned, Owner
    <2>2. ASSUME NEW e \in Live, NEW o, o = Owner(e), o # NullEvent
          PROVE  holds'[o] = e \/ (Pending(o)' /\ loc'[o].ev = e)
      <3>1. o \in Tcb
        BY <2>2, OwnerIs
      <3>2. CASE o = me
        <4>1. e \in Owned(me)
          BY <2>2, <3>2 DEF Owned, Live
        <4> QED BY <1>4, <1>7, <1>8, <3>2, <4>1
      <3>3. CASE o # me
        <4>1. holds[o] = e \/ (Pending(o) /\ loc[o].ev = e)
          BY <2>2 DEF MutexInv, HoldsExact
        <4> QED BY <1>1, <1>4, <1>5, <3>1, <3>3, <4>1
      <3> QED BY <3>2, <3>3
    <2>3. \A t \in Tcb : Pending(t)' /\ OSTCBEventPtr'[t] = NullEvent /\ t \notin voided' =>
            loc'[t].ev \in Live /\ Owner(loc'[t].ev) = t
      BY <1>1, <1>3, <1>4, <1>5 DEF MutexInv, HoldsExact
    <2>4. \A t \in voided' : Pending(t)' /\ OSTCBEventPtr'[t] = NullEvent /\ Owned(t) = {}
      BY <1>1, <1>3, <1>4, <1>5 DEF MutexInv, HoldsExact
    <2>5. UNCHANGED OSEventPtr
      BY DEF ecbVars
    <2> QED BY <1>2, <2>1, <2>2, <2>3, <2>4, <2>5 DEF HoldsExact, Owner
  <1>10. SwitchedRight'
    BY <1>1, <1>2 DEF MutexInv, SwitchedRight, cpuVars
  <1>11. OutrankedOnlyAfterPost' /\ lowered' \in BOOLEAN
    BY TypesAre, OutrankedIs, OutrankedIsNext DEF MutexInv
  <1>12. FreeListSound'
    BY ServiceKeepsList DEF MutexInv, Label
  <1>13. /\ OSEventType' \in [Event -> {"MUTEX", "UNUSED"}] /\ OSEventCnt' \in [Event -> Nat]
         /\ OSEventPtr' \in [Event -> Tcb \cup Event \cup {NullEvent}]
         /\ OSEventFreeList' \in Event \cup {NullEvent} /\ voided' \subseteq Tcb
    BY <1>4, TypesAre DEF ecbVars
  <1> QED BY <1>2, <1>4, <1>6, <1>9, <1>10, <1>11, <1>12, <1>13, MutexInvNext

LEMMA TimeoutMutex == ASSUME MutexInv, MutexSafeUse, OSMutexPend_Timeout PROVE MutexInv'
  <1>1. /\ OSIntNesting = 0 /\ at[OSTCBCur] = "pendwake" /\ OSTCBPendTO[OSTCBCur] /\ InTask("pendwake")
        /\ OS_EventTO(loc[OSTCBCur].ev) /\ Return("app")
        /\ UNCHANGED <<OSRdyTbl, OSLockNesting, OSTCBPrio, OSTCBDly, tblVars, cpuVars, ecbVars, holds, lowered>>
        /\ voided' = voided \ {OSTCBCur}
    BY DEF OSMutexPend_Timeout, InTask
  <1>2. PlaceTypes /\ Moves({"pendwake"}, "app")
    BY <1>1, MutexFacts, ReturnMoves DEF Points
  <1>3. /\ EventInv' /\ (RunsHighest => RunsHighest')
        /\ \A f \in Event : OSEventTbl'[f] \subseteq OSEventTbl[f]
    BY <1>1, <1>2, MutexFacts, TimeoutKeeps DEF ecbVars
  <1>4. OSTCBEventPtr[OSTCBCur] # NullEvent
    BY <1>1, MutexFacts, RunnerAt, PenderAt DEF Points
  <1>5. holds' = [holds EXCEPT ![OSTCBCur] =
                    IF OSTCBEventPtr[OSTCBCur] = NullEvent /\ OSTCBCur \notin voided
                    THEN loc[OSTCBCur].ev ELSE @]
    BY <1>1, <1>4, TypesAre
  <1> QED BY <1>1, <1>2, <1>3, <1>5, LeaveKeeps DEF OS_EventTO

LEMMA DoneMutex == ASSUME MutexInv, MutexSafeUse, OSMutexPend_Done PROVE MutexInv'
  <1>1. /\ OSIntNesting = 0 /\ at[OSTCBCur] = "pendwake" /\ ~OSTCBPendTO[OSTCBCur] /\ InTask("pendwake")
        /\ Return("app") /\ OSTCBEventPtr' = [OSTCBEventPtr EXCEPT ![OSTCBCur] = NullEvent]
        /\ UNCHANGED <<OSRdyTbl, OSEventTbl, OSLockNesting, OSTCBPrio, OSTCBStat, OSTCBDly, OSTCBPendTO,
                       tblVars, cpuVars, ecbVars, lowered>>
        /\ voided' = voided \ {OSTCBCur}
        /\ holds' = [holds EXCEPT ![OSTCBCur] = IF OSTCBCur \in voided THEN @ ELSE loc[OSTCBCur].ev]
    BY DEF OSMutexPend_Done, InTask
  <1>2. OSTCBStat[OSTCBCur] = {} /\ OSTCBEventPtr[OSTCBCur] = NullEvent
    BY <1>1, MutexFacts, RunnerAt, PenderAt DEF Points
  <1>3. OSTCBStat' = [OSTCBStat EXCEPT ![OSTCBCur] = {}]
    BY <1>1, <1>2, MutexFacts DEF CoreInv, KernelTypeOK
  <1>4. EventInv' /\ (RunsHighest => RunsHighest') /\ Moves({"pendwake"}, "app")
    BY <1>1, <1>3, MutexFacts, DoneKeeps DEF ecbVars
  <1>5. holds' = [holds EXCEPT ![OSTCBCur] =
                    IF OSTCBEventPtr[OSTCBCur] = NullEvent /\ OSTCBCur \notin voided
                    THEN loc[OSTCBCur].ev ELSE @]
    BY <1>1, <1>2
  <1> QED BY <1>1, <1>4, <1>5, LeaveKeeps

---------------------------------------------------------------------------
\* The regions that change priorities.

\* A region of a task keeps EventInv, whatever it does to priorities, if it ends with
\* the ready table and the wait lists that the TCBs call for, and with OSTCBPrioTbl
\* naming every task in use at the priority that it has.
LEMMA RegionSound ==
  ASSUME MutexInv, MutexSafeUse, OSIntNesting = 0, PlaceTypes, NEW l \in {"app", "sched", "pendwait", "create"},
         Moves(Points \ {"pendwake"}, l), l = "pendwait" => at[OSTCBCur] = "pend" /\ loc' = loc,
         UNCHANGED <<OSLockNesting, cpuVars, OSTCBList, OSTCBFreeList>>,
         OSRdyTbl' \subseteq Prio, OSEventTbl' \in [Event -> SUBSET Prio],
         OSTCBPrio' \in [Tcb -> Prio], OSTCBPrioTbl' \in [Prio -> Tcb \cup {NullTcb, Reserved}],
         OSTCBStat' \in [Tcb -> SUBSET Stat], OSTCBDly' \in [Tcb -> Ticks],
         OSTCBPendTO' \in [Tcb -> BOOLEAN], OSTCBEventPtr' \in [Tcb -> Event \cup {NullEvent}],
         \A t \in OSTCBList : OSTCBPrioTbl'[OSTCBPrio'[t]] = t,
         \A p \in Prio : HasTcb(p)' => OSTCBPrioTbl'[p] \in OSTCBList,
         \A t \in OSTCBList : OSTCBPrio'[t] \in OSRdyTbl' <=> OSTCBStat'[t] = {} /\ OSTCBDly'[t] = 0,
         \A p \in OSRdyTbl' : OSTCBPrioTbl'[p] \in OSTCBList /\ OSTCBPrio'[OSTCBPrioTbl'[p]] = p,
         \A t \in OSTCBList : OSTCBEventPtr'[t] # NullEvent => OSTCBPrio'[t] \in OSEventTbl'[OSTCBEventPtr'[t]],
         \A f \in Event : \A p \in OSEventTbl'[f] :
           /\ OSTCBPrioTbl'[p] \in OSTCBList /\ OSTCBPrio'[OSTCBPrioTbl'[p]] = p
           /\ OSTCBEventPtr'[OSTCBPrioTbl'[p]] = f,
         \A t \in OSTCBList :
           /\ OSTCBEventPtr'[t] # NullEvent <=> OSTCBPendTO'[t] \/ OSTCBStat'[t] \cap PendAny # {}
           /\ OSTCBEventPtr'[t] # NullEvent =>
                /\ Pending(t)' /\ loc'[t].ev = OSTCBEventPtr'[t]
                /\ OSTCBStat'[t] \cap PendAny \subseteq {OSEventType'[OSTCBEventPtr'[t]]}
           /\ OSTCBPendTO'[t] => OSTCBDly'[t] = 0,
         OSPrioCur = OSTCBPrio'[OSTCBCur] \/ ~HasTcb(OSPrioCur)',
         l \in {"app", "create"} => OSTCBPrio'[OSTCBCur] \in OSRdyTbl',
         l = "create" =>
           /\ loc'[OSTCBCur].ev \in Event /\ OSEventType[loc'[OSTCBCur].ev] = "UNUSED"
           /\ \A t \in Tcb \ {OSTCBCur} : Making(t) => loc[t].ev # loc'[OSTCBCur].ev,
         OSTCBPrio'[Idle] = OS_LOWEST_PRIO, \A p \in Prio : OSTCBPrioTbl'[p] = Idle <=> p = OS_LOWEST_PRIO,
         \A f \in Event : OSEventType'[f] = "UNUSED" => OSEventTbl'[f] = {},
         \A f \in Event : OSEventType'[f] # OSEventType[f] => \A t \in Tcb : Making(t)' => loc'[t].ev # f
  PROVE  EventInv'
  <1> PICK me : me = OSTCBCur
    OBVIOUS
  <1>1. /\ EventInv /\ CoreInv /\ me \in Tcb /\ me \in OSTCBList /\ me # Idle /\ OSLockNesting = 0
        /\ OSTCBCur' = me /\ OSPrioCur' = OSPrioCur /\ OSIntNesting' = 0 /\ OSLockNesting' = 0
        /\ OSTCBList' = OSTCBList /\ OSTCBFreeList' = OSTCBFreeList /\ OSTCBList \subseteq Tcb
        /\ at[me] \in Points \ {"pendwake"} /\ at'[me] = l
        /\ \A t \in Tcb \ {me} : at'[t] = at[t] /\ loc'[t] = loc[t]
    BY MutexFacts, RunnerAt DEF Moves, cpuVars
  <1>2. \A t \in Tcb : ~Deleting(t)' /\ ~Creating(t)' /\ at'[t] # "delwin" /\ at'[t] # "tcblink"
    BY <1>1, MutexFacts DEF Deleting, Creating
  <1>3. Moves(Points, l) /\ l \in Points \cup {"sched", "pendwait"}
    BY <1>1 DEF Moves, Points
  <1>4. /\ PendersKnow' /\ NoPendLocked'
        /\ \A t \in Tcb : \/ Making(t)' => Making(t) /\ loc'[t] = loc[t]
                          \/ t = me /\ l = "create"
    BY <1>1, <1>3, RegionPlaces
  <1>5. KernelTypeOK'
    BY <1>1 DEF CoreInv, KernelTypeOK, PlaceTypes
  <1>6. TablesAgree'
    BY <1>1, <1>5, MutexConstants DEF CoreInv, TablesAgree, HasTcb, Inherits
  <1>7. ReadyIffNotWaiting'
    BY <1>1 DEF ReadyIffNotWaiting
  <1>8. ReadyIsDispatchable'
    <2>1. OSTCBList \cap OSTCBFreeList = {}
      BY <1>1 DEF CoreInv, TablesAgree
    <2> QED BY <1>1, <1>2, <2>1, CoreAssumption DEF ReadyIsDispatchable, HasTcb
  <1>9. CurrentKnown'
    BY <1>1, MutexConstants DEF CurrentKnown, HasTcb, Inherits
  <1>10. CreationsApart' /\ DeletionHolds' /\ LockUnused'
    BY <1>1, <1>2 DEF CreationsApart, DeletionHolds, LockUnused, Creating
  <1>11. IdleStays'
    BY <1>1 DEF CoreInv, IdleStays, Tcb
  <1>12. CoreInv'
    BY <1>5, <1>6, <1>7, <1>8, <1>9, <1>10, <1>11 DEF CoreInv
  <1>13. WaitListExact' /\ WaitersStay' /\ WaitersRanked'
    <2>1. \A f \in Event : \A p \in OSEventTbl'[f] :
            HasTcb(p)' /\ ~Deleting(OSTCBPrioTbl[p])'
      BY <1>1, <1>2, CoreAssumption DEF HasTcb
    <2> QED BY <1>1, <2>1 DEF WaitListExact, WaitersStay, WaitersRanked
  <1>14. PendLinked' /\ NewTcbsClean'
    BY <1>1, <1>2 DEF PendLinked, NewTcbsClean
  <1>15. RunnerReady'
    BY <1>1 DEF RunnerReady, Settled
  <1>16. BlocksApart'
    <2>1. \A t \in Tcb : Making(t)' => loc'[t].ev \in Event /\ OSEventType[loc'[t].ev] = "UNUSED"
      BY <1>1, <1>4 DEF EventInv, BlocksApart
    <2>2. \A t \in Tcb : Making(t)' => OSEventType'[loc'[t].ev] = "UNUSED"
      BY <2>1
    <2>3. \A t, u \in Tcb : t # u /\ Making(t)' /\ Making(u)' => loc'[t].ev # loc'[u].ev
      BY <1>1, <1>4 DEF EventInv, BlocksApart
    <2> QED BY <2>1, <2>2, <2>3, Zenon DEF BlocksApart
  <1> QED BY <1>4, <1>12, <1>13, <1>14, <1>15, <1>16 DEF EventInv, WaitsExact

\* A task in use, of no particular state.
LEMMA TaskIs ==
  ASSUME MutexInv, MutexSafeUse, NEW t \in OSTCBList
  PROVE  /\ t \in Tcb /\ OSTCBPrio[t] \in Prio /\ OSTCBPrioTbl[OSTCBPrio[t]] = t
         /\ t \notin {NullTcb, Reserved}
         /\ OSTCBPrio[t] \in OSRdyTbl <=> OSTCBStat[t] = {} /\ OSTCBDly[t] = 0
         /\ OSTCBEventPtr[t] # NullEvent <=> OSTCBPendTO[t] \/ OSTCBStat[t] \cap PendAny # {}
         /\ OSTCBEventPtr[t] # NullEvent =>
              /\ Pending(t) /\ loc[t].ev = OSTCBEventPtr[t] /\ OSTCBEventPtr[t] \in Event
              /\ OSTCBPrio[t] \in OSEventTbl[OSTCBEventPtr[t]]
              /\ OSTCBStat[t] \cap PendAny \subseteq {"MUTEX"}
         /\ OSTCBPendTO[t] => OSTCBDly[t] = 0
         /\ t # Idle => t \in DOMAIN InitPrio
  <1>1. EventInv /\ CoreInv /\ t \in Tcb /\ ~Deleting(t)
    BY MutexFacts
  <1>2. OSTCBEventPtr[t] # NullEvent => OSEventType[OSTCBEventPtr[t]] \in {"MUTEX", "UNUSED"}
    BY <1>1, PenderAt, TypesAre
  <1>3. OSTCBEventPtr[t] # NullEvent => OSTCBStat[t] \cap PendAny \subseteq {"MUTEX"}
    BY <1>1, <1>2, PenderAt DEF PendAny
  <1> QED BY <1>1, <1>3, PenderAt, MutexFacts, CoreAssumption
          DEF CoreInv, KernelTypeOK, TablesAgree, ReadyIffNotWaiting

\* A priority that is ready is a task's that has it.
LEMMA ReadyIs ==
  ASSUME MutexInv, MutexSafeUse, NEW p \in OSRdyTbl
  PROVE  /\ p \in Prio /\ OSTCBPrioTbl[p] \in OSTCBList /\ OSTCBPrio[OSTCBPrioTbl[p]] = p
  <1>1. CoreInv /\ p \in Prio
    BY MutexFacts DEF CoreInv, KernelTypeOK
  <1> QED BY <1>1 DEF CoreInv, ReadyIsDispatchable, TablesAgree

\* The task that waits for a mutex and the one that owns it.
LEMMA WaiterIs ==
  ASSUME MutexInv, MutexSafeUse, InTask("pend"), NEW me, me = OSTCBCur, ~Available(loc[me].ev)
  PROVE  /\ me \in Tcb /\ me \in OSTCBList /\ me # Idle /\ me \in DOMAIN InitPrio /\ Owned(me) = {}
         /\ at[me] = "pend" /\ OSIntNesting = 0 /\ OSLockNesting = 0
         /\ OSTCBPrio[me] = InitPrio[me] /\ OSTCBPrio[me] \in OSRdyTbl /\ OSTCBPrio[me] \in Prio
         /\ OSTCBEventPtr[me] = NullEvent /\ OSTCBStat[me] = {} /\ OSTCBDly[me] = 0
         /\ loc[me].ev \in Live /\ loc[me].ev \in Event
         /\ Owner(loc[me].ev) # NullEvent /\ Owner(loc[me].ev) # me
         /\ InitPrio[Owner(loc[me].ev)] # InitPrio[me] /\ InitPrio[me] \in Nat
         /\ Pip(loc[me].ev) < InitPrio[me]
  <1> PICK e : e = loc[me].ev
    OBVIOUS
  <1>1. /\ me \in Tcb /\ me \in OSTCBList /\ me # Idle /\ OSTCBEventPtr[me] = NullEvent
        /\ OSTCBPrio[me] \in OSRdyTbl /\ OSTCBPrio[me] \in Prio
        /\ OSTCBStat[me] = {} /\ OSTCBDly[me] = 0 /\ at[me] = "pend" /\ OSIntNesting = 0
        /\ OSLockNesting = 0
    BY MutexFacts, RunnerAt DEF InTask, Points
  <1>2. me \in DOMAIN InitPrio /\ Owned(me) = {}
    BY <1>1, TaskIs DEF MutexInv, OwnsOne
  <1>3. OSTCBPrio[me] = InitPrio[me]
    BY <1>2, OwnerlessIs
  <1>4. e \in Live /\ e \in Event /\ Owner(e) # NullEvent
    BY <1>1 DEF MutexInv, InsideLive, BytesExact, Live
  <1>5. Owned(Owner(e)) = {e}
    BY <1>4, OwnerIs
  <1>6. Owner(e) # me
    BY <1>2, <1>5
  <1>7. Owner(e) \in DOMAIN InitPrio /\ Pip(e) \in Pips
    BY <1>4, OwnerIs
  <1> QED BY <1>1, <1>2, <1>3, <1>4, <1>6, <1>7, MutexConstants

\* The owner that inherits moves from its own priority to the free one of the mutex.
LEMMA PromoteIs ==
  ASSUME MutexInv, MutexSafeUse, InTask("pend"), NEW me, me = OSTCBCur, NEW e, e = loc[me].ev,
         ~Available(e), Promotes(e), NEW o, o = Owner(e)
  PROVE  /\ o \in Tcb /\ o \in OSTCBList /\ o # Idle /\ o # me /\ o \in DOMAIN InitPrio
         /\ OSTCBEventPtr[o] = NullEvent /\ OSTCBPrio[o] = InitPrio[o] /\ OSTCBPrio[o] # OSTCBPrio[me]
         /\ Pip(e) \in UserPrio /\ Pip(e) \in Prio /\ Pip(e) < OSTCBPrio[o] /\ Pip(e) # InitPrio[o]
         /\ OSTCBPrioTbl[Pip(e)] = Reserved /\ OSTCBPrio[o] \in Prio
         /\ \A t \in OSTCBList : OSTCBPrio[t] # Pip(e)
  <1>1. e \in Live /\ o # NullEvent /\ o # me /\ InitPrio[o] # InitPrio[me] /\ OSTCBPrio[me] = InitPrio[me]
    BY WaiterIs
  <1>2. /\ o \in Tcb /\ o \in OSTCBList /\ o # Idle /\ o \in DOMAIN InitPrio /\ OSTCBEventPtr[o] = NullEvent
        /\ Pip(e) \in UserPrio /\ OSTCBPrio[o] \in {InitPrio[o], Pip(e)} /\ Pip(e) < InitPrio[o]
        /\ (OSTCBPrioTbl[Pip(e)] = o <=> OSTCBPrio[o] = Pip(e))
    BY <1>1, OwnerIs
  <1>3. OSTCBPrio[o] > Pip(e) /\ Pip(e) \in Nat /\ OSTCBPrio[o] \in Nat /\ Pip(e) \in Prio /\ OSTCBPrio[o] \in Prio
    BY <1>2, TaskIs, CoreAssumption DEF Promotes, UserPrio, Prio
  <1>4. OSTCBPrio[o] = InitPrio[o] /\ OSTCBPrio[o] # Pip(e)
    BY <1>2, <1>3
  <1>5. OSTCBPrioTbl[Pip(e)] = Reserved
    BY <1>1, <1>2, <1>4 DEF MutexInv, PipsApart
  <1>6. \A t \in OSTCBList : OSTCBPrio[t] # Pip(e)
    BY <1>5, TaskIs
  <1> QED BY <1>1, <1>2, <1>3, <1>4, <1>5, <1>6

LEMMA PromoteKeeps ==
  ASSUME MutexInv, MutexSafeUse, InTask("pend"), NEW me, me = OSTCBCur, NEW e, e = loc[me].ev,
         ~Available(e), Promotes(e), NEW o, o = Owner(e), OSMutexPend_Wait
  PROVE  /\ EventInv' /\ OSEventTbl' = [OSEventTbl EXCEPT ![e] = @ \cup {OSTCBPrio[me]}]
         /\ OSTCBPrio' = [OSTCBPrio EXCEPT ![o] = Pip(e)]
         /\ OSTCBPrioTbl' = [OSTCBPrioTbl EXCEPT ![Pip(e)] = o]
  <1> PICK a \in Prio : a = Pip(e)
    BY PromoteIs
  <1> PICK p \in Prio : p = OSTCBPrio[me]
    BY WaiterIs
  <1> PICK h \in Prio : h = OSTCBPrio[o]
    BY PromoteIs
  <1>1. /\ me \in Tcb /\ me \in OSTCBList /\ me # Idle /\ e \in Event /\ e \in Live
        /\ at[me] = "pend" /\ OSIntNesting = 0 /\ OSLockNesting = 0 /\ p \in OSRdyTbl
        /\ OSTCBEventPtr[me] = NullEvent /\ OSTCBStat[me] = {} /\ OSTCBDly[me] = 0
    BY WaiterIs
  <1>2. /\ o \in Tcb /\ o \in OSTCBList /\ o # Idle /\ o # me /\ OSTCBEventPtr[o] = NullEvent
        /\ h # p /\ a # h /\ OSTCBPrioTbl[a] = Reserved /\ \A t \in OSTCBList : OSTCBPrio[t] # a
        /\ a # OS_LOWEST_PRIO
    BY PromoteIs DEF UserPrio
  <1>3. /\ CoreInv /\ \A t \in Tcb : ~Deleting(t) /\ ~Creating(t)
    BY MutexFacts
  <1>4. /\ OSTCBPrio' = [OSTCBPrio EXCEPT ![o] = a] /\ OSTCBPrioTbl' = [OSTCBPrioTbl EXCEPT ![a] = o]
        /\ OSRdyTbl' = IF h \in OSRdyTbl \ {p} THEN ((OSRdyTbl \ {p}) \ {h}) \cup {a} ELSE OSRdyTbl \ {p}
        /\ OSEventTbl' = [OSEventTbl EXCEPT ![e] = @ \cup {p}]
        /\ OSTCBEventPtr' = [OSTCBEventPtr EXCEPT ![me] = e]
        /\ OSTCBStat' = [OSTCBStat EXCEPT ![me] = @ \cup {"MUTEX"}]
        /\ OSTCBPendTO' = [OSTCBPendTO EXCEPT ![me] = FALSE]
        /\ OSTCBDly' = [OSTCBDly EXCEPT ![me] = loc[me].arg]
        /\ at' = [at EXCEPT ![me] = "pendwait"] /\ loc' = loc /\ served' = served
        /\ UNCHANGED <<OSLockNesting, OSTCBList, OSTCBFreeList, cpuVars, OSEventType>>
    BY <1>1, <1>2 DEF OSMutexPend_Wait, Inherit, Goto, mutexVars, ecbVars
  <1>5. \A t \in OSTCBList \ {me} :
          /\ OSTCBEventPtr'[t] = OSTCBEventPtr[t] /\ OSTCBStat'[t] = OSTCBStat[t]
          /\ OSTCBPendTO'[t] = OSTCBPendTO[t] /\ OSTCBDly'[t] = OSTCBDly[t]
          /\ at'[t] = at[t] /\ loc'[t] = loc[t]
    BY <1>1, <1>3, <1>4 DEF CoreInv, KernelTypeOK
  <1>6. /\ OSTCBEventPtr'[me] = e /\ OSTCBStat'[me] = {"MUTEX"} /\ ~OSTCBPendTO'[me] /\ at'[me] = "pendwait"
        /\ OSTCBPrio'[o] = a /\ \A t \in OSTCBList \ {o} : OSTCBPrio'[t] = OSTCBPrio[t]
    BY <1>1, <1>2, <1>3, <1>4 DEF CoreInv, KernelTypeOK
  <1>7. /\ OSTCBPrioTbl'[a] = o /\ \A q \in Prio \ {a} : OSTCBPrioTbl'[q] = OSTCBPrioTbl[q]
        /\ OSEventTbl'[e] = OSEventTbl[e] \cup {p} /\ \A f \in Event \ {e} : OSEventTbl'[f] = OSEventTbl[f]
    BY <1>1, <1>3, <1>4 DEF CoreInv, KernelTypeOK
  <1>8. /\ PlaceTypes /\ Moves(Points \ {"pendwake"}, "pendwait")
        /\ OSRdyTbl' \subseteq Prio /\ OSEventTbl' \in [Event -> SUBSET Prio]
        /\ OSTCBPrio' \in [Tcb -> Prio] /\ OSTCBPrioTbl' \in [Prio -> Tcb \cup {NullTcb, Reserved}]
        /\ OSTCBStat' \in [Tcb -> SUBSET Stat] /\ OSTCBDly' \in [Tcb -> Ticks]
        /\ OSTCBPendTO' \in [Tcb -> BOOLEAN] /\ OSTCBEventPtr' \in [Tcb -> Event \cup {NullEvent}]
    <2>1. PlaceTypes /\ Moves(Points \ {"pendwake"}, "pendwait")
      BY <1>1, <1>3, <1>4 DEF PlaceTypes, Moves, Points, CoreInv, KernelTypeOK, Label
    <2>2. OSTCBDly' \in [Tcb -> Ticks]
      BY <1>1, <1>3, <1>4 DEF CoreInv, KernelTypeOK, Locals
    <2>3. OSTCBStat' \in [Tcb -> SUBSET Stat]
      BY <1>1, <1>3, <1>4 DEF CoreInv, KernelTypeOK, Stat, PendAny
    <2>4. OSTCBPendTO' \in [Tcb -> BOOLEAN]
      BY <1>1, <1>3, <1>4, Zenon DEF CoreInv, KernelTypeOK
    <2>5. /\ OSRdyTbl' \subseteq Prio /\ OSEventTbl' \in [Event -> SUBSET Prio]
          /\ OSTCBPrio' \in [Tcb -> Prio] /\ OSTCBPrioTbl' \in [Prio -> Tcb \cup {NullTcb, Reserved}]
          /\ OSTCBEventPtr' \in [Tcb -> Event \cup {NullEvent}]
      BY <1>1, <1>2, <1>3, <1>4 DEF CoreInv, KernelTypeOK
    <2> QED BY <2>1, <2>2, <2>3, <2>4, <2>5
  <1>9. /\ \A t \in OSTCBList : OSTCBPrioTbl'[OSTCBPrio'[t]] = t
        /\ \A q \in Prio : HasTcb(q)' => OSTCBPrioTbl'[q] \in OSTCBList
        /\ \A q \in Prio : OSTCBPrioTbl'[q] = Idle <=> q = OS_LOWEST_PRIO
        /\ OSTCBPrio'[Idle] = OS_LOWEST_PRIO
    <2>1. \A t \in OSTCBList : OSTCBPrioTbl'[OSTCBPrio'[t]] = t
      BY <1>2, <1>6, <1>7, TaskIs
    <2>2. \A q \in Prio : HasTcb(q)' => OSTCBPrioTbl'[q] \in OSTCBList
      BY <1>2, <1>3, <1>7 DEF HasTcb, CoreInv, TablesAgree
    <2>3. \A q \in Prio : OSTCBPrioTbl'[q] = Idle <=> q = OS_LOWEST_PRIO
      BY <1>2, <1>3, <1>7 DEF CoreInv, IdleStays
    <2>4. OSTCBPrio'[Idle] = OS_LOWEST_PRIO
      BY <1>2, <1>3, <1>4 DEF CoreInv, IdleStays, KernelTypeOK, Tcb
    <2> QED BY <2>1, <2>2, <2>3, <2>4
  <1>10. ASSUME NEW t \in OSTCBList
         PROVE  OSTCBPrio'[t] \in OSRdyTbl' <=> OSTCBStat'[t] = {} /\ OSTCBDly'[t] = 0
    <2>1. OSTCBPrio[t] \in OSRdyTbl <=> OSTCBStat[t] = {} /\ OSTCBDly[t] = 0
      BY TaskIs
    <2>2. (OSTCBPrio[t] = p <=> t = me) /\ (OSTCBPrio[t] = h <=> t = o) /\ OSTCBPrio[t] # a
      BY <1>1, <1>2, TaskIs
    <2>3. CASE t = me
      <3>1. OSTCBPrio'[t] = p /\ OSTCBStat'[t] # {}
        BY <1>2, <1>6, <2>3
      <3> QED BY <1>2, <1>4, <2>2, <2>3, <3>1
    <2>4. CASE t = o
      <3>1. OSTCBPrio'[t] = a /\ OSTCBStat'[t] = OSTCBStat[t] /\ OSTCBDly'[t] = OSTCBDly[t]
        BY <1>2, <1>5, <1>6, <2>4
      <3>2. a \in OSRdyTbl' <=> h \in OSRdyTbl
        <4>1. a \notin OSRdyTbl
          BY <1>2, ReadyIs
        <4> QED BY <1>2, <1>4, <4>1
      <3> QED BY <2>1, <2>4, <3>1, <3>2
    <2>5. CASE t \notin {me, o}
      <3>1. OSTCBPrio'[t] = OSTCBPrio[t] /\ OSTCBStat'[t] = OSTCBStat[t] /\ OSTCBDly'[t] = OSTCBDly[t]
        BY <1>5, <1>6, <2>5
      <3>2. OSTCBPrio[t] \in OSRdyTbl' <=> OSTCBPrio[t] \in OSRdyTbl
        BY <1>4, <2>2, <2>5
      <3> QED BY <2>1, <3>1, <3>2
    <2> QED BY <2>3, <2>4, <2>5
  <1>11. \A q \in OSRdyTbl' : OSTCBPrioTbl'[q] \in OSTCBList /\ OSTCBPrio'[OSTCBPrioTbl'[q]] = q
    <2>1. \A q \in OSRdyTbl \ {h} : /\ q \in Prio /\ OSTCBPrioTbl[q] \in OSTCBList
                                    /\ OSTCBPrio[OSTCBPrioTbl[q]] = q /\ OSTCBPrioTbl[q] # o /\ q # a
      BY <1>2, ReadyIs
    <2>2. \A q \in OSRdyTbl' : q = a \/ q \in OSRdyTbl \ {h}
      BY <1>4
    <2> QED BY <1>2, <1>6, <1>7, <2>1, <2>2
  <1>12. \A t \in OSTCBList : OSTCBEventPtr'[t] # NullEvent => OSTCBPrio'[t] \in OSEventTbl'[OSTCBEventPtr'[t]]
    <2> SUFFICES ASSUME NEW t \in OSTCBList, OSTCBEventPtr'[t] # NullEvent
                 PROVE  OSTCBPrio'[t] \in OSEventTbl'[OSTCBEventPtr'[t]]
      OBVIOUS
    <2>1. CASE t = me
      BY <1>2, <1>6, <1>7, <2>1
    <2>2. CASE t # me
      <3>1. OSTCBEventPtr'[t] = OSTCBEventPtr[t] /\ t # o /\ OSTCBPrio'[t] = OSTCBPrio[t]
        BY <1>2, <1>5, <1>6, <2>2
      <3>2. OSTCBEventPtr[t] \in Event /\ OSTCBPrio[t] \in OSEventTbl[OSTCBEventPtr[t]]
        BY <3>1, TaskIs
      <3> QED BY <1>7, <3>1, <3>2
    <2> QED BY <2>1, <2>2
  <1>13. \A f \in Event : \A q \in OSEventTbl'[f] :
           /\ OSTCBPrioTbl'[q] \in OSTCBList /\ OSTCBPrio'[OSTCBPrioTbl'[q]] = q
           /\ OSTCBEventPtr'[OSTCBPrioTbl'[q]] = f
    <2> SUFFICES ASSUME NEW f \in Event, NEW q \in OSEventTbl'[f]
                 PROVE  /\ OSTCBPrioTbl'[q] \in OSTCBList /\ OSTCBPrio'[OSTCBPrioTbl'[q]] = q
                        /\ OSTCBEventPtr'[OSTCBPrioTbl'[q]] = f
      OBVIOUS
    <2>1. CASE q \in OSEventTbl[f]
      <3> PICK w : w = OSTCBPrioTbl[q]
        OBVIOUS
      <3>1. w \in OSTCBList /\ OSTCBPrio[w] = q /\ OSTCBEventPtr[w] = f /\ q \in Prio
        BY <2>1, WaiterOwnsNone
      <3>2. w # me /\ w # o /\ q # a
        BY <1>1, <1>2, <3>1, CoreAssumption
      <3> QED BY <1>5, <1>6, <1>7, <3>1, <3>2
    <2>2. CASE q \notin OSEventTbl[f]
      <3>1. f = e /\ q = p
        BY <1>7, <2>2
      <3>2. OSTCBPrioTbl[p] = me /\ p # a
        BY <1>1, <1>2, TaskIs
      <3> QED BY <1>1, <1>2, <1>6, <1>7, <3>1, <3>2
    <2> QED BY <2>1, <2>2
  <1>14. \A t \in OSTCBList :
           /\ OSTCBEventPtr'[t] # NullEvent <=> OSTCBPendTO'[t] \/ OSTCBStat'[t] \cap PendAny # {}
           /\ OSTCBEventPtr'[t] # NullEvent =>
                /\ Pending(t)' /\ loc'[t].ev = OSTCBEventPtr'[t]
                /\ OSTCBStat'[t] \cap PendAny \subseteq {OSEventType'[OSTCBEventPtr'[t]]}
           /\ OSTCBPendTO'[t] => OSTCBDly'[t] = 0
    <2> SUFFICES ASSUME NEW t \in OSTCBList
         PROVE /\ OSTCBEventPtr'[t] # NullEvent <=> OSTCBPendTO'[t] \/ OSTCBStat'[t] \cap PendAny # {}
               /\ OSTCBEventPtr'[t] # NullEvent =>
                    /\ Pending(t)' /\ loc'[t].ev = OSTCBEventPtr'[t]
                    /\ OSTCBStat'[t] \cap PendAny \subseteq {OSEventType'[OSTCBEventPtr'[t]]}
               /\ OSTCBPendTO'[t] => OSTCBDly'[t] = 0
      OBVIOUS
    <2>1. CASE t = me
      <3>1. OSTCBStat'[me] \cap PendAny # {} /\ OSEventType'[e] = "MUTEX" /\ e # NullEvent
        BY <1>1, <1>4, <1>6, CoreAssumption DEF PendAny, Live
      <3> QED BY <1>4, <1>6, <2>1, <3>1 DEF Pending
    <2>2. CASE t # me
      <3>1. /\ OSTCBEventPtr'[t] = OSTCBEventPtr[t] /\ OSTCBStat'[t] = OSTCBStat[t]
            /\ OSTCBPendTO'[t] = OSTCBPendTO[t] /\ OSTCBDly'[t] = OSTCBDly[t]
            /\ (Pending(t)' <=> Pending(t)) /\ loc'[t] = loc[t]
        BY <1>5, <2>2 DEF Pending
      <3>2. OSEventType' = OSEventType /\ ~Deleting(t)
        BY <1>3, <1>4, TaskIs
      <3> QED BY <3>1, <3>2, MutexFacts, PenderAt
    <2> QED BY <2>1, <2>2
  <1>15. OSPrioCur = OSTCBPrio'[OSTCBCur] \/ ~HasTcb(OSPrioCur)'
    <2>1. OSPrioCur = p \/ ~HasTcb(OSPrioCur)
      BY <1>1, <1>3 DEF CoreInv, CurrentKnown
    <2>2. CASE OSPrioCur = p
      BY <1>1, <1>2, <1>6, <2>2
    <2>3. CASE OSPrioCur # p
      <3>1. OSPrioCur # a
        <4>1. \A f \in Live : Pip(f) = OSPrioCur => Owner(f) \in {NullEvent, me}
          BY <1>1, <2>3 DEF MutexInv, SwitchedRight
        <4>2. o # NullEvent
          BY <1>2, MutexAssumption
        <4> QED BY <1>1, <1>2, <4>1, <4>2
      <3>2. OSPrioCur \in Prio /\ OSPrioCur' = OSPrioCur
        BY <1>3, <1>4 DEF CoreInv, KernelTypeOK, cpuVars
      <3>3. OSTCBPrioTbl[OSPrioCur] \in {NullTcb, Reserved}
        BY <2>1, <2>3 DEF HasTcb
      <3>4. OSTCBPrioTbl'[OSPrioCur'] \in {NullTcb, Reserved}
        BY <1>7, <3>1, <3>2, <3>3
      <3> QED BY <3>4 DEF HasTcb
    <2> QED BY <2>2, <2>3
  <1>16. \A f \in Event : OSEventType'[f] = "UNUSED" => OSEventTbl'[f] = {}
    BY <1>1, <1>4, <1>7, MutexFacts DEF EventInv, BlocksApart, Live
  <1>17. EventInv'
    BY <1>1, <1>4, <1>8, <1>9, <1>10, <1>11, <1>12, <1>13, <1>14, <1>15, <1>16, RegionSound
  <1> QED BY <1>4, <1>17
\* Blocks that nothing is done to.
LEMMA SameBlocks ==
  ASSUME UNCHANGED ecbVars
  PROVE  /\ Live' = Live /\ Live \subseteq Event /\ \A t : Owned(t)' = Owned(t)
         /\ \A f : /\ Owner(f)' = Owner(f) /\ Pip(f)' = Pip(f) /\ MPrio(f)' = MPrio(f)
                   /\ (Available(f)' <=> Available(f))
  BY DEF ecbVars, Live, Owned, Owner, Pip, MPrio, Available

\* What the region that makes the caller wait does to priorities, places and lists.
LEMMA WaitDoes ==
  ASSUME MutexInv, MutexSafeUse, OSMutexPend_Wait, NEW me, me = OSTCBCur, NEW e, e = loc[me].ev,
         NEW o, o = Owner(e)
  PROVE  /\ EventInv' /\ OSEventTbl' = [OSEventTbl EXCEPT ![e] = @ \cup {InitPrio[me]}]
         /\ OSTCBEventPtr' = [OSTCBEventPtr EXCEPT ![me] = e]
         /\ at' = [at EXCEPT ![me] = "pendwait"] /\ loc' = loc
         /\ \/ ~Promotes(e) /\ UNCHANGED <<OSTCBPrio, OSTCBPrioTbl>>
            \/ /\ OSTCBPrio[o] = InitPrio[o] /\ Pip(e) < OSTCBPrio[o] /\ Pip(e) \in Prio
               /\ OSTCBPrioTbl[Pip(e)] = Reserved
               /\ OSTCBPrio' = [OSTCBPrio EXCEPT ![o] = Pip(e)]
               /\ OSTCBPrioTbl' = [OSTCBPrioTbl EXCEPT ![Pip(e)] = o]
  <1>1. InTask("pend") /\ ~Available(e)
    BY DEF OSMutexPend_Wait
  <1>2. OSTCBPrio[me] = InitPrio[me] /\ OSIntNesting = 0 /\ OSEventType[e] = "MUTEX"
    BY <1>1, WaiterIs DEF Live
  <1>3. /\ OSTCBEventPtr' = [OSTCBEventPtr EXCEPT ![me] = e]
        /\ at' = [at EXCEPT ![me] = "pendwait"] /\ loc' = loc
    BY <1>2 DEF OSMutexPend_Wait, Goto
  <1>4. CASE Promotes(e)
    BY <1>1, <1>2, <1>3, <1>4, PromoteIs, PromoteKeeps
  <1>5. CASE ~Promotes(e)
    <2>1. /\ PendWait(e, "MUTEX", loc[me].arg) /\ UNCHANGED <<OSTCBPrio, OSTCBPrioTbl>>
          /\ UNCHANGED <<OSTCBPrio, OSLockNesting, loc, tblVars, cpuVars, OSEventType>>
      BY <1>5, Zenon DEF OSMutexPend_Wait, PendWait, OS_EventTaskWait, tblVars, mutexVars, ecbVars
    <2>2. loc[me].arg \in Ticks
      BY MutexFacts DEF CoreInv, KernelTypeOK, Locals
    <2>3. EventInv' /\ OSEventTbl' = [OSEventTbl EXCEPT ![e] = @ \cup {OSTCBPrio[me]}]
      BY <1>1, <1>2, <2>1, <2>2, MutexFacts, WaitKeeps DEF PendAny
    <2> QED BY <1>2, <1>3, <1>5, <2>1, <2>3
  <1> QED BY <1>4, <1>5

LEMMA WaitMutex == ASSUME MutexInv, MutexSafeUse, OSMutexPend_Wait PROVE MutexInv'
  <1> PICK me : me = OSTCBCur
    OBVIOUS
  <1> PICK e : e = loc[me].ev
    OBVIOUS
  <1> PICK o : o = Owner(e)
    OBVIOUS
  <1>1. InTask("pend") /\ ~Available(e)
    BY DEF OSMutexPend_Wait
  <1>2. /\ me \in Tcb /\ me \in DOMAIN InitPrio /\ Owned(me) = {} /\ at[me] = "pend"
        /\ OSTCBPrio[me] = InitPrio[me] /\ InitPrio[me] \in Prio
        /\ e \in Live /\ e \in Event /\ o # NullEvent /\ o # me
        /\ InitPrio[o] # InitPrio[me] /\ Pip(e) < InitPrio[me]
    BY <1>1, WaiterIs
  <1>3. /\ o \in DOMAIN InitPrio /\ o \in Tcb /\ Pip(e) \in Prio /\ MPrio(e) = InitPrio[o]
        /\ OSTCBPrio[o] \in {InitPrio[o], Pip(e)} /\ Owned(o) = {e} /\ Pip(e) < InitPrio[o]
        /\ o # Reserved /\ \A f \in Live : Owner(f) = o => f = e
    BY <1>2, OwnerIs DEF UserPrio
  <1>4. /\ EventInv' /\ OSEventTbl' = [OSEventTbl EXCEPT ![e] = @ \cup {InitPrio[me]}]
        /\ OSTCBEventPtr' = [OSTCBEventPtr EXCEPT ![me] = e]
        /\ at' = [at EXCEPT ![me] = "pendwait"] /\ loc' = loc
        /\ \/ ~Promotes(e) /\ UNCHANGED <<OSTCBPrio, OSTCBPrioTbl>>
           \/ /\ OSTCBPrio[o] = InitPrio[o] /\ Pip(e) < OSTCBPrio[o] /\ Pip(e) \in Prio
              /\ OSTCBPrioTbl[Pip(e)] = Reserved
              /\ OSTCBPrio' = [OSTCBPrio EXCEPT ![o] = Pip(e)]
              /\ OSTCBPrioTbl' = [OSTCBPrioTbl EXCEPT ![Pip(e)] = o]
    BY WaitDoes
  <1>5. UNCHANGED <<OSLockNesting, OSTCBList, OSTCBFreeList, cpuVars, mutexVars, ecbVars>>
    BY DEF OSMutexPend_Wait, mutexVars
  <1>6. /\ Live' = Live /\ Live \subseteq Event /\ (\A t : Owned(t)' = Owned(t))
        /\ \A f : /\ Owner(f)' = Owner(f) /\ Pip(f)' = Pip(f) /\ MPrio(f)' = MPrio(f)
                  /\ (Available(f)' <=> Available(f))
    BY <1>5, SameBlocks
  <1>7. /\ at'[me] = "pendwait" /\ (\A t \in Tcb \ {me} : at'[t] = at[t]) /\ loc' = loc
        /\ OSTCBEventPtr'[me] = e /\ \A t \in Tcb \ {me} : OSTCBEventPtr'[t] = OSTCBEventPtr[t]
        /\ OSEventTbl'[e] = OSEventTbl[e] \cup {InitPrio[me]}
        /\ \A f \in Event \ {e} : OSEventTbl'[f] = OSEventTbl[f]
    BY <1>2, <1>4, MutexFacts DEF CoreInv, KernelTypeOK
  <1>8. \A t \in Tcb : Pending(t)' <=> Pending(t) \/ t = me
    BY <1>2, <1>7 DEF Pending
  <1>9. FreeListSound'
    <2>1. Moves({"pend"}, "pendwait")
      <3>1. me # Idle /\ OSIntNesting = 0
        BY <1>1, WaiterIs
      <3> QED BY <1>2, <1>7, <3>1 DEF Moves
    <2> QED BY <1>5, <2>1, ServiceKeepsList DEF MutexInv, Label
  <1>10. TasksFixed' /\ InsideLive' /\ BytesExact' /\ AvailableUnawaited'
    <2>1. TasksFixed' /\ BytesExact'
      BY <1>2, <1>5, <1>6, <1>7 DEF MutexInv, TasksFixed, BytesExact
    <2>2. InsideLive'
      BY <1>6, <1>7 DEF MutexInv, InsideLive
    <2>3. AvailableUnawaited'
      BY <1>1, <1>6, <1>7 DEF MutexInv, AvailableUnawaited
    <2> QED BY <2>1, <2>2, <2>3
  <1>11. OwnsOne'
    BY <1>2, <1>6, <1>7 DEF MutexInv, OwnsOne
  <1>12. HoldsExact'
    <2>1. holds' = holds /\ voided' = voided
      BY <1>5 DEF mutexVars
    <2>2. \A t \in Tcb : holds[t] # NullEvent => holds[t] \in Live /\ Owner(holds[t]) = t
      BY DEF MutexInv, HoldsExact
    <2>3. \A f \in Live : \A w : w = Owner(f) /\ w # NullEvent =>
            holds[w] = f \/ (Pending(w)' /\ loc[w].ev = f)
      <3> SUFFICES ASSUME NEW f \in Live, NEW w, w = Owner(f), w # NullEvent
                   PROVE  holds[w] = f \/ (Pending(w)' /\ loc[w].ev = f)
        OBVIOUS
      <3>1. w \in Tcb
        BY OwnerIs
      <3>2. holds[w] = f \/ (Pending(w) /\ loc[w].ev = f)
        BY DEF MutexInv, HoldsExact
      <3> QED BY <1>8, <3>1, <3>2
    <2>4. \A t \in Tcb : Pending(t)' /\ OSTCBEventPtr'[t] = NullEvent /\ t \notin voided =>
            loc[t].ev \in Live /\ Owner(loc[t].ev) = t
      BY <1>2, <1>7, <1>8, CoreAssumption DEF MutexInv, HoldsExact
    <2>5. \A t \in voided : Pending(t)' /\ OSTCBEventPtr'[t] = NullEvent /\ Owned(t) = {}
      BY <1>2, <1>7, <1>8, TypesAre DEF MutexInv, HoldsExact, Pending
    <2> QED BY <1>6, <1>7, <2>1, <2>2, <2>3, <2>4, <2>5 DEF HoldsExact
  <1>13. SwitchedRight'
    <2>1. OSTCBPrio'[me] = OSTCBPrio[me]
      BY <1>2, <1>4, MutexFacts DEF CoreInv, KernelTypeOK
    <2> QED BY <1>2, <1>5, <1>6, <2>1 DEF MutexInv, SwitchedRight, cpuVars
  <1>14. OutrankedOnlyAfterPost' /\ lowered' \in BOOLEAN
    <2>1. RunsHighest'
      BY <1>5, <1>7 DEF RunsHighest, Settled, cpuVars
    <2> QED BY <1>5, <2>1, TypesAre, OutrankedIsNext DEF mutexVars
  <1>15. /\ OSTCBPrio'[o] = Pip(e) \/ (OSTCBPrio'[o] = OSTCBPrio[o] /\ ~Promotes(e))
         /\ \A t \in Tcb \ {o} : OSTCBPrio'[t] = OSTCBPrio[t]
    BY <1>3, <1>4, MutexFacts DEF CoreInv, KernelTypeOK
  <1>16. NoInversion'
    <2> SUFFICES ASSUME NEW f \in Live, Owner(f) # NullEvent, NEW q \in OSEventTbl'[f]
                 PROVE  OSTCBPrio'[Owner(f)] < q
      BY <1>6 DEF NoInversion
    <2>1. CASE f # e
      <3>1. Owner(f) \in Tcb /\ Owner(f) # o /\ q \in OSEventTbl[f]
        BY <1>3, <1>6, <1>7, <2>1, OwnerIs
      <3> QED BY <1>15, <3>1 DEF MutexInv, NoInversion
    <2>2. CASE f = e
      <3>1. /\ Pip(e) \in Nat /\ InitPrio[me] \in Nat /\ InitPrio[o] \in Nat /\ OSTCBPrio[o] \in Nat
            /\ \A x \in OSEventTbl[e] : x \in Nat
        BY <1>2, <1>3, MutexConstants, MutexFacts DEF CoreInv, KernelTypeOK, UserPrio
      <3>2. \A x \in OSEventTbl[e] : OSTCBPrio[o] < x
        BY <1>2 DEF MutexInv, NoInversion
      <3>3. ~Promotes(e) => OSTCBPrio[o] < InitPrio[me]
        <4>1. ~Promotes(e) => ~(OSTCBPrio[o] > Pip(e)) \/ ~(InitPrio[o] > InitPrio[me])
          BY <1>2, <1>3 DEF Promotes
        <4> QED BY <1>2, <1>3, <3>1, <4>1
      <3>4. OSTCBPrio'[o] = Pip(e) => Pip(e) < q
        <4>1. CASE q \in OSEventTbl[e]
          <5>1. Pip(e) <= OSTCBPrio[o] /\ OSTCBPrio[o] < q /\ q \in Nat
            BY <1>3, <3>1, <3>2, <4>1
          <5> QED BY <3>1, <5>1
        <4>2. CASE q = InitPrio[me]
          BY <1>2, <4>2
        <4> QED BY <1>7, <2>2, <4>1, <4>2
      <3>5. OSTCBPrio'[o] # Pip(e) => OSTCBPrio'[o] < q
        BY <1>7, <1>15, <2>2, <3>2, <3>3
      <3> QED BY <2>2, <3>4, <3>5
    <2> QED BY <2>1, <2>2
  <1>17. CASE UNCHANGED <<OSTCBPrio, OSTCBPrioTbl>>
    <2>1. PipsApart'
      BY <1>2, <1>6, <1>7, <1>17 DEF MutexInv, PipsApart
    <2>2. PriorityGivenBack'
      BY <1>6, <1>17 DEF MutexInv, PriorityGivenBack
    <2> QED BY <1>4, <1>5, <1>9, <1>10, <1>11, <1>12, <1>13, <1>14, <1>16, <2>1, <2>2, TypesAre,
               MutexInvNext DEF mutexVars, ecbVars
  <1>18. CASE ~UNCHANGED <<OSTCBPrio, OSTCBPrioTbl>>
    <2> PICK a \in Prio : a = Pip(e)
      BY <1>3
    <2>1. /\ OSTCBPrio[o] = InitPrio[o] /\ a # InitPrio[o] /\ OSTCBPrioTbl[a] = Reserved
          /\ OSTCBPrio'[o] = a /\ OSTCBPrioTbl'[a] = o
          /\ \A q \in Prio \ {a} : OSTCBPrioTbl'[q] = OSTCBPrioTbl[q]
      <3>1. a # InitPrio[o]
        BY <1>2, <1>3, MutexConstants DEF UserPrio
      <3>2. /\ OSTCBPrio' = [OSTCBPrio EXCEPT ![o] = a] /\ OSTCBPrioTbl' = [OSTCBPrioTbl EXCEPT ![a] = o]
            /\ OSTCBPrio[o] = InitPrio[o] /\ OSTCBPrioTbl[a] = Reserved
        BY <1>4, <1>18
      <3> QED BY <1>3, <3>1, <3>2, MutexFacts DEF CoreInv, KernelTypeOK
    <2>2. PipsApart'
      <3>1. \A f \in Live : \/ OSTCBPrioTbl'[Pip(f)] = Reserved
                            \/ Owner(f) # NullEvent /\ OSTCBPrioTbl'[Pip(f)] = Owner(f)
        <4> SUFFICES ASSUME NEW f \in Live, f # e
                     PROVE  \/ OSTCBPrioTbl'[Pip(f)] = Reserved
                            \/ Owner(f) # NullEvent /\ OSTCBPrioTbl'[Pip(f)] = Owner(f)
          BY <1>2, <2>1
        <4>1. Pip(f) # a /\ Pip(f) \in Pips
          BY <1>2 DEF MutexInv, PipsApart, BytesExact
        <4>2. Pip(f) \in Prio \ {a}
          BY <4>1, MutexConstants DEF UserPrio
        <4> QED BY <2>1, <4>2 DEF MutexInv, PipsApart
      <3>2. ASSUME NEW t \in Tcb, at'[t] = "create"
            PROVE  /\ loc[t].prio \in Pips /\ OSTCBPrioTbl'[loc[t].prio] = Reserved
                   /\ \A f \in Live : Pip(f) # loc[t].prio
                   /\ \A u \in Tcb \ {t} : at'[u] = "create" => loc[u].prio # loc[t].prio
        <4>1. at[t] = "create" /\ \A u \in Tcb : at'[u] = "create" => at[u] = "create"
          BY <1>7, <3>2
        <4>2. loc[t].prio \in Pips /\ loc[t].prio # a /\ OSTCBPrioTbl[loc[t].prio] = Reserved
          BY <1>2, <4>1 DEF MutexInv, PipsApart
        <4>3. loc[t].prio \in Prio
          BY <4>2, MutexConstants DEF UserPrio
        <4> QED BY <2>1, <4>1, <4>2, <4>3 DEF MutexInv, PipsApart
      <3> QED BY <1>6, <1>7, <3>1, <3>2 DEF MutexInv, PipsApart
    <2>3. PriorityGivenBack'
      <3>1. \A t \in DOMAIN InitPrio :
              \/ OSTCBPrio'[t] = InitPrio[t]
              \/ \E f \in Owned(t) : OSTCBPrio'[t] = Pip(f) /\ MPrio(f) = InitPrio[t]
        BY <1>3, <1>15, <2>1, MutexConstants DEF MutexInv, PriorityGivenBack
      <3>2. ASSUME NEW q \in Prio, NEW t \in DOMAIN InitPrio
            PROVE  OSTCBPrioTbl'[q] = t <=> q \in {InitPrio[t], OSTCBPrio'[t]}
        <4>1. OSTCBPrioTbl[q] = t <=> q \in {InitPrio[t], OSTCBPrio[t]}
          BY DEF MutexInv, PriorityGivenBack
        <4>2. t \in Tcb /\ t # Reserved
          BY MutexConstants
        <4>3. CASE q = a
          BY <1>15, <2>1, <4>1, <4>2, <4>3
        <4>4. CASE q # a
          BY <1>15, <2>1, <4>1, <4>2, <4>4
        <4> QED BY <4>3, <4>4
      <3> QED BY <1>6, <3>1, <3>2 DEF PriorityGivenBack
    <2> QED BY <1>4, <1>5, <1>9, <1>10, <1>11, <1>12, <1>13, <1>14, <1>16, <2>2, <2>3, TypesAre,
               MutexInvNext DEF mutexVars, ecbVars
  <1> QED BY <1>17, <1>18

---------------------------------------------------------------------------
\* The regions that take an inherited priority away: a post, and the deletions.

\* What they have in common: o, the owner of e, goes back to its own priority if it
\* inherited (low); the tasks listed at P are served, the entry of the pip becomes x.
Lowering(e, o, low, x, P, l) ==
  /\ OSIntNesting = 0 /\ at[OSTCBCur] \in {"post", "del", "delalways"} /\ Return(l)
  /\ low <=> o # NullEvent /\ OSTCBPrio[o] = Pip(e)
  /\ low => OSTCBPrio[o] \in OSRdyTbl
  /\ P \subseteq OSEventTbl[e] /\ (l = "app" => P = {})
  /\ OSTCBPrio' = [t \in Tcb |-> IF low /\ t = o THEN InitPrio[t] ELSE OSTCBPrio[t]]
  /\ OSTCBPrioTbl' = [OSTCBPrioTbl EXCEPT ![Pip(e)] = x]
  /\ EventTaskRdy(IF low THEN (OSRdyTbl \ {Pip(e)}) \cup {InitPrio[o]} ELSE OSRdyTbl, e, P, "MUTEX")
  /\ UNCHANGED <<OSLockNesting, OSTCBList, OSTCBFreeList, cpuVars>>

\* The tasks that such a region serves.
Served(P) == {OSTCBPrioTbl[p] : p \in P}

\* A task that is served waits for e only, owns nothing and is not the caller.
LEMMA ServedAre ==
  ASSUME MutexInv, MutexSafeUse, NEW e \in Event, NEW P, P \subseteq OSEventTbl[e]
  PROVE  /\ \A p \in P : p \in Prio /\ OSTCBPrioTbl[p] \in Served(P)
         /\ \A t \in Served(P) :
              /\ t \in OSTCBList /\ t \in Tcb /\ t \in DOMAIN InitPrio /\ OSTCBEventPtr[t] = e
              /\ OSTCBPrio[t] \in P /\ OSTCBPrioTbl[OSTCBPrio[t]] = t /\ OSTCBPrio[t] = InitPrio[t]
              /\ OSTCBStat[t] \cap PendAny \subseteq {"MUTEX"}
              /\ Owned(t) = {} /\ Pending(t) /\ loc[t].ev = e
         /\ \A t \in OSTCBList : t \in Served(P) <=> OSTCBPrio[t] \in P
  <1>1. \A p \in P : /\ p \in Prio /\ OSTCBPrioTbl[p] \in OSTCBList /\ OSTCBPrioTbl[p] \in DOMAIN InitPrio
                     /\ OSTCBPrioTbl[p] \in Tcb /\ OSTCBEventPtr[OSTCBPrioTbl[p]] = e
                     /\ OSTCBPrio[OSTCBPrioTbl[p]] = p /\ InitPrio[OSTCBPrioTbl[p]] = p
                     /\ Owned(OSTCBPrioTbl[p]) = {} /\ Pending(OSTCBPrioTbl[p])
                     /\ loc[OSTCBPrioTbl[p]].ev = e
    BY WaiterOwnsNone
  <1>2. \A t \in OSTCBList : /\ OSTCBPrioTbl[OSTCBPrio[t]] = t
                             /\ OSTCBEventPtr[t] # NullEvent => OSTCBStat[t] \cap PendAny \subseteq {"MUTEX"}
    BY TaskIs
  <1> QED BY <1>1, <1>2, CoreAssumption DEF Served

\* Such a region, task by task.
LowerEffect(e, o, low, x, P, l, me, a) ==
  /\ me \in Tcb /\ me \in OSTCBList /\ me # Idle /\ OSTCBPrio[me] \in OSRdyTbl
  /\ OSTCBEventPtr[me] = NullEvent
  /\ PlaceTypes /\ Moves({"post", "del", "delalways"}, l)
  /\ at'[me] = l /\ \A t \in Tcb \ {me} : at'[t] = at[t] /\ loc'[t] = loc[t]
  /\ e \in Event /\ a \in Prio /\ a # OS_LOWEST_PRIO /\ \A t \in DOMAIN InitPrio : InitPrio[t] # a
  /\ low => /\ o \in DOMAIN InitPrio /\ o \in OSTCBList /\ o \in Tcb /\ o # Idle
            /\ OSTCBPrio[o] = a /\ OSTCBPrioTbl[InitPrio[o]] = o /\ InitPrio[o] \in Prio
            /\ OSTCBEventPtr[o] = NullEvent /\ a \in OSRdyTbl
  /\ \A t \in OSTCBList : /\ OSTCBPrio'[t] # a
                          /\ OSTCBPrio'[t] = IF low /\ t = o THEN InitPrio[t] ELSE OSTCBPrio[t]
  /\ OSTCBPrioTbl'[a] = x /\ \A q \in Prio \ {a} : OSTCBPrioTbl'[q] = OSTCBPrioTbl[q]
  /\ OSEventTbl'[e] = OSEventTbl[e] \ P /\ \A f \in Event \ {e} : OSEventTbl'[f] = OSEventTbl[f]
  /\ \A t \in Served(P) : /\ OSTCBEventPtr'[t] = NullEvent /\ OSTCBDly'[t] = 0
                          /\ OSTCBStat'[t] = OSTCBStat[t] \ {"MUTEX"} /\ ~OSTCBPendTO'[t]
  /\ \A t \in Tcb \ Served(P) :
       /\ OSTCBEventPtr'[t] = OSTCBEventPtr[t] /\ OSTCBPendTO'[t] = OSTCBPendTO[t]
       /\ OSTCBStat'[t] = OSTCBStat[t] /\ OSTCBDly'[t] = OSTCBDly[t]
  /\ OSRdyTbl' = (IF low THEN (OSRdyTbl \ {a}) \cup {InitPrio[o]} ELSE OSRdyTbl)
                   \cup {p \in P : OSTCBStat[OSTCBPrioTbl[p]] \subseteq {"MUTEX"}}

LEMMA LowerIs ==
  ASSUME MutexInv, MutexSafeUse, NEW e \in Live, NEW o, o = Owner(e), NEW low \in BOOLEAN,
         NEW x \in {Reserved, NullTcb}, NEW P, NEW l \in {"app", "sched"}, Lowering(e, o, low, x, P, l),
         NEW me, me = OSTCBCur, NEW a, a = Pip(e)
  PROVE  LowerEffect(e, o, low, x, P, l, me, a)
  <1> USE DEF Lowering
  <1>1. /\ CoreInv /\ OSIntNesting = 0 /\ at[me] \in {"post", "del", "delalways"} /\ e \in Event
        /\ OSLockNesting = 0
    BY MutexFacts DEF Live
  <1>2. /\ me \in Tcb /\ me \in OSTCBList /\ OSTCBEventPtr[me] = NullEvent
    BY <1>1, MutexFacts, RunnerAt DEF Points
  <1>3. OSTCBPrio[me] \in OSRdyTbl /\ me # Idle
    BY <1>1, MutexFacts DEF EventInv, WaitsExact, RunnerReady, Settled, CoreInv, IdleStays
  <1>4. PlaceTypes /\ Moves({"post", "del", "delalways"}, l)
    BY <1>1, ReturnMoves DEF Points
  <1>5. at'[me] = l /\ \A t \in Tcb \ {me} : at'[t] = at[t] /\ loc'[t] = loc[t]
    BY <1>1, <1>4 DEF Moves
  <1>6. a \in Pips
    BY DEF MutexInv, BytesExact
  <1>7. a \in Prio /\ a # OS_LOWEST_PRIO /\ \A t \in DOMAIN InitPrio : InitPrio[t] # a
    BY <1>6, MutexConstants DEF UserPrio
  <1>8. low => /\ o \in DOMAIN InitPrio /\ o \in OSTCBList /\ o \in Tcb /\ o # Idle
               /\ OSTCBPrio[o] = a /\ OSTCBPrioTbl[InitPrio[o]] = o /\ InitPrio[o] \in Prio
               /\ OSTCBEventPtr[o] = NullEvent /\ a \in OSRdyTbl
    <2> SUFFICES ASSUME low
                 PROVE  /\ o \in DOMAIN InitPrio /\ o \in OSTCBList /\ o \in Tcb /\ o # Idle
                        /\ OSTCBPrio[o] = a /\ OSTCBPrioTbl[InitPrio[o]] = o /\ InitPrio[o] \in Prio
                        /\ OSTCBEventPtr[o] = NullEvent /\ a \in OSRdyTbl
      OBVIOUS
    <2>1. o # NullEvent /\ OSTCBPrio[o] = a /\ a \in OSRdyTbl
      OBVIOUS
    <2>2. o \in DOMAIN InitPrio /\ o \in OSTCBList /\ o \in Tcb /\ o # Idle /\ OSTCBEventPtr[o] = NullEvent
      BY <2>1, OwnerIs
    <2>3. InitPrio[o] \in Prio
      BY <2>2, MutexConstants DEF UserPrio
    <2>4. OSTCBPrioTbl[InitPrio[o]] = o
      BY <2>2, <2>3 DEF MutexInv, PriorityGivenBack
    <2> QED BY <2>1, <2>2, <2>3, <2>4
  <1>9. ASSUME NEW t \in OSTCBList
        PROVE  /\ OSTCBPrio'[t] = IF low /\ t = o THEN InitPrio[t] ELSE OSTCBPrio[t]
               /\ OSTCBPrio'[t] # a
    <2>1. t \in Tcb /\ OSTCBPrioTbl[OSTCBPrio[t]] = t /\ t \notin {NullTcb, Reserved}
      BY TaskIs
    <2>2. OSTCBPrio'[t] = IF low /\ t = o THEN InitPrio[t] ELSE OSTCBPrio[t]
      BY <2>1
    <2>3. ASSUME OSTCBPrio[t] = a PROVE low /\ t = o
      BY <2>1, <2>3 DEF MutexInv, PipsApart
    <2> QED BY <1>7, <1>8, <2>2, <2>3
  <1>10. /\ OSTCBPrioTbl'[a] = x /\ \A q \in Prio \ {a} : OSTCBPrioTbl'[q] = OSTCBPrioTbl[q]
    BY <1>1, <1>7 DEF CoreInv, KernelTypeOK
  <1>11. /\ OSEventTbl' = [OSEventTbl EXCEPT ![e] = @ \ P]
         /\ OSTCBDly' = [t \in Tcb |-> IF t \in Served(P) THEN 0 ELSE OSTCBDly[t]]
         /\ OSTCBEventPtr' = [t \in Tcb |-> IF t \in Served(P) THEN NullEvent ELSE OSTCBEventPtr[t]]
         /\ OSTCBPendTO' = [t \in Tcb |-> IF t \in Served(P) THEN FALSE ELSE OSTCBPendTO[t]]
         /\ OSTCBStat' = [t \in Tcb |-> IF t \in Served(P) THEN OSTCBStat[t] \ {"MUTEX"} ELSE OSTCBStat[t]]
         /\ OSRdyTbl' = (IF low THEN (OSRdyTbl \ {a}) \cup {InitPrio[o]} ELSE OSRdyTbl)
                          \cup {p \in P : OSTCBStat[OSTCBPrioTbl[p]] \subseteq {"MUTEX"}}
    BY Zenon DEF EventTaskRdy, Served
  <1>12. Served(P) \subseteq Tcb
    BY <1>1, ServedAre
  <1>13. /\ \A t \in Served(P) : /\ OSTCBEventPtr'[t] = NullEvent /\ OSTCBDly'[t] = 0
                                 /\ OSTCBStat'[t] = OSTCBStat[t] \ {"MUTEX"} /\ ~OSTCBPendTO'[t]
         /\ \A t \in Tcb \ Served(P) :
              /\ OSTCBEventPtr'[t] = OSTCBEventPtr[t] /\ OSTCBPendTO'[t] = OSTCBPendTO[t]
              /\ OSTCBStat'[t] = OSTCBStat[t] /\ OSTCBDly'[t] = OSTCBDly[t]
    BY <1>11, <1>12, Zenon
  <1>14. OSEventTbl'[e] = OSEventTbl[e] \ P /\ \A f \in Event \ {e} : OSEventTbl'[f] = OSEventTbl[f]
    BY <1>1, <1>11 DEF CoreInv, KernelTypeOK
  <1> HIDE DEF Lowering
  <1> QED BY <1>1, <1>2, <1>3, <1>4, <1>5, <1>7, <1>8, <1>9, <1>10, <1>11, <1>13, <1>14 DEF LowerEffect

LEMMA LowerKeeps ==
  ASSUME MutexInv, MutexSafeUse, NEW e \in Live, NEW o, o = Owner(e), NEW low \in BOOLEAN,
         NEW x \in {Reserved, NullTcb}, NEW P, NEW l \in {"app", "sched"}, Lowering(e, o, low, x, P, l),
         \A f \in Event : OSEventType'[f] # OSEventType[f] =>
           OSEventTbl'[f] = {} /\ \A t \in Tcb : Making(t)' => loc'[t].ev # f
  PROVE  /\ EventInv'
         /\ l = "sched" \/ (RunsHighest /\ ~low) => RunsHighest'
  <1> PICK me : me = OSTCBCur
    OBVIOUS
  <1> PICK a : a = Pip(e)
    OBVIOUS
  <1> DEFINE W == Served(P)
  <1>0. LowerEffect(e, o, low, x, P, l, me, a)
    BY LowerIs
  <1>1. /\ me \in Tcb /\ me \in OSTCBList /\ me # Idle /\ OSTCBPrio[me] \in OSRdyTbl
        /\ OSTCBEventPtr[me] = NullEvent /\ at'[me] = l /\ at[me] \in {"post", "del", "delalways"}
        /\ e \in Event /\ a \in Prio /\ a # OS_LOWEST_PRIO /\ \A t \in DOMAIN InitPrio : InitPrio[t] # a
        /\ OSIntNesting = 0 /\ OSLockNesting = 0 /\ P \subseteq OSEventTbl[e] /\ (l = "app" => P = {})
        /\ UNCHANGED <<OSLockNesting, OSTCBList, OSTCBFreeList, cpuVars>>
    <2>1. /\ me \in Tcb /\ me \in OSTCBList /\ me # Idle /\ OSTCBPrio[me] \in OSRdyTbl
          /\ OSTCBEventPtr[me] = NullEvent /\ at'[me] = l
          /\ e \in Event /\ a \in Prio /\ a # OS_LOWEST_PRIO /\ \A t \in DOMAIN InitPrio : InitPrio[t] # a
      BY <1>0 DEF LowerEffect
    <2>2. /\ OSIntNesting = 0 /\ P \subseteq OSEventTbl[e] /\ (l = "app" => P = {})
          /\ at[me] \in {"post", "del", "delalways"}
          /\ UNCHANGED <<OSLockNesting, OSTCBList, OSTCBFreeList, cpuVars>>
      BY DEF Lowering
    <2> QED BY <2>1, <2>2, MutexFacts
  <1>2. low => /\ o \in DOMAIN InitPrio /\ o \in OSTCBList /\ o \in Tcb /\ o # Idle
               /\ OSTCBPrio[o] = a /\ OSTCBPrioTbl[InitPrio[o]] = o /\ InitPrio[o] \in Prio
               /\ OSTCBEventPtr[o] = NullEvent /\ a \in OSRdyTbl
    BY <1>0 DEF LowerEffect
  <1>3. /\ \A t \in OSTCBList : /\ OSTCBPrio'[t] # a
                                /\ OSTCBPrio'[t] = IF low /\ t = o THEN InitPrio[t] ELSE OSTCBPrio[t]
        /\ OSTCBPrioTbl'[a] = x /\ \A q \in Prio \ {a} : OSTCBPrioTbl'[q] = OSTCBPrioTbl[q]
    BY <1>0 DEF LowerEffect
  <1>4. /\ \A t \in W : /\ OSTCBEventPtr'[t] = NullEvent /\ OSTCBDly'[t] = 0
                        /\ OSTCBStat'[t] = OSTCBStat[t] \ {"MUTEX"} /\ ~OSTCBPendTO'[t]
        /\ \A t \in Tcb \ W :
             /\ OSTCBEventPtr'[t] = OSTCBEventPtr[t] /\ OSTCBPendTO'[t] = OSTCBPendTO[t]
             /\ OSTCBStat'[t] = OSTCBStat[t] /\ OSTCBDly'[t] = OSTCBDly[t]
    BY <1>0 DEF LowerEffect
  <1>5. OSRdyTbl' = (IF low THEN (OSRdyTbl \ {a}) \cup {InitPrio[o]} ELSE OSRdyTbl)
                      \cup {p \in P : OSTCBStat[OSTCBPrioTbl[p]] \subseteq {"MUTEX"}}
    BY <1>0 DEF LowerEffect
  <1>6. /\ OSEventTbl'[e] = OSEventTbl[e] \ P /\ \A f \in Event \ {e} : OSEventTbl'[f] = OSEventTbl[f]
        /\ PlaceTypes /\ Moves({"post", "del", "delalways"}, l)
        /\ \A t \in Tcb \ {me} : at'[t] = at[t] /\ loc'[t] = loc[t]
    BY <1>0 DEF LowerEffect
  <1>7. /\ \A p \in P : p \in Prio /\ OSTCBPrioTbl[p] \in W
        /\ \A t \in W : /\ t \in OSTCBList /\ t \in Tcb /\ t \in DOMAIN InitPrio /\ OSTCBEventPtr[t] = e
                        /\ OSTCBPrio[t] \in P /\ OSTCBPrioTbl[OSTCBPrio[t]] = t
                        /\ OSTCBStat[t] \cap PendAny \subseteq {"MUTEX"} /\ (low => t # o)
        /\ \A t \in OSTCBList : t \in W <=> OSTCBPrio[t] \in P
    BY <1>1, <1>2, ServedAre, CoreAssumption
  <1> HIDE DEF W
  <1>8. /\ CoreInv /\ EventInv /\ OSTCBList \subseteq Tcb /\ \A t \in Tcb : ~Deleting(t) /\ ~Creating(t)
    BY MutexFacts
  <1>9. Moves(Points \ {"pendwake"}, l)
    BY <1>6 DEF Moves, Points
  <1>10. /\ OSRdyTbl' \subseteq Prio /\ OSEventTbl' \in [Event -> SUBSET Prio]
         /\ OSTCBPrio' \in [Tcb -> Prio] /\ OSTCBPrioTbl' \in [Prio -> Tcb \cup {NullTcb, Reserved}]
         /\ OSTCBStat' \in [Tcb -> SUBSET Stat] /\ OSTCBDly' \in [Tcb -> Ticks]
         /\ OSTCBPendTO' \in [Tcb -> BOOLEAN] /\ OSTCBEventPtr' \in [Tcb -> Event \cup {NullEvent}]
    <2>1. /\ OSEventTbl' = [OSEventTbl EXCEPT ![e] = @ \ P]
          /\ OSTCBDly' = [t \in Tcb |-> IF t \in W THEN 0 ELSE OSTCBDly[t]]
          /\ OSTCBEventPtr' = [t \in Tcb |-> IF t \in W THEN NullEvent ELSE OSTCBEventPtr[t]]
          /\ OSTCBPendTO' = [t \in Tcb |-> IF t \in W THEN FALSE ELSE OSTCBPendTO[t]]
          /\ OSTCBStat' = [t \in Tcb |-> IF t \in W THEN OSTCBStat[t] \ {"MUTEX"} ELSE OSTCBStat[t]]
          /\ OSTCBPrio' = [t \in Tcb |-> IF low /\ t = o THEN InitPrio[t] ELSE OSTCBPrio[t]]
          /\ OSTCBPrioTbl' = [OSTCBPrioTbl EXCEPT ![a] = x]
      BY Zenon DEF Lowering, EventTaskRdy, Served, W
    <2>2. /\ OSEventTbl' \in [Event -> SUBSET Prio] /\ OSTCBEventPtr' \in [Tcb -> Event \cup {NullEvent}]
          /\ OSTCBStat' \in [Tcb -> SUBSET Stat] /\ OSTCBPrioTbl' \in [Prio -> Tcb \cup {NullTcb, Reserved}]
      BY <1>1, <1>8, <2>1 DEF CoreInv, KernelTypeOK
    <2>3. OSTCBPendTO' \in [Tcb -> BOOLEAN]
      BY <1>8, <2>1, Zenon DEF CoreInv, KernelTypeOK
    <2>4. OSTCBDly' \in [Tcb -> Ticks]
      BY <1>8, <2>1, CoreAssumption DEF CoreInv, KernelTypeOK, Ticks
    <2>5. OSTCBPrio' \in [Tcb -> Prio]
      BY <1>2, <1>8, <2>1 DEF CoreInv, KernelTypeOK
    <2>6. OSRdyTbl' \subseteq Prio
      BY <1>2, <1>5, <1>7, <1>8 DEF CoreInv, KernelTypeOK
    <2> QED BY <2>2, <2>3, <2>4, <2>5, <2>6
  <1>11. /\ \A t \in OSTCBList : OSTCBPrioTbl'[OSTCBPrio'[t]] = t
         /\ \A q \in Prio : HasTcb(q)' => OSTCBPrioTbl'[q] \in OSTCBList
         /\ \A q \in Prio : OSTCBPrioTbl'[q] = Idle <=> q = OS_LOWEST_PRIO
         /\ OSTCBPrio'[Idle] = OS_LOWEST_PRIO
    <2>1. \A t \in OSTCBList : OSTCBPrioTbl'[OSTCBPrio'[t]] = t
      <3>1. \A t \in OSTCBList : OSTCBPrio'[t] \in Prio \ {a}
        BY <1>3, <1>8, <1>10
      <3> QED BY <1>2, <1>3, <3>1, TaskIs
    <2>2. \A q \in Prio : HasTcb(q)' => OSTCBPrioTbl'[q] \in OSTCBList
      BY <1>3, <1>8 DEF HasTcb, CoreInv, TablesAgree
    <2>3. \A q \in Prio : OSTCBPrioTbl'[q] = Idle <=> q = OS_LOWEST_PRIO
      BY <1>1, <1>3, <1>8, CoreAssumption DEF CoreInv, IdleStays, Tcb
    <2>4. OSTCBPrio'[Idle] = OS_LOWEST_PRIO
      <3>1. Idle \in OSTCBList
        BY MutexFacts
      <3> QED BY <1>2, <1>3, <1>8, <3>1 DEF CoreInv, IdleStays
    <2> QED BY <2>1, <2>2, <2>3, <2>4
  <1>12. ASSUME NEW t \in OSTCBList
         PROVE  OSTCBPrio'[t] \in OSRdyTbl' <=> OSTCBStat'[t] = {} /\ OSTCBDly'[t] = 0
    <2>1. /\ OSTCBPrio[t] \in OSRdyTbl <=> OSTCBStat[t] = {} /\ OSTCBDly[t] = 0
          /\ OSTCBPrioTbl[OSTCBPrio[t]] = t /\ t \in Tcb
      BY TaskIs
    <2>2. CASE low /\ t = o
      <3>1. OSTCBPrio'[t] = InitPrio[o] /\ OSTCBStat'[t] = OSTCBStat[t] /\ OSTCBDly'[t] = OSTCBDly[t]
        BY <1>2, <1>3, <1>4, <1>7, <2>1, <2>2
      <3>2. OSTCBStat[t] = {} /\ OSTCBDly[t] = 0
        BY <1>2, <2>1, <2>2
      <3> QED BY <1>5, <2>2, <3>1, <3>2
    <2>3. CASE ~(low /\ t = o)
      <3>1. OSTCBPrio'[t] = OSTCBPrio[t] /\ OSTCBPrio[t] # a /\ (low => OSTCBPrio[t] # InitPrio[o])
        BY <1>2, <1>3, <2>1, <2>3
      <3>2. CASE t \in W
        <4>1. OSTCBPrio[t] \in OSRdyTbl' <=> OSTCBPrio[t] \in OSRdyTbl \/ OSTCBStat[t] \subseteq {"MUTEX"}
          BY <1>5, <1>7, <3>1, <3>2
        <4> QED BY <1>4, <2>1, <3>1, <3>2, <4>1
      <3>3. CASE t \notin W
        <4>1. OSTCBPrio[t] \in OSRdyTbl' <=> OSTCBPrio[t] \in OSRdyTbl
          BY <1>5, <1>7, <3>1, <3>3
        <4> QED BY <1>4, <2>1, <3>1, <3>3, <4>1
      <3> QED BY <3>2, <3>3
    <2> QED BY <2>2, <2>3
  <1>13. \A q \in OSRdyTbl' : OSTCBPrioTbl'[q] \in OSTCBList /\ OSTCBPrio'[OSTCBPrioTbl'[q]] = q
    <2> SUFFICES ASSUME NEW q \in OSRdyTbl'
                 PROVE  OSTCBPrioTbl'[q] \in OSTCBList /\ OSTCBPrio'[OSTCBPrioTbl'[q]] = q
      OBVIOUS
    <2>1. CASE low /\ q = InitPrio[o]
      BY <1>1, <1>2, <1>3, <2>1
    <2>2. CASE ~(low /\ q = InitPrio[o])
      <3> PICK w : w = OSTCBPrioTbl[q]
        OBVIOUS
      <3>1. q \in OSRdyTbl \/ q \in P
        BY <1>5, <2>2
      <3>2. w \in OSTCBList /\ OSTCBPrio[w] = q /\ q \in Prio
        <4>1. CASE q \in OSRdyTbl
          BY <4>1, ReadyIs
        <4>2. CASE q \in P
          BY <1>1, <4>2, WaiterOwnsNone
        <4> QED BY <3>1, <4>1, <4>2
      <3>3. ~(low /\ w = o)
        <4> SUFFICES ASSUME low, w = o PROVE FALSE
          OBVIOUS
        <4>1. q = a
          BY <1>2, <3>2
        <4>2. q \notin P
          BY <1>7, <1>2, <3>2
        <4> QED BY <1>1, <1>2, <1>5, <4>1, <4>2
      <3>4. OSTCBPrio'[w] = q /\ q # a
        BY <1>3, <3>2, <3>3
      <3> QED BY <1>3, <3>2, <3>4
    <2> QED BY <2>1, <2>2
  <1>14. \A t \in OSTCBList : OSTCBEventPtr'[t] # NullEvent => OSTCBPrio'[t] \in OSEventTbl'[OSTCBEventPtr'[t]]
    <2> SUFFICES ASSUME NEW t \in OSTCBList, OSTCBEventPtr'[t] # NullEvent
                 PROVE  OSTCBPrio'[t] \in OSEventTbl'[OSTCBEventPtr'[t]]
      OBVIOUS
    <2>1. t \notin W /\ OSTCBEventPtr'[t] = OSTCBEventPtr[t]
      BY <1>4, <1>8
    <2>2. OSTCBEventPtr[t] \in Event /\ OSTCBPrio[t] \in OSEventTbl[OSTCBEventPtr[t]]
      BY <2>1, TaskIs
    <2>3. OSTCBPrio'[t] = OSTCBPrio[t] /\ OSTCBPrio[t] \notin P
      BY <1>2, <1>3, <1>7, <2>1
    <2> QED BY <1>6, <2>1, <2>2, <2>3
  <1>15. \A f \in Event : \A q \in OSEventTbl'[f] :
           /\ OSTCBPrioTbl'[q] \in OSTCBList /\ OSTCBPrio'[OSTCBPrioTbl'[q]] = q
           /\ OSTCBEventPtr'[OSTCBPrioTbl'[q]] = f
    <2> SUFFICES ASSUME NEW f \in Event, NEW q \in OSEventTbl'[f]
                 PROVE  /\ OSTCBPrioTbl'[q] \in OSTCBList /\ OSTCBPrio'[OSTCBPrioTbl'[q]] = q
                        /\ OSTCBEventPtr'[OSTCBPrioTbl'[q]] = f
      OBVIOUS
    <2> PICK w : w = OSTCBPrioTbl[q]
      OBVIOUS
    <2>1. q \in OSEventTbl[f] /\ ~(f = e /\ q \in P)
      BY <1>6
    <2>2. w \in OSTCBList /\ w \in Tcb /\ OSTCBPrio[w] = q /\ OSTCBEventPtr[w] = f /\ q \in Prio
      BY <2>1, WaiterOwnsNone
    <2>3. w \notin W /\ ~(low /\ w = o)
      BY <1>2, <1>7, <2>1, <2>2, CoreAssumption
    <2>4. OSTCBPrio'[w] = q /\ q # a /\ OSTCBEventPtr'[w] = f
      BY <1>3, <1>4, <2>2, <2>3
    <2> QED BY <1>3, <2>2, <2>4
  <1>16. \A t \in OSTCBList :
           /\ OSTCBEventPtr'[t] # NullEvent <=> OSTCBPendTO'[t] \/ OSTCBStat'[t] \cap PendAny # {}
           /\ OSTCBEventPtr'[t] # NullEvent =>
                /\ Pending(t)' /\ loc'[t].ev = OSTCBEventPtr'[t]
                /\ OSTCBStat'[t] \cap PendAny \subseteq {OSEventType'[OSTCBEventPtr'[t]]}
           /\ OSTCBPendTO'[t] => OSTCBDly'[t] = 0
    <2> SUFFICES ASSUME NEW t \in OSTCBList
         PROVE /\ OSTCBEventPtr'[t] # NullEvent <=> OSTCBPendTO'[t] \/ OSTCBStat'[t] \cap PendAny # {}
               /\ OSTCBEventPtr'[t] # NullEvent =>
                    /\ Pending(t)' /\ loc'[t].ev = OSTCBEventPtr'[t]
                    /\ OSTCBStat'[t] \cap PendAny \subseteq {OSEventType'[OSTCBEventPtr'[t]]}
               /\ OSTCBPendTO'[t] => OSTCBDly'[t] = 0
      OBVIOUS
    <2>1. CASE t \in W
      <3>1. OSTCBStat'[t] \cap PendAny = {}
        BY <1>4, <1>7, <2>1
      <3>2. OSTCBEventPtr'[t] = NullEvent /\ ~OSTCBPendTO'[t]
        BY <1>4, <2>1
      <3> QED BY <3>1, <3>2
    <2>2. CASE t \notin W
      <3>1. /\ OSTCBEventPtr'[t] = OSTCBEventPtr[t] /\ OSTCBPendTO'[t] = OSTCBPendTO[t]
            /\ OSTCBStat'[t] = OSTCBStat[t] /\ OSTCBDly'[t] = OSTCBDly[t] /\ t \in Tcb
        BY <1>4, <1>8, <2>2
      <3>2. OSTCBEventPtr[t] # NullEvent => (Pending(t)' <=> Pending(t)) /\ loc'[t] = loc[t]
        BY <1>1, <1>6, <3>1 DEF Pending
      <3>3. OSTCBEventPtr[t] # NullEvent =>
              /\ OSTCBEventPtr[t] \in Event /\ OSTCBPrio[t] \in OSEventTbl[OSTCBEventPtr[t]]
              /\ OSTCBPrio[t] \notin P
        BY <1>7, <2>2, TaskIs
      <3>4. OSTCBEventPtr[t] # NullEvent =>
              OSEventType'[OSTCBEventPtr[t]] = OSEventType[OSTCBEventPtr[t]]
        BY <1>6, <3>3
      <3> QED BY <1>8, <3>1, <3>2, <3>4, PenderAt
    <2> QED BY <2>1, <2>2
  <1>17. OSPrioCur = OSTCBPrio'[OSTCBCur] \/ ~HasTcb(OSPrioCur)'
    <2>1. OSPrioCur = OSTCBPrio[me] \/ ~HasTcb(OSPrioCur)
      BY <1>1, <1>8 DEF CoreInv, CurrentKnown
    <2>2. OSPrioCur \in Prio /\ OSPrioCur' = OSPrioCur
      BY <1>1, <1>8 DEF CoreInv, KernelTypeOK, cpuVars
    <2>3. CASE OSPrioCur = OSTCBPrio'[me]
      BY <2>3
    <2>4. CASE OSPrioCur # OSTCBPrio'[me]
      <3>1. OSPrioCur = a \/ OSTCBPrioTbl[OSPrioCur] \in {NullTcb, Reserved}
        BY <1>1, <1>2, <1>3, <2>1, <2>4 DEF HasTcb
      <3>2. OSTCBPrioTbl'[OSPrioCur'] \in {NullTcb, Reserved}
        BY <1>3, <2>2, <3>1
      <3> QED BY <3>2 DEF HasTcb
    <2> QED BY <2>3, <2>4
  <1>18. OSTCBPrio'[me] \in OSRdyTbl'
    <2>1. OSTCBPrioTbl[OSTCBPrio[me]] = me
      BY <1>1, TaskIs
    <2> QED BY <1>1, <1>2, <1>3, <1>5, <2>1
  <1>19. \A f \in Event : OSEventType'[f] = "UNUSED" => OSEventTbl'[f] = {}
    BY <1>1, <1>6, <1>8 DEF EventInv, BlocksApart, Live
  <1>20. EventInv'
    BY <1>1, <1>6, <1>9, <1>10, <1>11, <1>12, <1>13, <1>14, <1>15, <1>16, <1>17, <1>18, <1>19,
       RegionSound
  <1>21. l = "sched" \/ (RunsHighest /\ ~low) => RunsHighest'
    <2>1. CASE l = "sched"
      BY <1>1, <2>1 DEF RunsHighest, Settled, cpuVars
    <2>2. CASE RunsHighest /\ ~low /\ l = "app"
      <3>1. OSRdyTbl' = OSRdyTbl /\ OSTCBPrio'[me] = OSTCBPrio[me]
        BY <1>1, <1>3, <1>5, <2>2
      <3>2. HighestIn(OSTCBPrio[me], OSRdyTbl)
        BY <1>1, <2>2 DEF RunsHighest, Settled
      <3> QED BY <1>1, <3>1, <3>2 DEF RunsHighest, HighestIn, cpuVars
    <2> QED BY <2>1, <2>2
  <1> QED BY <1>20, <1>21

\* What such a region does with the block: it is free then, or it goes to the first of
\* the tasks that are served, or it is not in use any more.
Passes(e, x, P) ==
  /\ Live \ {e} \subseteq Live' /\ Live' \subseteq Live
  /\ \A f \in Live' : Pip(f)' = Pip(f)
  /\ \A f \in Live \ {e} : Owner(f)' = Owner(f) /\ MPrio(f)' = MPrio(f)
  /\ e \notin Live' => Apart(e)
  /\ e \in Live' =>
       /\ x = Reserved
       /\ \/ Owner(e)' = NullEvent /\ MPrio(e)' = OS_MUTEX_AVAILABLE /\ OSEventTbl[e] = {}
          \/ \E p \in OSEventTbl[e] : /\ P = {p} /\ HighestIn(p, OSEventTbl[e])
                                      /\ Owner(e)' = OSTCBPrioTbl[p] /\ MPrio(e)' = p

\* The new owner of the block.
LEMMA HeirIs ==
  ASSUME MutexInv, MutexSafeUse, NEW e \in Live, NEW o, o = Owner(e), NEW low \in BOOLEAN,
         NEW x \in {Reserved, NullTcb}, NEW P, NEW l \in {"app", "sched"}, Lowering(e, o, low, x, P, l),
         Passes(e, x, P), e \in Live', NEW u, u = Owner(e)', u # NullEvent
  PROVE  /\ u \in Served(P) /\ u \in Tcb /\ u \in DOMAIN InitPrio /\ u # OSTCBCur /\ u # o
         /\ MPrio(e)' = InitPrio[u] /\ OSTCBPrio[u] = InitPrio[u] /\ l = "sched"
         /\ Owned(u) = {} /\ Pending(u) /\ loc[u].ev = e /\ OSTCBEventPtr[u] = e
         /\ P = {InitPrio[u]} /\ \A q \in OSEventTbl[e] \ P : InitPrio[u] < q
  <1> PICK p \in OSEventTbl[e] : /\ P = {p} /\ HighestIn(p, OSEventTbl[e])
                                 /\ u = OSTCBPrioTbl[p] /\ MPrio(e)' = p
    BY DEF Passes
  <1>1. u \in Served(P)
    BY DEF Served
  <1>2. e \in Event /\ P \subseteq OSEventTbl[e]
    BY DEF Live
  <1>3. /\ u \in Tcb /\ u \in DOMAIN InitPrio /\ OSTCBPrio[u] = p /\ InitPrio[u] = p
        /\ Owned(u) = {} /\ Pending(u) /\ loc[u].ev = e /\ OSTCBEventPtr[u] = e
    BY <1>1, <1>2, ServedAre
  <1>4. u # OSTCBCur /\ l = "sched"
    BY <1>3 DEF Lowering, Pending
  <1>5. \A q \in OSEventTbl[e] : q \in Nat /\ (q # p => p < q)
    BY <1>2, MutexFacts, CoreAssumption DEF HighestIn, CoreInv, KernelTypeOK, Prio
  <1>6. u # o
    BY <1>3, MutexAssumption DEF Owned, Live
  <1> QED BY <1>1, <1>3, <1>4, <1>5, <1>6

LEMMA LowerParts ==
  ASSUME MutexInv, MutexSafeUse, NEW e \in Live, NEW o, o = Owner(e), NEW low \in BOOLEAN,
         NEW x \in {Reserved, NullTcb}, NEW P, NEW l \in {"app", "sched"}, Lowering(e, o, low, x, P, l),
         Passes(e, x, P)
  PROVE  /\ TasksFixed' /\ InsideLive' /\ BytesExact' /\ AvailableUnawaited' /\ OwnsOne'
         /\ PipsApart' /\ NoInversion' /\ PriorityGivenBack' /\ SwitchedRight'
         /\ \A t \in Tcb \ Served(P) : Owned(t)' \subseteq Owned(t)
         /\ \A t \in Tcb : /\ Pending(t)' <=> Pending(t)
                           /\ Pending(t) => loc'[t] = loc[t]
         /\ \A t \in Tcb : OSTCBEventPtr'[t] = IF t \in Served(P) THEN NullEvent ELSE OSTCBEventPtr[t]
         /\ ~Pending(OSTCBCur)
  <1> PICK me : me = OSTCBCur
    OBVIOUS
  <1> PICK a : a = Pip(e)
    OBVIOUS
  <1> DEFINE W == Served(P)
  <1>0. LowerEffect(e, o, low, x, P, l, me, a)
    BY LowerIs
  <1>1. /\ me \in Tcb /\ at'[me] = l /\ at[me] \in {"post", "del", "delalways"} /\ OSTCBCur' = me
        /\ e \in Event /\ a \in Prio /\ \A t \in DOMAIN InitPrio : InitPrio[t] # a
        /\ UNCHANGED <<OSPrioCur, OSTCBList>> /\ P \subseteq OSEventTbl[e]
    <2>1. /\ me \in Tcb /\ at'[me] = l /\ e \in Event /\ a \in Prio
          /\ \A t \in DOMAIN InitPrio : InitPrio[t] # a
      BY <1>0 DEF LowerEffect
    <2>2. /\ at[me] \in {"post", "del", "delalways"} /\ P \subseteq OSEventTbl[e]
          /\ UNCHANGED <<OSTCBCur, OSPrioCur, OSTCBList>>
      BY DEF Lowering, cpuVars
    <2> QED BY <2>1, <2>2
  <1>2. low => /\ o \in DOMAIN InitPrio /\ o \in OSTCBList /\ o \in Tcb
               /\ OSTCBPrio[o] = a /\ OSTCBPrioTbl[InitPrio[o]] = o
    BY <1>0 DEF LowerEffect
  <1>3. /\ \A t \in OSTCBList : /\ OSTCBPrio'[t] # a
                                /\ OSTCBPrio'[t] = IF low /\ t = o THEN InitPrio[t] ELSE OSTCBPrio[t]
        /\ OSTCBPrioTbl'[a] = x /\ \A q \in Prio \ {a} : OSTCBPrioTbl'[q] = OSTCBPrioTbl[q]
    BY <1>0 DEF LowerEffect
  <1>4. \A t \in Tcb : OSTCBEventPtr'[t] = IF t \in W THEN NullEvent ELSE OSTCBEventPtr[t]
    BY <1>0 DEF LowerEffect
  <1>5. /\ OSEventTbl'[e] = OSEventTbl[e] \ P /\ \A f \in Event \ {e} : OSEventTbl'[f] = OSEventTbl[f]
        /\ \A t \in Tcb \ {me} : at'[t] = at[t] /\ loc'[t] = loc[t]
    BY <1>0 DEF LowerEffect
  <1>6. \A t \in W : /\ t \in OSTCBList /\ t \in Tcb /\ t \in DOMAIN InitPrio /\ Owned(t) = {}
                     /\ Pending(t) /\ loc[t].ev = e /\ OSTCBPrio[t] = InitPrio[t]
    BY <1>1, ServedAre
  <1> HIDE DEF W
  <1>7. /\ Live \ {e} \subseteq Live' /\ Live' \subseteq Live /\ Live \subseteq Event
        /\ (\A f \in Live' : Pip(f)' = Pip(f))
        /\ \A f \in Live \ {e} : Owner(f)' = Owner(f) /\ MPrio(f)' = MPrio(f)
    BY DEF Passes, Live
  <1> PICK u : u = Owner(e)'
    OBVIOUS
  <1>8. e \in Live' => x = Reserved /\ (u = NullEvent => MPrio(e)' = OS_MUTEX_AVAILABLE /\ OSEventTbl[e] = {})
    <2> SUFFICES ASSUME e \in Live', u = NullEvent
                 PROVE  MPrio(e)' = OS_MUTEX_AVAILABLE /\ OSEventTbl[e] = {}
      BY DEF Passes
    <2>1. \A p \in OSEventTbl[e] : OSTCBPrioTbl[p] # NullEvent
      BY <1>1, WaiterOwnsNone, MutexAssumption
    <2> QED BY <2>1 DEF Passes
  <1>9. e \in Live' /\ u # NullEvent =>
          /\ u \in W /\ u \in DOMAIN InitPrio /\ u # me /\ u # o /\ l = "sched"
          /\ MPrio(e)' = InitPrio[u] /\ \A q \in OSEventTbl[e] \ P : InitPrio[u] < q
    BY HeirIs DEF W
  <1>10. /\ \A t \in Tcb \ W : Owned(t)' \subseteq Owned(t)
         /\ \A t \in Tcb \ {o} : Owned(t) \subseteq Owned(t)'
         /\ \A t \in W : Owned(t)' \subseteq {e}
    <2>1. \A t : \A f : /\ f \in Owned(t) <=> f \in Live /\ Owner(f) = t
                        /\ f \in Owned(t)' <=> f \in Live' /\ Owner(f)' = t
      BY DEF Owned, Live
    <2>2. \A t \in Tcb : t # NullEvent
      BY MutexAssumption
    <2>3. ASSUME NEW t \in Tcb \ W, NEW f \in Owned(t)' PROVE f \in Owned(t)
      BY <1>7, <1>9, <2>1, <2>2, <2>3
    <2>4. ASSUME NEW t \in Tcb \ {o}, NEW f \in Owned(t) PROVE f \in Owned(t)'
      BY <1>7, <2>1, <2>4
    <2>5. ASSUME NEW t \in W, NEW f \in Owned(t)' PROVE f = e
      BY <1>6, <1>7, <2>1, <2>5
    <2> QED BY <2>3, <2>4, <2>5
  <1>11. \A t \in Tcb : /\ Pending(t)' <=> Pending(t)
                        /\ Pending(t) => loc'[t] = loc[t]
    BY <1>1, <1>5 DEF Pending
  <1>12. TasksFixed' /\ InsideLive'
    <2>1. TasksFixed'
      BY <1>1, <1>4 DEF MutexInv, TasksFixed
    <2>2. InsideLive'
      <3> SUFFICES ASSUME NEW t \in Tcb, at'[t] \in {"pend", "post", "accept", "del", "delalways"}
                   PROVE  loc'[t].ev \in Live'
        BY DEF InsideLive
      <3>1. t # me /\ at'[t] = at[t] /\ loc'[t] = loc[t]
        BY <1>1, <1>5
      <3>2. loc[t].ev \in Live
        BY <3>1 DEF MutexInv, InsideLive
      <3>3. CASE e \in Live'
        BY <1>7, <3>1, <3>2, <3>3
      <3>4. CASE e \notin Live'
        <4>1. loc[t].ev # e
          BY <3>1, <3>4 DEF Passes, Apart
        <4> QED BY <1>7, <3>1, <3>2, <4>1
      <3> QED BY <3>3, <3>4
    <2> QED BY <2>1, <2>2
  <1>13. BytesExact' /\ AvailableUnawaited'
    <2>1. BytesExact'
      <3> SUFFICES ASSUME NEW f \in Live'
                   PROVE  /\ Pip(f)' \in Pips
                          /\ IF Owner(f)' = NullEvent THEN Available(f)'
                             ELSE Owner(f)' \in DOMAIN InitPrio /\ MPrio(f)' = InitPrio[Owner(f)']
        BY DEF BytesExact
      <3>1. Pip(f)' \in Pips
        BY <1>7 DEF MutexInv, BytesExact
      <3>2. CASE f # e
        BY <1>7, <3>1, <3>2 DEF MutexInv, BytesExact, Available
      <3>3. CASE f = e
        BY <1>8, <1>9, <3>1, <3>3 DEF Available
      <3> QED BY <3>2, <3>3
    <2>2. AvailableUnawaited'
      <3> SUFFICES ASSUME NEW f \in Live', MPrio(f)' = OS_MUTEX_AVAILABLE PROVE OSEventTbl'[f] = {}
        BY DEF AvailableUnawaited, Available
      <3>1. CASE f # e
        BY <1>5, <1>7, <3>1 DEF MutexInv, AvailableUnawaited, Available
      <3>2. CASE f = e
        <4>1. u = NullEvent
          BY <1>9, <3>2, MutexConstants DEF OS_MUTEX_AVAILABLE, UserPrio
        <4> QED BY <1>5, <1>8, <3>2, <4>1
      <3> QED BY <3>1, <3>2
    <2> QED BY <2>1, <2>2
  <1>14. OwnsOne'
    <2>1. \A f, g \in Live' : Owner(f)' = Owner(g)' /\ Owner(f)' # NullEvent => f = g
      <3>1. \A f \in Live' : f # e /\ Owner(f) \in W => FALSE
        BY <1>6, <1>7 DEF Owned, Live
      <3>2. \A f \in Live' \ {e} : Owner(f)' = Owner(f) /\ f \in Live
        BY <1>7
      <3>3. \A f, g \in Live : Owner(f) = Owner(g) /\ Owner(f) # NullEvent => f = g
        BY DEF MutexInv, OwnsOne
      <3>4. e \in Live' /\ Owner(e)' # NullEvent => Owner(e)' \in W
        BY <1>9
      <3> QED BY <3>1, <3>2, <3>3, <3>4
    <2>2. \A t \in Tcb : at'[t] = "pend" \/ OSTCBEventPtr'[t] # NullEvent => Owned(t)' = {}
      <3> SUFFICES ASSUME NEW t \in Tcb, at'[t] = "pend" \/ OSTCBEventPtr'[t] # NullEvent
                   PROVE  Owned(t)' = {}
        OBVIOUS
      <3>1. t \notin W
        BY <1>1, <1>4, <1>5, <1>6 DEF Pending
      <3>2. at[t] = "pend" \/ OSTCBEventPtr[t] # NullEvent
        BY <1>1, <1>4, <1>5, <3>1
      <3> QED BY <1>10, <3>1, <3>2 DEF MutexInv, OwnsOne
    <2>3. \A t \in Tcb : at'[t] = "accept" => Owned(t)' \subseteq {loc'[t].ev}
      <3> SUFFICES ASSUME NEW t \in Tcb, at'[t] = "accept" PROVE Owned(t)' \subseteq {loc'[t].ev}
        OBVIOUS
      <3>1. at[t] = "accept" /\ loc'[t] = loc[t]
        BY <1>1, <1>5
      <3>2. t \notin W
        BY <1>6, <3>1 DEF Pending
      <3> QED BY <1>10, <3>1, <3>2 DEF MutexInv, OwnsOne
    <2> QED BY <2>1, <2>2, <2>3 DEF OwnsOne
  <1>15. PipsApart'
    <2>1. \A f \in Live' : f # e => Pip(f) \in Prio \ {a}
      <3>1. \A f \in Live : Pip(f) \in Prio
        BY MutexConstants DEF MutexInv, BytesExact, UserPrio
      <3> QED BY <1>7, <3>1 DEF MutexInv, PipsApart
    <2>2. \A f \in Live' : \/ OSTCBPrioTbl'[Pip(f)] = Reserved
                           \/ Owner(f)' # NullEvent /\ OSTCBPrioTbl'[Pip(f)] = Owner(f)'
      <3> SUFFICES ASSUME NEW f \in Live'
                   PROVE  \/ OSTCBPrioTbl'[Pip(f)] = Reserved
                          \/ Owner(f)' # NullEvent /\ OSTCBPrioTbl'[Pip(f)] = Owner(f)'
        OBVIOUS
      <3>1. CASE f # e
        BY <1>3, <1>7, <2>1, <3>1 DEF MutexInv, PipsApart
      <3>2. CASE f = e
        BY <1>3, <1>8, <3>2
      <3> QED BY <3>1, <3>2
    <2>3. \A f, g \in Live' : Pip(f)' = Pip(g)' => f = g
      BY <1>7 DEF MutexInv, PipsApart
    <2>4. ASSUME NEW t \in Tcb, at'[t] = "create"
          PROVE  /\ loc'[t].prio \in Pips /\ OSTCBPrioTbl'[loc'[t].prio] = Reserved
                 /\ \A f \in Live' : Pip(f)' # loc'[t].prio
                 /\ \A v \in Tcb \ {t} : at'[v] = "create" => loc'[v].prio # loc'[t].prio
      <3>1. \A v \in Tcb : at'[v] = "create" => at[v] = "create" /\ loc'[v] = loc[v]
        BY <1>1, <1>5
      <3>2. /\ loc[t].prio \in Pips /\ loc[t].prio # a /\ OSTCBPrioTbl[loc[t].prio] = Reserved
            /\ \A f \in Live : Pip(f) # loc[t].prio
            /\ \A v \in Tcb \ {t} : at[v] = "create" => loc[v].prio # loc[t].prio
        BY <2>4, <3>1 DEF MutexInv, PipsApart
      <3>3. loc[t].prio \in Prio
        BY <3>2, MutexConstants DEF UserPrio
      <3> QED BY <1>3, <1>7, <2>4, <3>1, <3>2, <3>3
    <2> QED BY <1>7, <2>2, <2>3, <2>4 DEF PipsApart
  <1>16. NoInversion'
    <2> SUFFICES ASSUME NEW f \in Live', Owner(f)' # NullEvent, NEW q \in OSEventTbl'[f]
                 PROVE  OSTCBPrio'[Owner(f)'] < q
      BY DEF NoInversion
    <2>1. CASE f # e
      <3> PICK w : w = Owner(f)
        OBVIOUS
      <3>1. w = Owner(f)' /\ w \in OSTCBList /\ q \in OSEventTbl[f] /\ f \in Live /\ ~(low /\ w = o)
        BY <1>5, <1>7, <2>1, OwnerIs, MutexAssumption
      <3>2. OSTCBPrio[w] < q
        BY <1>7, <2>1, <3>1 DEF MutexInv, NoInversion
      <3>3. OSTCBPrio'[w] = OSTCBPrio[w]
        BY <1>3, <3>1
      <3> QED BY <3>1, <3>2, <3>3
    <2>2. CASE f = e
      BY <1>3, <1>5, <1>6, <1>9, <2>2
    <2> QED BY <2>1, <2>2
  <1>17. PriorityGivenBack'
    <2>1. DOMAIN InitPrio \subseteq OSTCBList /\ OSTCBList \subseteq Tcb
      BY MutexFacts
    <2>2. ASSUME NEW t \in DOMAIN InitPrio
          PROVE  \/ OSTCBPrio'[t] = InitPrio[t]
                 \/ \E f \in Owned(t)' : OSTCBPrio'[t] = Pip(f)' /\ MPrio(f)' = InitPrio[t]
      <3>1. CASE OSTCBPrio'[t] # InitPrio[t]
        <4>1. OSTCBPrio'[t] = OSTCBPrio[t] /\ t \in Tcb /\ ~(low /\ t = o)
          BY <1>3, <2>1, <3>1
        <4>2. PICK f \in Owned(t) : OSTCBPrio[t] = Pip(f) /\ MPrio(f) = InitPrio[t]
          BY <3>1, <4>1 DEF MutexInv, PriorityGivenBack
        <4>3. t # o
          <5> SUFFICES ASSUME t = o PROVE FALSE
            OBVIOUS
          <5>1. o # NullEvent
            BY <4>1, MutexAssumption
          <5>2. f = e
            BY <5>1, <4>2, OwnerIs DEF Owned, Live
          <5> QED BY <4>1, <4>2, <5>1, <5>2 DEF Lowering
        <4>4. f \in Owned(t)' /\ f # e /\ f \in Live /\ f \in Live'
          <5>1. f # e /\ f \in Live
            BY <4>3 DEF Owned, Live
          <5> QED BY <1>7, <1>10, <4>1, <4>3, <5>1
        <4> QED BY <1>7, <4>1, <4>2, <4>4
      <3> QED BY <3>1
    <2>3. ASSUME NEW q \in Prio, NEW t \in DOMAIN InitPrio
          PROVE  OSTCBPrioTbl'[q] = t <=> q \in {InitPrio[t], OSTCBPrio'[t]}
      <3>1. /\ OSTCBPrioTbl[q] = t <=> q \in {InitPrio[t], OSTCBPrio[t]}
            /\ t # Reserved /\ t # NullTcb
        BY MutexConstants DEF MutexInv, PriorityGivenBack
      <3>2. CASE q = a
        BY <1>1, <1>3, <2>1, <3>1, <3>2
      <3>3. CASE q # a
        BY <1>2, <1>3, <2>1, <3>1, <3>3
      <3> QED BY <3>2, <3>3
    <2> QED BY <2>2, <2>3 DEF PriorityGivenBack
  <1>18. SwitchedRight'
    <2>1. CASE OSPrioCur = OSTCBPrio'[me]
      BY <1>1, <2>1 DEF SwitchedRight
    <2>2. CASE l = "sched"
      BY <1>1, <2>2 DEF SwitchedRight
    <2>3. CASE OSPrioCur # OSTCBPrio'[me] /\ l = "app"
      <3>1. e \in Live' => u = NullEvent
        BY <1>9, <2>3
      <3>2. \A f \in Live \ {e} : Pip(f) = OSPrioCur => Owner(f) \in {NullEvent, me}
        <4>1. CASE OSPrioCur = OSTCBPrio[me]
          <5>1. low /\ OSPrioCur = a
            BY <1>2, <1>3, <2>3, <4>1, LowerIs, MutexFacts, RunnerAt DEF Lowering, Points
          <5> QED BY <5>1 DEF MutexInv, PipsApart
        <4>2. CASE OSPrioCur # OSTCBPrio[me]
          BY <1>1, <4>2 DEF MutexInv, SwitchedRight
        <4> QED BY <4>1, <4>2
      <3> QED BY <1>1, <1>7, <3>1, <3>2 DEF SwitchedRight
    <2> QED BY <2>1, <2>2, <2>3
  <1>19. ~Pending(me)
    BY <1>1 DEF Pending
  <1> QED BY <1>4, <1>10, <1>11, <1>12, <1>13, <1>14, <1>15, <1>16, <1>17, <1>18, <1>19 DEF W
---------------------------------------------------------------------------
\* OSMutexPost.

\* The owner that posts.
LEMMA PosterIs ==
  ASSUME MutexInv, MutexSafeUse, NEW e \in Event, NEW me, me = OSTCBCur, OSIntNesting = 0,
         at[me] = "post", loc[me].ev = e, Owner(e) = me
  PROVE  /\ e \in Live /\ me \in Tcb /\ me # NullEvent /\ me \in DOMAIN InitPrio /\ me \in OSTCBList
         /\ MPrio(e) = InitPrio[me] /\ InitPrio[me] \in Prio /\ Pip(e) \in Prio /\ Pip(e) # InitPrio[me]
         /\ InitPrio[me] \in 0 .. 255 /\ OSTCBPrio[me] \in OSRdyTbl
         /\ OSTCBPrioTbl[InitPrio[me]] = me /\ Owned(me) = {e} /\ OSTCBEventPtr[me] = NullEvent
  <1>1. me \in Tcb /\ me # NullEvent
    BY MutexFacts, MutexAssumption
  <1>2. e \in Live
    BY <1>1 DEF MutexInv, InsideLive
  <1>3. OSTCBPrio[me] \in OSRdyTbl
    BY MutexFacts DEF EventInv, WaitsExact, RunnerReady, Settled
  <1>4. /\ me \in DOMAIN InitPrio /\ me \in OSTCBList /\ MPrio(e) = InitPrio[me] /\ Owned(me) = {e}
        /\ OSTCBEventPtr[me] = NullEvent /\ Pip(e) \in Pips
    BY <1>1, <1>2, OwnerIs
  <1>5. /\ InitPrio[me] \in Prio /\ Pip(e) \in Prio /\ Pip(e) < InitPrio[me] /\ InitPrio[me] <= 254
        /\ InitPrio[me] \in Nat /\ Pip(e) \in Nat
    BY <1>4, MutexConstants DEF UserPrio
  <1>6. OSTCBPrioTbl[InitPrio[me]] = me
    BY <1>4, <1>5 DEF MutexInv, PriorityGivenBack
  <1> QED BY <1>1, <1>2, <1>3, <1>4, <1>5, <1>6

\* What it does to the tables, whether or not somebody waits.
PostTables(e, me, low) ==
  /\ OSIntNesting = 0 /\ at[me] = "post" /\ loc[me].ev = e /\ Owner(e) = me
  /\ low \in BOOLEAN /\ (low <=> OSTCBPrio[me] = Pip(e))
  /\ OSTCBPrio' = [t \in Tcb |-> IF low /\ t = me THEN InitPrio[t] ELSE OSTCBPrio[t]]
  /\ OSTCBPrioTbl' = [OSTCBPrioTbl EXCEPT ![Pip(e)] = Reserved]
  /\ (IF Lowers(e) THEN RdyAtPrio(OSTCBCur, MPrio(e)) ELSE OSRdyTbl)
       = (IF low THEN (OSRdyTbl \ {Pip(e)}) \cup {InitPrio[me]} ELSE OSRdyTbl)
  /\ holds' = [holds EXCEPT ![me] = NullEvent]
  /\ UNCHANGED <<OSLockNesting, OSTCBList, OSTCBFreeList, cpuVars, OSEventType,
                 OSEventFreeList, voided>>
LEMMA PostLowers ==
  ASSUME MutexInv, MutexSafeUse, NEW e \in Event, NEW me, me = OSTCBCur, OSMutexPost(e),
         NEW low, low = Lowers(e)
  PROVE  PostTables(e, me, low)
  <1>1. /\ OSIntNesting = 0 /\ at[me] = "post" /\ loc[me].ev = e /\ Owner(e) = me
        /\ OSTCBPrio' = [OSTCBPrio EXCEPT ![me] = IF low THEN MPrio(e) ELSE @]
        /\ OSTCBPrioTbl' = [OSTCBPrioTbl EXCEPT ![Pip(e)] = Reserved, ![MPrio(e)] = IF low THEN me ELSE @]
        /\ holds' = [holds EXCEPT ![me] = NullEvent]
        /\ UNCHANGED <<OSLockNesting, OSTCBList, OSTCBFreeList, cpuVars, OSEventType,
                       OSEventFreeList, voided>>
    BY DEF OSMutexPost, InTask
  <1>2. low \in BOOLEAN /\ (low <=> OSTCBPrio[me] = Pip(e))
    BY DEF Lowers
  <1>3. OSTCBPrio \in [Tcb -> Prio] /\ OSTCBPrioTbl \in [Prio -> Tcb \cup {NullTcb, Reserved}]
    BY MutexFacts DEF CoreInv, KernelTypeOK
  <1>4. /\ me \in Tcb /\ MPrio(e) = InitPrio[me] /\ InitPrio[me] \in Prio /\ Pip(e) \in Prio
        /\ Pip(e) # InitPrio[me] /\ OSTCBPrioTbl[InitPrio[me]] = me
    BY <1>1, PosterIs
  <1>5. OSTCBPrio' = [t \in Tcb |-> IF low /\ t = me THEN InitPrio[t] ELSE OSTCBPrio[t]]
    BY <1>1, <1>2, <1>3, <1>4
  <1>6. OSTCBPrioTbl' = [OSTCBPrioTbl EXCEPT ![Pip(e)] = Reserved]
    BY <1>1, <1>2, <1>3, <1>4
  <1>7. (IF Lowers(e) THEN RdyAtPrio(OSTCBCur, MPrio(e)) ELSE OSRdyTbl)
          = (IF low THEN (OSRdyTbl \ {Pip(e)}) \cup {InitPrio[me]} ELSE OSRdyTbl)
    BY <1>2, <1>4 DEF RdyAtPrio
  <1> QED BY <1>1, <1>2, <1>5, <1>6, <1>7 DEF PostTables

\* The block after a post: the pip stays, the lower byte is b and the owner u.
Given(e, b, u) ==
  /\ OSEventCnt' = [OSEventCnt EXCEPT ![e] = Pip(e) * 256 + b]
  /\ OSEventPtr' = [OSEventPtr EXCEPT ![e] = u]
  /\ UNCHANGED OSEventType
Block(e, b, u) ==
  /\ Live' = Live /\ (\A f \in Live : Pip(f)' = Pip(f))
  /\ \A f \in Live \ {e} : Owner(f)' = Owner(f) /\ MPrio(f)' = MPrio(f)
  /\ Owner(e)' = u /\ MPrio(e)' = b
  /\ OSEventCnt' \in [Event -> Nat]
  /\ OSEventPtr' \in [Event -> Tcb \cup Event \cup {NullEvent}]
LEMMA BlockIs ==
  ASSUME MutexInv, MutexSafeUse, NEW e \in Live, NEW b \in 0 .. 255, NEW u \in Tcb \cup {NullEvent},
         Given(e, b, u)
  PROVE  Block(e, b, u)
  <1> USE DEF Given
  <1>1. /\ Live' = Live /\ e \in Event /\ Live \subseteq Event
        /\ OSEventCnt \in [Event -> Nat] /\ OSEventPtr \in [Event -> Tcb \cup Event \cup {NullEvent}]
    BY TypesAre DEF Live
  <1>2. Pip(e) \in Nat
    BY MutexConstants DEF MutexInv, BytesExact, UserPrio
  <1> PICK a \in Nat : a = Pip(e)
    BY <1>2
  <1>3. OSEventCnt' = [OSEventCnt EXCEPT ![e] = Word(a, b)]
    BY DEF Word
  <1>4. Word(a, b) \in Nat /\ Upper(Word(a, b)) = a /\ Lower(Word(a, b)) = b
    BY BytesOf
  <1>5. Word(a, b) \div 256 = a
    BY <1>4 DEF Upper
  <1>6. Word(a, b) % 256 = b
    BY <1>4 DEF Lower
  <1>7. /\ OSEventCnt' \in [Event -> Nat]
        /\ OSEventCnt'[e] \div 256 = Pip(e) /\ OSEventCnt'[e] % 256 = b
        /\ \A f \in Event \ {e} : OSEventCnt'[f] = OSEventCnt[f]
    BY <1>1, <1>3, <1>4, <1>5, <1>6
  <1>8. /\ OSEventPtr' \in [Event -> Tcb \cup Event \cup {NullEvent}]
        /\ OSEventPtr'[e] = u /\ \A f \in Event \ {e} : OSEventPtr'[f] = OSEventPtr[f]
    BY <1>1
  <1>9. Pip(e)' = Pip(e) /\ MPrio(e)' = b /\ Owner(e)' = u
    BY <1>7, <1>8 DEF Pip, MPrio, Owner
  <1>10. \A f \in Live \ {e} : Pip(f)' = Pip(f) /\ MPrio(f)' = MPrio(f) /\ Owner(f)' = Owner(f)
    BY <1>1, <1>7, <1>8 DEF Pip, MPrio, Owner
  <1>11. \A f \in Live : Pip(f)' = Pip(f)
    BY <1>9, <1>10
  <1> QED BY <1>1, <1>7, <1>8, <1>9, <1>10, <1>11 DEF Block

\* Nobody waits: the mutex is to be had.
LEMMA PostFree ==
  ASSUME MutexInv, MutexSafeUse, NEW e \in Event, NEW me, me = OSTCBCur, OSMutexPost(e),
         OSEventTbl[e] = {}, NEW low, low = Lowers(e)
  PROVE  /\ Lowering(e, me, low, Reserved, {}, "app") /\ Passes(e, Reserved, {})
         /\ Owner(e)' = NullEvent /\ lowered' = (lowered \/ low) /\ Live' = Live
         /\ OSEventCnt' \in [Event -> Nat]
         /\ OSEventPtr' \in [Event -> Tcb \cup Event \cup {NullEvent}]
         /\ \A f \in Event \ {e} : OSEventPtr'[f] = OSEventPtr[f]
  <1>1. /\ OSIntNesting = 0 /\ at[me] = "post" /\ loc[me].ev = e /\ Owner(e) = me
        /\ low \in BOOLEAN /\ (low <=> OSTCBPrio[me] = Pip(e))
        /\ OSTCBPrio' = [t \in Tcb |-> IF low /\ t = me THEN InitPrio[t] ELSE OSTCBPrio[t]]
        /\ OSTCBPrioTbl' = [OSTCBPrioTbl EXCEPT ![Pip(e)] = Reserved]
        /\ (IF Lowers(e) THEN RdyAtPrio(OSTCBCur, MPrio(e)) ELSE OSRdyTbl)
             = (IF low THEN (OSRdyTbl \ {Pip(e)}) \cup {InitPrio[me]} ELSE OSRdyTbl)
        /\ UNCHANGED <<OSLockNesting, OSTCBList, OSTCBFreeList, cpuVars, OSEventType>>
    BY PostLowers DEF PostTables
  <1>2. /\ OSEventCnt' = [OSEventCnt EXCEPT ![e] = Pip(e) * 256 + OS_MUTEX_AVAILABLE]
        /\ OSEventPtr' = [OSEventPtr EXCEPT ![e] = NullEvent]
        /\ OSRdyTbl' = (IF Lowers(e) THEN RdyAtPrio(OSTCBCur, MPrio(e)) ELSE OSRdyTbl)
        /\ lowered' = (lowered \/ Lowers(e)) /\ Return("app")
        /\ UNCHANGED <<OSEventTbl, OSTCBStat, OSTCBDly, OSTCBPendTO, OSTCBEventPtr>>
    BY DEF OSMutexPost
  <1>3. /\ e \in Live /\ me # NullEvent /\ OSTCBPrio[me] \in OSRdyTbl
    BY <1>1, PosterIs
  <1>4. EventTaskRdy(IF low THEN (OSRdyTbl \ {Pip(e)}) \cup {InitPrio[me]} ELSE OSRdyTbl, e, {}, "MUTEX")
    <2> PICK R : R = IF low THEN (OSRdyTbl \ {Pip(e)}) \cup {InitPrio[me]} ELSE OSRdyTbl
      OBVIOUS
    <2>1. OSRdyTbl' = R
      BY <1>1, <1>2
    <2>2. /\ OSEventTbl \in [Event -> SUBSET Prio] /\ OSTCBStat \in [Tcb -> SUBSET Stat]
          /\ OSTCBDly \in [Tcb -> Ticks] /\ OSTCBPendTO \in [Tcb -> BOOLEAN]
          /\ OSTCBEventPtr \in [Tcb -> Event \cup {NullEvent}]
      BY MutexFacts DEF CoreInv, KernelTypeOK
    <2>3. EventTaskRdy(R, e, {}, "MUTEX")
      BY <1>2, <2>1, <2>2 DEF EventTaskRdy
    <2> QED BY <2>3
  <1>5. Lowering(e, me, low, Reserved, {}, "app")
    BY <1>1, <1>2, <1>3, <1>4 DEF Lowering
  <1>6. /\ Live' = Live /\ (\A f \in Live : Pip(f)' = Pip(f))
        /\ \A f \in Live \ {e} : Owner(f)' = Owner(f) /\ MPrio(f)' = MPrio(f)
        /\ Owner(e)' = NullEvent /\ MPrio(e)' = OS_MUTEX_AVAILABLE
        /\ OSEventCnt' \in [Event -> Nat]
        /\ OSEventPtr' \in [Event -> Tcb \cup Event \cup {NullEvent}]
    <2> PICK b \in 0 .. 255 : b = OS_MUTEX_AVAILABLE
      BY DEF OS_MUTEX_AVAILABLE
    <2> PICK u \in Tcb \cup {NullEvent} : u = NullEvent
      OBVIOUS
    <2>1. Given(e, b, u)
      BY <1>1, <1>2 DEF Given
    <2> HIDE DEF OS_MUTEX_AVAILABLE
    <2>2. Block(e, b, u)
      BY <1>3, <2>1, BlockIs
    <2> QED BY <2>2 DEF Block
  <1>7. Passes(e, Reserved, {})
    BY <1>3, <1>6 DEF Passes
  <1> QED BY <1>2, <1>5, <1>6, <1>7, TypesAre

\* Somebody waits: the first of those who do gets it.
LEMMA PostGives ==
  ASSUME MutexInv, MutexSafeUse, NEW e \in Event, NEW me, me = OSTCBCur, OSMutexPost(e),
         OSEventTbl[e] # {}, NEW low, low = Lowers(e)
  PROVE  \E p \in OSEventTbl[e] :
           /\ Lowering(e, me, low, Reserved, {p}, "sched") /\ Passes(e, Reserved, {p})
           /\ Owner(e)' = OSTCBPrioTbl[p] /\ lowered' = lowered /\ Live' = Live
           /\ OSEventCnt' \in [Event -> Nat]
           /\ OSEventPtr' \in [Event -> Tcb \cup Event \cup {NullEvent}]
           /\ \A f \in Event \ {e} : OSEventPtr'[f] = OSEventPtr[f]
  <1>0. PostTables(e, me, low)
    BY PostLowers
  <1>1. /\ OSIntNesting = 0 /\ at[me] = "post" /\ loc[me].ev = e /\ Owner(e) = me
        /\ low \in BOOLEAN /\ (low <=> OSTCBPrio[me] = Pip(e))
        /\ OSTCBPrio' = [t \in Tcb |-> IF low /\ t = me THEN InitPrio[t] ELSE OSTCBPrio[t]]
        /\ OSTCBPrioTbl' = [OSTCBPrioTbl EXCEPT ![Pip(e)] = Reserved]
        /\ (IF Lowers(e) THEN RdyAtPrio(OSTCBCur, MPrio(e)) ELSE OSRdyTbl)
             = (IF low THEN (OSRdyTbl \ {Pip(e)}) \cup {InitPrio[me]} ELSE OSRdyTbl)
        /\ UNCHANGED <<OSLockNesting, OSTCBList, OSTCBFreeList, cpuVars, OSEventType>>
    BY <1>0, Zenon DEF PostTables
  <1> PICK R : R = IF low THEN (OSRdyTbl \ {Pip(e)}) \cup {InitPrio[me]} ELSE OSRdyTbl
    OBVIOUS
  <1>2. PICK p \in OSEventTbl[e] : /\ HighestIn(p, OSEventTbl[e]) /\ EventTaskRdy(R, e, {p}, "MUTEX")
                                   /\ Own(e, OSTCBPrioTbl[p])
    BY <1>1 DEF OSMutexPost, HeirOf
  <1>3. Return("sched") /\ UNCHANGED lowered
    BY DEF OSMutexPost
  <1>4. /\ e \in Live /\ me # NullEvent /\ OSTCBPrio[me] \in OSRdyTbl
    BY <1>1, PosterIs
  <1>5. /\ OSTCBPrioTbl[p] \in Tcb /\ OSTCBPrio[OSTCBPrioTbl[p]] = p
        /\ OSTCBPrioTbl[p] \in DOMAIN InitPrio /\ InitPrio[OSTCBPrioTbl[p]] = p
    BY WaiterOwnsNone
  <1>6. p \in 0 .. 255
    <2>1. InitPrio[OSTCBPrioTbl[p]] \in Nat /\ InitPrio[OSTCBPrioTbl[p]] <= 254
      BY <1>5, MutexConstants DEF UserPrio
    <2> QED BY <1>5, <2>1
  <1>7. Lowering(e, me, low, Reserved, {p}, "sched")
    BY <1>1, <1>2, <1>3, <1>4 DEF Lowering
  <1>8. /\ Live' = Live /\ (\A f \in Live : Pip(f)' = Pip(f))
        /\ (\A f \in Live \ {e} : Owner(f)' = Owner(f) /\ MPrio(f)' = MPrio(f))
        /\ Owner(e)' = OSTCBPrioTbl[p] /\ MPrio(e)' = p
        /\ OSEventCnt' \in [Event -> Nat]
        /\ OSEventPtr' \in [Event -> Tcb \cup Event \cup {NullEvent}]
        /\ \A f \in Event \ {e} : OSEventPtr'[f] = OSEventPtr[f]
    <2> PICK b \in 0 .. 255 : b = p
      BY <1>6
    <2> PICK u \in Tcb \cup {NullEvent} : u = OSTCBPrioTbl[p]
      BY <1>5
    <2>1. Given(e, b, u)
      BY <1>1, <1>2, <1>5 DEF Own, Given
    <2>2. Block(e, b, u)
      BY <1>4, <2>1, BlockIs
    <2>3. \A f \in Event \ {e} : OSEventPtr'[f] = OSEventPtr[f]
      BY <2>1, TypesAre DEF Given
    <2> QED BY <2>2, <2>3 DEF Block
  <1>9. Passes(e, Reserved, {p})
    BY <1>2, <1>4, <1>8 DEF Passes
  <1> QED BY <1>3, <1>7, <1>8, <1>9

\* What a post and a deletion must see to themselves, as they tell the tasks different
\* things; the rest of the invariant they keep alike.
SeesTo(low, l) ==
  /\ FreeListSound' /\ HoldsExact'
  /\ \A f \in Event : OSEventType'[f] # OSEventType[f] =>
       OSEventTbl'[f] = {} /\ \A t \in Tcb : Making(t)' => loc'[t].ev # f
  /\ lowered' \in BOOLEAN /\ (lowered => lowered') /\ (low /\ l = "app" => lowered')
  /\ OSEventType' \in [Event -> {"MUTEX", "UNUSED"}] /\ OSEventCnt' \in [Event -> Nat]
  /\ OSEventPtr' \in [Event -> Tcb \cup Event \cup {NullEvent}]
  /\ OSEventFreeList' \in Event \cup {NullEvent}
  /\ holds' \in [Tcb -> Event \cup {NullEvent}] /\ voided' \subseteq Tcb
LEMMA LowerDone ==
  ASSUME MutexInv, MutexSafeUse, NEW e \in Live, NEW o, o = Owner(e), NEW low \in BOOLEAN,
         NEW x \in {Reserved, NullTcb}, NEW P, NEW l \in {"app", "sched"}, Lowering(e, o, low, x, P, l),
         Passes(e, x, P), SeesTo(low, l)
  PROVE  MutexInv'
  <1> USE DEF SeesTo
  <1>1. EventInv' /\ (l = "sched" \/ (RunsHighest /\ ~low) => RunsHighest')
    BY LowerKeeps
  <1>2. /\ TasksFixed' /\ InsideLive' /\ BytesExact' /\ AvailableUnawaited' /\ OwnsOne'
        /\ PipsApart' /\ NoInversion' /\ PriorityGivenBack' /\ SwitchedRight'
    BY LowerParts
  <1>3. OutrankedOnlyAfterPost'
    <2>1. lowered \/ RunsHighest
      BY OutrankedIs DEF MutexInv
    <2> QED BY <1>1, <2>1, OutrankedIsNext
  <1> QED BY <1>1, <1>2, <1>3, MutexInvNext

LEMMA PostTells ==
  ASSUME MutexInv, MutexSafeUse, NEW e \in Event, NEW me, me = OSTCBCur, OSMutexPost(e),
         NEW low \in BOOLEAN, low = Lowers(e), NEW P, NEW l \in {"app", "sched"},
         Lowering(e, me, low, Reserved, P, l), Passes(e, Reserved, P), Live' = Live
  PROVE  HoldsExact' /\ holds' \in [Tcb -> Event \cup {NullEvent}]
  <1>1. /\ at[me] = "post" /\ Owner(e) = me /\ holds' = [holds EXCEPT ![me] = NullEvent]
        /\ UNCHANGED voided /\ OSIntNesting = 0 /\ loc[me].ev = e
    BY DEF OSMutexPost, InTask
  <1>2. e \in Live /\ me \in Tcb /\ me # NullEvent /\ Owned(me) = {e} /\ Live \subseteq Event
    BY <1>1, PosterIs DEF Live
  <1>3. /\ holds'[me] = NullEvent /\ \A t \in Tcb \ {me} : holds'[t] = holds[t]
        /\ holds' \in [Tcb -> Event \cup {NullEvent}]
    BY <1>1, <1>2, TypesAre
  <1>4. /\ \A t \in Tcb \ Served(P) : Owned(t)' \subseteq Owned(t)
        /\ \A t \in Tcb : /\ Pending(t)' <=> Pending(t)
                          /\ Pending(t) => loc'[t] = loc[t]
        /\ \A t \in Tcb : OSTCBEventPtr'[t] = IF t \in Served(P) THEN NullEvent ELSE OSTCBEventPtr[t]
        /\ ~Pending(me)
    BY <1>1, <1>2, LowerParts
  <1>5. /\ \A t \in Served(P) : t \in Tcb /\ OSTCBEventPtr[t] = e /\ Pending(t) /\ loc[t].ev = e
    <2>1. P \subseteq OSEventTbl[e]
      BY DEF Lowering
    <2> QED BY <2>1, ServedAre
  <1>6. \A f \in Live \ {e} : OSEventPtr'[f] = OSEventPtr[f] /\ OSEventPtr[f] # me
    <2>1. \A f \in Live : OSEventPtr[f] = me => f \in Owned(me)
      BY DEF Owned, Live, Owner
    <2> QED BY <1>2, <2>1 DEF Passes, Owner
  <1> PICK u : u = Owner(e)'
    OBVIOUS
  <1>7. u # NullEvent => u \in Served(P)
    BY <1>1, <1>2, HeirIs
  <1>8. \A t \in Served(P) : t = u
    <2>1. \A t \in Served(P) : \E p \in P : t = OSTCBPrioTbl[p]
      BY DEF Served
    <2>2. P \subseteq OSEventTbl[e]
      BY DEF Lowering
    <2> QED BY <1>2, <2>1, <2>2 DEF Passes
  <1>9. \A t \in Tcb : holds'[t] # NullEvent => holds'[t] \in Live /\ OSEventPtr'[holds'[t]] = t
    <2>1. \A t \in Tcb : holds[t] # NullEvent => holds[t] \in Live /\ OSEventPtr[holds[t]] = t
      BY DEF MutexInv, HoldsExact, Owner
    <2> QED BY <1>1, <1>3, <1>6, <2>1 DEF Owner
  <1>10. ASSUME NEW f \in Live, NEW w, w = OSEventPtr'[f], w # NullEvent
         PROVE  holds'[w] = f \/ (Pending(w)' /\ loc'[w].ev = f)
    <2>1. CASE f = e
      BY <1>4, <1>5, <1>7, <1>10, <2>1 DEF Owner
    <2>2. CASE f # e
      <3>1. w = Owner(f) /\ w # me
        BY <1>6, <1>10, <2>2 DEF Owner
      <3>2. w \in Tcb
        BY <1>10, <3>1, OwnerIs
      <3>3. holds[w] = f \/ (Pending(w) /\ loc[w].ev = f)
        BY <1>10, <3>1 DEF MutexInv, HoldsExact
      <3> QED BY <1>3, <1>4, <3>1, <3>2, <3>3
    <2> QED BY <2>1, <2>2
  <1>11. ASSUME NEW t \in Tcb, Pending(t)', OSTCBEventPtr'[t] = NullEvent, t \notin voided
         PROVE  loc'[t].ev \in Live /\ OSEventPtr'[loc'[t].ev] = t
    <2>1. Pending(t) /\ loc'[t] = loc[t] /\ t # me
      BY <1>4, <1>11
    <2>2. CASE t \in Served(P)
      BY <1>2, <1>5, <1>8, <2>1, <2>2 DEF Owner
    <2>3. CASE t \notin Served(P)
      <3>1. loc[t].ev \in Live /\ OSEventPtr[loc[t].ev] = t
        BY <1>4, <1>11, <2>1, <2>3 DEF MutexInv, HoldsExact, Owner
      <3>2. loc[t].ev # e
        BY <1>1, <2>1, <3>1 DEF Owner
      <3> QED BY <1>6, <2>1, <3>1, <3>2
    <2> QED BY <2>2, <2>3
  <1>12. \A t \in voided : Pending(t)' /\ OSTCBEventPtr'[t] = NullEvent /\ Owned(t)' = {}
    <2>1. \A t \in voided : t \in Tcb /\ Pending(t) /\ OSTCBEventPtr[t] = NullEvent /\ Owned(t) = {}
      BY TypesAre DEF MutexInv, HoldsExact
    <2>2. \A t \in voided : t \notin Served(P)
      BY <1>2, <1>5, <2>1, CoreAssumption
    <2> QED BY <1>4, <2>1, <2>2
  <1> QED BY <1>1, <1>3, <1>9, <1>10, <1>11, <1>12 DEF HoldsExact, Owner

LEMMA PostRest ==
  ASSUME MutexInv, MutexSafeUse, NEW e \in Event, NEW me, me = OSTCBCur, OSMutexPost(e),
         NEW low \in BOOLEAN, low = Lowers(e), NEW P, NEW l \in {"app", "sched"},
         Lowering(e, me, low, Reserved, P, l), Passes(e, Reserved, P), Live' = Live,
         OSEventCnt' \in [Event -> Nat],
         OSEventPtr' \in [Event -> Tcb \cup Event \cup {NullEvent}],
         \A f \in Event \ {e} : OSEventPtr'[f] = OSEventPtr[f],
         lowered' = (lowered \/ (low /\ l = "app"))
  PROVE  MutexInv'
  <1>1. /\ UNCHANGED <<OSEventType, OSEventFreeList, voided>>
        /\ at[me] = "post" /\ Owner(e) = me /\ OSIntNesting = 0 /\ loc[me].ev = e
    BY DEF OSMutexPost, InTask
  <1>2. e \in Live
    BY <1>1, PosterIs
  <1>3. Moves({"post", "del", "delalways"}, l)
    BY <1>1, <1>2, LowerIs DEF LowerEffect
  <1>4. FreeListSound'
    <2>1. \A t \in Tcb : (Making(t)' <=> Making(t)) /\ (Making(t) => loc'[t].ev = loc[t].ev)
      BY <1>3 DEF Making, Moves
    <2>2. Taken' = Taken
      BY <2>1, TakenSame
    <2>3. Untaken' = Untaken /\ e \notin Untaken
      BY <1>1, <1>2, <2>2 DEF Untaken, Live
    <2>4. \A f \in Untaken : OSEventPtr'[f] = OSEventPtr[f]
      BY <2>3 DEF Untaken
    <2> QED BY <1>1, <2>3, <2>4, FreeListStays DEF MutexInv
  <1>5. HoldsExact' /\ holds' \in [Tcb -> Event \cup {NullEvent}]
    BY PostTells
  <1>6. /\ OSEventType' \in [Event -> {"MUTEX", "UNUSED"}] /\ OSEventFreeList' \in Event \cup {NullEvent}
        /\ voided' \subseteq Tcb /\ lowered' \in BOOLEAN
    BY <1>1, TypesAre
  <1>7. \A f \in Event : OSEventType'[f] # OSEventType[f] =>
          OSEventTbl'[f] = {} /\ \A t \in Tcb : Making(t)' => loc'[t].ev # f
    BY <1>1
  <1>8. (lowered => lowered') /\ (low /\ l = "app" => lowered') /\ me = Owner(e)
    BY <1>1
  <1>9. SeesTo(low, l)
    BY <1>4, <1>5, <1>6, <1>7, <1>8 DEF SeesTo
  <1> QED BY <1>2, <1>8, <1>9, LowerDone

LEMMA PostMutex == ASSUME MutexInv, MutexSafeUse, NEW e \in Event, OSMutexPost(e) PROVE MutexInv'
  <1> PICK me : me = OSTCBCur
    OBVIOUS
  <1> PICK low \in BOOLEAN : low = Lowers(e)
    BY DEF Lowers
  <1>1. CASE OSEventTbl[e] = {}
    <2>1. /\ Lowering(e, me, low, Reserved, {}, "app") /\ Passes(e, Reserved, {})
          /\ Owner(e)' = NullEvent /\ lowered' = (lowered \/ low) /\ Live' = Live
          /\ OSEventCnt' \in [Event -> Nat]
          /\ OSEventPtr' \in [Event -> Tcb \cup Event \cup {NullEvent}]
          /\ \A f \in Event \ {e} : OSEventPtr'[f] = OSEventPtr[f]
      BY <1>1, PostFree
    <2> QED BY <2>1, PostRest
  <1>2. CASE OSEventTbl[e] # {}
    <2>1. PICK p \in OSEventTbl[e] :
            /\ Lowering(e, me, low, Reserved, {p}, "sched") /\ Passes(e, Reserved, {p})
            /\ Owner(e)' = OSTCBPrioTbl[p] /\ lowered' = lowered /\ Live' = Live
            /\ OSEventCnt' \in [Event -> Nat]
            /\ OSEventPtr' \in [Event -> Tcb \cup Event \cup {NullEvent}]
            /\ \A f \in Event \ {e} : OSEventPtr'[f] = OSEventPtr[f]
      BY <1>2, PostGives
    <2>2. lowered' = (lowered \/ (low /\ "sched" = "app"))
      BY <2>1, TypesAre
    <2> QED BY <2>1, <2>2, PostRest
  <1> QED BY <1>1, <1>2

---------------------------------------------------------------------------
\* The deletions.

\* What they have in common: the pip is free, everybody who waits is served, and the
\* block is gone.
Deletes(e, o, low, P, l) ==
  /\ Lowering(e, o, low, NullTcb, P, l) /\ P = OSEventTbl[e]
  /\ FreeEvent(e) /\ Void(e) /\ Apart(e)

LEMMA DeletePasses ==
  ASSUME MutexInv, NEW e \in Live, NEW o, NEW low, NEW P, NEW l, Deletes(e, o, low, P, l)
  PROVE  /\ Passes(e, NullTcb, P) /\ Live' = Live \ {e}
         /\ \A f \in Event \ {e} : OSEventPtr'[f] = OSEventPtr[f]
         /\ \A f \in Event \ {e} : OSEventType'[f] = OSEventType[f]
         /\ OSEventType' \in [Event -> {"MUTEX", "UNUSED"}] /\ OSEventCnt' \in [Event -> Nat]
         /\ OSEventPtr' \in [Event -> Tcb \cup Event \cup {NullEvent}]
         /\ OSEventFreeList' \in Event \cup {NullEvent}
         /\ holds' \in [Tcb -> Event \cup {NullEvent}] /\ voided' \subseteq Tcb
  <1>1. /\ OSEventType \in [Event -> {"MUTEX", "UNUSED"}] /\ OSEventCnt \in [Event -> Nat]
        /\ OSEventPtr \in [Event -> Tcb \cup Event \cup {NullEvent}]
        /\ OSEventFreeList \in Event \cup {NullEvent}
        /\ holds \in [Tcb -> Event \cup {NullEvent}] /\ voided \subseteq Tcb
        /\ e \in Event /\ Live \subseteq Event
    BY TypesAre DEF Live
  <1>2. /\ OSEventType' = [OSEventType EXCEPT ![e] = "UNUSED"]
        /\ OSEventCnt' = [OSEventCnt EXCEPT ![e] = 0]
        /\ OSEventPtr' = [OSEventPtr EXCEPT ![e] = OSEventFreeList]
        /\ OSEventFreeList' = e /\ Void(e) /\ Apart(e)
    BY DEF Deletes, FreeEvent
  <1>3. /\ \A f \in Event \ {e} : /\ OSEventPtr'[f] = OSEventPtr[f] /\ OSEventCnt'[f] = OSEventCnt[f]
                                  /\ OSEventType'[f] = OSEventType[f]
        /\ OSEventType' \in [Event -> {"MUTEX", "UNUSED"}] /\ OSEventCnt' \in [Event -> Nat]
        /\ OSEventPtr' \in [Event -> Tcb \cup Event \cup {NullEvent}]
        /\ OSEventFreeList' \in Event \cup {NullEvent}
    BY <1>1, <1>2
  <1>4. Live' = Live \ {e}
    BY <1>1, <1>2 DEF Live
  <1>5. holds' \in [Tcb -> Event \cup {NullEvent}] /\ voided' \subseteq Tcb
    BY <1>1, <1>2 DEF Void
  <1>6. Passes(e, NullTcb, P)
    BY <1>1, <1>2, <1>3, <1>4 DEF Passes, Owner, Pip, MPrio
  <1> QED BY <1>3, <1>4, <1>5, <1>6

LEMMA DeleteTells ==
  ASSUME MutexInv, MutexSafeUse, NEW e \in Live, NEW o, o = Owner(e), NEW low \in BOOLEAN, NEW P,
         NEW l \in {"app", "sched"}, Deletes(e, o, low, P, l)
  PROVE  HoldsExact'
  <1>1. /\ Lowering(e, o, low, NullTcb, P, l) /\ P = OSEventTbl[e] /\ e \in Event
        /\ holds' = [t \in Tcb |-> IF holds[t] = e THEN NullEvent ELSE holds[t]]
        /\ voided' = voided \cup {t \in Tcb : Pending(t) /\ loc[t].ev = e}
    BY DEF Deletes, Void, Pending, Live
  <1>2. /\ Passes(e, NullTcb, P) /\ Live' = Live \ {e} /\ Live \subseteq Event
        /\ \A f \in Event \ {e} : OSEventPtr'[f] = OSEventPtr[f]
    BY DeletePasses DEF Live
  <1>3. /\ \A t \in Tcb \ Served(P) : Owned(t)' \subseteq Owned(t)
        /\ \A t \in Tcb : /\ Pending(t)' <=> Pending(t)
                          /\ Pending(t) => loc'[t] = loc[t]
        /\ \A t \in Tcb : OSTCBEventPtr'[t] = IF t \in Served(P) THEN NullEvent ELSE OSTCBEventPtr[t]
    BY <1>1, <1>2, LowerParts
  <1>4. /\ \A t \in Served(P) : /\ t \in Tcb /\ OSTCBEventPtr[t] = e /\ Pending(t) /\ loc[t].ev = e
                                /\ Owned(t) = {}
        /\ \A t \in OSTCBList : t \in Served(P) <=> OSTCBPrio[t] \in P
    BY <1>1, ServedAre
  <1>5. \A t \in Tcb : \A f \in Owned(t)' : f \in Owned(t) /\ f # e
    BY <1>2 DEF Owned, Live, Owner
  <1>6. \A t \in Tcb : holds'[t] # NullEvent => holds'[t] \in Live' /\ OSEventPtr'[holds'[t]] = t
    BY <1>1, <1>2 DEF MutexInv, HoldsExact, Owner
  <1>7. ASSUME NEW f \in Live', NEW w, w = OSEventPtr'[f], w # NullEvent
        PROVE  holds'[w] = f \/ (Pending(w)' /\ loc'[w].ev = f)
    <2>1. f \in Live /\ f # e /\ w = Owner(f)
      BY <1>2, <1>7 DEF Owner
    <2>2. w \in Tcb
      BY <1>7, <2>1, OwnerIs
    <2>3. holds[w] = f \/ (Pending(w) /\ loc[w].ev = f)
      BY <1>7, <2>1 DEF MutexInv, HoldsExact
    <2> QED BY <1>1, <1>3, <2>1, <2>2, <2>3
  <1>8. ASSUME NEW t \in Tcb, Pending(t)', OSTCBEventPtr'[t] = NullEvent, t \notin voided'
        PROVE  loc'[t].ev \in Live' /\ OSEventPtr'[loc'[t].ev] = t
    <2>1. Pending(t) /\ loc'[t] = loc[t] /\ loc[t].ev # e /\ t \notin voided
      BY <1>1, <1>3, <1>8
    <2>2. OSTCBEventPtr[t] = NullEvent
      BY <1>3, <1>4, <1>8, <2>1
    <2>3. loc[t].ev \in Live /\ OSEventPtr[loc[t].ev] = t
      BY <2>1, <2>2 DEF MutexInv, HoldsExact, Owner
    <2> QED BY <1>2, <2>1, <2>3
  <1>9. ASSUME NEW t \in voided'
        PROVE  Pending(t)' /\ OSTCBEventPtr'[t] = NullEvent /\ Owned(t)' = {}
    <2>1. CASE t \in voided
      <3>1. t \in Tcb /\ Pending(t) /\ OSTCBEventPtr[t] = NullEvent /\ Owned(t) = {}
        BY <2>1, TypesAre DEF MutexInv, HoldsExact
      <3> QED BY <1>3, <1>5, <3>1
    <2>2. CASE t \notin voided
      <3>1. t \in Tcb /\ Pending(t) /\ loc[t].ev = e
        BY <1>1, <1>9, <2>2
      <3>2. OSTCBEventPtr[t] # NullEvent => t \in Served(P)
        <4>1. OSTCBEventPtr[t] # NullEvent => t \in OSTCBList
          BY <3>1 DEF MutexInv, TasksFixed
        <4> QED BY <1>1, <1>4, <3>1, <4>1, TaskIs
      <3>3. Owned(t) \subseteq {e}
        <4>1. CASE t \in Served(P)
          BY <1>4, <4>1
        <4>2. CASE t \notin Served(P)
          <5>1. Owner(e) = t
            BY <2>2, <3>1, <3>2, <4>2 DEF MutexInv, HoldsExact
          <5>2. t # NullEvent
            BY <3>1, MutexAssumption
          <5>3. Owned(Owner(e)) = {e}
            BY <5>1, <5>2, OwnerIs
          <5> QED BY <5>1, <5>3
        <4> QED BY <4>1, <4>2
      <3> QED BY <1>3, <1>5, <3>1, <3>2, <3>3
    <2> QED BY <2>1, <2>2
  <1> QED BY <1>6, <1>7, <1>8, <1>9 DEF HoldsExact, Owner

LEMMA DeleteMutex ==
  ASSUME MutexInv, MutexSafeUse, NEW e \in Live, NEW o, o = Owner(e), NEW low \in BOOLEAN, NEW P,
         NEW l \in {"app", "sched"}, Deletes(e, o, low, P, l),
         lowered' = (lowered \/ (low /\ OSEventTbl[e] = {})), l = "app" <=> OSEventTbl[e] = {}
  PROVE  MutexInv'
  <1>1. /\ Lowering(e, o, low, NullTcb, P, l) /\ P = OSEventTbl[e] /\ e \in Event /\ FreeEvent(e)
        /\ OSEventType[e] # "UNUSED"
    BY DEF Deletes, Live
  <1>2. /\ Passes(e, NullTcb, P)
        /\ \A f \in Event \ {e} : OSEventType'[f] = OSEventType[f]
        /\ OSEventType' \in [Event -> {"MUTEX", "UNUSED"}] /\ OSEventCnt' \in [Event -> Nat]
        /\ OSEventPtr' \in [Event -> Tcb \cup Event \cup {NullEvent}]
        /\ OSEventFreeList' \in Event \cup {NullEvent}
        /\ holds' \in [Tcb -> Event \cup {NullEvent}] /\ voided' \subseteq Tcb
    BY DeletePasses
  <1>3. Moves({"post", "del", "delalways"}, l) /\ OSEventTbl'[e] = OSEventTbl[e] \ P
    BY <1>1, LowerIs DEF LowerEffect
  <1>4. FreeListSound' /\ \A t \in Tcb : Making(t)' => loc'[t].ev # e
    <2>1. DOMAIN OSEventType = Event /\ DOMAIN OSEventPtr = Event
      BY TypesAre
    <2>2. {l} \cup {"post", "del", "delalways"} \subseteq Label \ {"take", "qinit", "create"}
      BY DEF Label
    <2> QED BY <1>1, <1>3, <2>1, <2>2, MutexFacts, MutexAssumption, DeleteFrees DEF MutexInv
  <1>5. HoldsExact'
    BY DeleteTells
  <1>6. lowered' \in BOOLEAN /\ (lowered => lowered') /\ (low /\ l = "app" => lowered')
    BY TypesAre
  <1>7. SeesTo(low, l)
    BY <1>1, <1>2, <1>3, <1>4, <1>5, <1>6 DEF SeesTo
  <1> QED BY <1>1, <1>2, <1>7, LowerDone

LEMMA DelNoPendMutex ==
  ASSUME MutexInv, MutexSafeUse, NEW e \in Event, OSMutexDel_NoPend(e) PROVE MutexInv'
  <1>1. /\ OSIntNesting = 0 /\ at[OSTCBCur] = "del" /\ loc[OSTCBCur].ev = e /\ Apart(e) /\ Return("app")
        /\ UNCHANGED <<OSRdyTbl, OSEventTbl, OSLockNesting, tcbVars, OSTCBList, OSTCBFreeList,
                       cpuVars, lowered>>
    BY DEF OSMutexDel_NoPend, InTask
  <1>2. CASE OSEventTbl[e] # {}
    <2>1. UNCHANGED <<tblVars, mutexVars>>
      BY <1>1, <1>2 DEF OSMutexDel_NoPend, tblVars, mutexVars
    <2> QED BY <1>1, <2>1, NothingDone DEF Inside
  <1>3. CASE OSEventTbl[e] = {}
    <2> PICK o : o = Owner(e)
      OBVIOUS
    <2> PICK low \in BOOLEAN : low = FALSE
      OBVIOUS
    <2> PICK P : P = {}
      OBVIOUS
    <2>1. /\ OSTCBPrioTbl' = [OSTCBPrioTbl EXCEPT ![Pip(e)] = NullTcb] /\ OSTCBPrioTbl[Pip(e)] = Reserved
          /\ FreeEvent(e) /\ Void(e)
      BY <1>3 DEF OSMutexDel_NoPend, MutexSafeUse
    <2>2. e \in Live
      BY <1>1, MutexFacts DEF MutexInv, InsideLive
    <2>3. ~(o # NullEvent /\ OSTCBPrio[o] = Pip(e))
      <3> SUFFICES ASSUME o # NullEvent PROVE OSTCBPrio[o] # Pip(e)
        OBVIOUS
      <3>1. o # Reserved /\ (OSTCBPrioTbl[Pip(e)] = o <=> OSTCBPrio[o] = Pip(e))
        BY <2>2, OwnerIs
      <3> QED BY <2>1, <3>1
    <2>4. OSTCBPrio' = [t \in Tcb |-> IF low /\ t = o THEN InitPrio[t] ELSE OSTCBPrio[t]]
      BY <1>1, MutexFacts DEF CoreInv, KernelTypeOK, tcbVars
    <2>5. EventTaskRdy(IF low THEN (OSRdyTbl \ {Pip(e)}) \cup {InitPrio[o]} ELSE OSRdyTbl, e, P, "MUTEX")
      <3>1. /\ OSEventTbl \in [Event -> SUBSET Prio] /\ OSTCBStat \in [Tcb -> SUBSET Stat]
            /\ OSTCBDly \in [Tcb -> Ticks] /\ OSTCBPendTO \in [Tcb -> BOOLEAN]
            /\ OSTCBEventPtr \in [Tcb -> Event \cup {NullEvent}]
        BY MutexFacts DEF CoreInv, KernelTypeOK
      <3>2. EventTaskRdy(OSRdyTbl, e, {}, "MUTEX")
        BY <1>1, <3>1 DEF EventTaskRdy, tcbVars
      <3> QED BY <3>2
    <2>6. Lowering(e, o, low, NullTcb, P, "app")
      BY <1>1, <2>1, <2>3, <2>4, <2>5 DEF Lowering
    <2>7. Deletes(e, o, low, P, "app")
      BY <1>1, <1>3, <2>1, <2>6 DEF Deletes
    <2>8. lowered' = (lowered \/ (low /\ OSEventTbl[e] = {}))
      BY <1>1, TypesAre
    <2> QED BY <1>3, <2>2, <2>7, <2>8, DeleteMutex
  <1> QED BY <1>2, <1>3

LEMMA DelAlwaysMutex ==
  ASSUME MutexInv, MutexSafeUse, NEW e \in Event, OSMutexDel_Always(e) PROVE MutexInv'
  <1> PICK o : o = Owner(e)
    OBVIOUS
  <1> PICK low \in BOOLEAN : low <=> o # NullEvent /\ OSTCBPrio[o] = Pip(e)
    <2>1. (o # NullEvent /\ OSTCBPrio[o] = Pip(e)) \in BOOLEAN
      OBVIOUS
    <2> QED BY <2>1
  <1> PICK P : P = OSEventTbl[e]
    OBVIOUS
  <1> PICK l \in {"app", "sched"} : l = "app" <=> P = {}
    OBVIOUS
  <1>1. /\ OSIntNesting = 0 /\ at[OSTCBCur] = "delalways" /\ loc[OSTCBCur].ev = e /\ Apart(e) /\ Return(l)
        /\ o # NullEvent => OSTCBPrio[o] \in OSRdyTbl
        /\ OSTCBPrio' = IF low THEN [OSTCBPrio EXCEPT ![o] = MPrio(e)] ELSE OSTCBPrio
        /\ OSTCBPrioTbl' = [p \in Prio |-> IF p = Pip(e) THEN NullTcb
                                           ELSE IF low /\ p = MPrio(e) THEN o
                                           ELSE OSTCBPrioTbl[p]]
        /\ EventTaskRdy(IF low THEN RdyAtPrio(o, MPrio(e)) ELSE OSRdyTbl, e, P, "MUTEX")
        /\ FreeEvent(e) /\ Void(e) /\ lowered' = (lowered \/ (low /\ OSEventTbl[e] = {}))
        /\ UNCHANGED <<OSLockNesting, OSTCBList, OSTCBFreeList, cpuVars>>
    BY DEF OSMutexDel_Always, InTask
  <1>2. e \in Live
    BY <1>1, MutexFacts DEF MutexInv, InsideLive
  <1>3. Pip(e) \in Prio
    BY <1>2, MutexConstants DEF MutexInv, BytesExact, UserPrio
  <1>4. low => /\ o \in Tcb /\ MPrio(e) = InitPrio[o] /\ InitPrio[o] \in Prio
               /\ OSTCBPrioTbl[InitPrio[o]] = o
    <2> SUFFICES ASSUME o # NullEvent
                 PROVE  /\ o \in Tcb /\ MPrio(e) = InitPrio[o] /\ InitPrio[o] \in Prio
                        /\ OSTCBPrioTbl[InitPrio[o]] = o
      OBVIOUS
    <2>1. o \in DOMAIN InitPrio /\ o \in Tcb /\ MPrio(e) = InitPrio[o]
      BY <1>2, OwnerIs
    <2>2. InitPrio[o] \in Prio
      BY <2>1, MutexConstants DEF UserPrio
    <2> QED BY <2>1, <2>2 DEF MutexInv, PriorityGivenBack
  <1>5. OSTCBPrio \in [Tcb -> Prio] /\ OSTCBPrioTbl \in [Prio -> Tcb \cup {NullTcb, Reserved}]
    BY MutexFacts DEF CoreInv, KernelTypeOK
  <1>6. OSTCBPrio' = [t \in Tcb |-> IF low /\ t = o THEN InitPrio[t] ELSE OSTCBPrio[t]]
    BY <1>1, <1>4, <1>5
  <1>7. OSTCBPrioTbl' = [OSTCBPrioTbl EXCEPT ![Pip(e)] = NullTcb]
    BY <1>1, <1>3, <1>4, <1>5
  <1>8. EventTaskRdy(IF low THEN (OSRdyTbl \ {Pip(e)}) \cup {InitPrio[o]} ELSE OSRdyTbl, e, P, "MUTEX")
    <2> PICK R : R = IF low THEN (OSRdyTbl \ {Pip(e)}) \cup {InitPrio[o]} ELSE OSRdyTbl
      OBVIOUS
    <2>1. (IF low THEN RdyAtPrio(o, MPrio(e)) ELSE OSRdyTbl) = R
      BY <1>4 DEF RdyAtPrio
    <2>2. EventTaskRdy(R, e, P, "MUTEX")
      BY <1>1, <2>1
    <2> QED BY <2>2
  <1>9. Lowering(e, o, low, NullTcb, P, l)
    BY <1>1, <1>6, <1>7, <1>8 DEF Lowering
  <1>10. Deletes(e, o, low, P, l)
    BY <1>1, <1>9 DEF Deletes
  <1> QED BY <1>1, <1>2, <1>10, DeleteMutex

---------------------------------------------------------------------------
\* The creation: a pip is reserved and a block taken, and then it is put into use.
LEMMA CreateMutex ==
  ASSUME MutexInv, MutexSafeUse, NEW p \in Pips, OSMutexCreate(p) PROVE MutexInv'
  <1> PICK me : me = OSTCBCur
    OBVIOUS
  <1> PICK e : e = OSEventFreeList
    OBVIOUS
  <1> DEFINE mine == [NoLocals EXCEPT !.ev = e, !.prio = p]
  <1>1. /\ OSIntNesting = 0 /\ at[me] = "app" /\ me # Idle /\ OSTCBPrioTbl[p] = NullTcb /\ TakeEvent
        /\ OSTCBPrioTbl' = [OSTCBPrioTbl EXCEPT ![p] = Reserved]
        /\ at' = [at EXCEPT ![me] = "create"] /\ UNCHANGED served
        /\ loc' = [loc EXCEPT ![me] = mine]
        /\ UNCHANGED <<OSRdyTbl, OSEventTbl, OSLockNesting, tcbVars, OSTCBList, OSTCBFreeList,
                       cpuVars, OSEventType, OSEventCnt, OSEventPtr, holds, voided, lowered>>
    BY DEF OSMutexCreate, TaskCall, Goto, Keep
  <1>2. UNCHANGED <<OSTCBPrio, OSTCBStat, OSTCBDly, OSTCBPendTO, OSTCBEventPtr, OSTCBCur, OSPrioCur>>
    BY <1>1 DEF tcbVars, cpuVars
  <1>3. /\ EventInv /\ CoreInv /\ me \in Tcb /\ me \in OSTCBList /\ OSTCBList \subseteq Tcb
        /\ OSLockNesting = 0 /\ OSTCBPrio[me] \in OSRdyTbl
    BY <1>1, MutexFacts DEF EventInv, WaitsExact, RunnerReady, Settled, CoreInv, CurrentKnown
  <1>4. p \in Prio /\ p # OS_LOWEST_PRIO
    BY MutexConstants DEF UserPrio
  <1>5. /\ e \in Event /\ OSEventType[e] = "UNUSED" /\ e \in Untaken
        /\ \A t \in Tcb : Making(t) => loc[t].ev # e
    <2>1. e \in Untaken
      BY <1>1, FirstFree, MutexAssumption DEF MutexInv
    <2> QED BY <2>1 DEF Untaken, Taken
  <1>6. mine \in Locals /\ mine.ev = e /\ mine.prio = p
    BY <1>4, <1>5, NoLocalsType DEF Locals, NoLocals
  <1> HIDE DEF mine
  <1>7. /\ PlaceTypes /\ at'[me] = "create" /\ loc'[me] = mine
        /\ \A t \in Tcb \ {me} : at'[t] = at[t] /\ loc'[t] = loc[t]
    BY <1>1, <1>3, <1>6 DEF PlaceTypes, CoreInv, KernelTypeOK, Label
  <1>8. Moves(Points \ {"pendwake"}, "create")
    BY <1>1, <1>3, <1>7 DEF Moves, Points
  <1>9. /\ OSTCBPrioTbl'[p] = Reserved /\ \A q \in Prio \ {p} : OSTCBPrioTbl'[q] = OSTCBPrioTbl[q]
        /\ OSTCBPrioTbl' \in [Prio -> Tcb \cup {NullTcb, Reserved}]
    BY <1>1, <1>3, <1>4 DEF CoreInv, KernelTypeOK
  <1>10. EventInv' /\ (RunsHighest => RunsHighest')
    <2>1. /\ \A t \in OSTCBList : OSTCBPrioTbl'[OSTCBPrio'[t]] = t
          /\ \A q \in Prio : HasTcb(q)' => OSTCBPrioTbl'[q] \in OSTCBList
      <3>1. \A t \in OSTCBList : OSTCBPrio[t] \in Prio \ {p} /\ OSTCBPrioTbl[OSTCBPrio[t]] = t
        BY <1>1, TaskIs
      <3> QED BY <1>2, <1>3, <1>9, <3>1 DEF CoreInv, TablesAgree, HasTcb
    <2>2. /\ \A q \in OSRdyTbl' : OSTCBPrioTbl'[q] \in OSTCBList /\ OSTCBPrio'[OSTCBPrioTbl'[q]] = q
          /\ \A t \in OSTCBList : OSTCBPrio'[t] \in OSRdyTbl' <=> OSTCBStat'[t] = {} /\ OSTCBDly'[t] = 0
      <3>1. \A q \in OSRdyTbl : q \in Prio \ {p} /\ OSTCBPrioTbl[q] \in OSTCBList
                                /\ OSTCBPrio[OSTCBPrioTbl[q]] = q
        BY <1>1, <1>3, ReadyIs, CoreAssumption
      <3>2. \A t \in OSTCBList : OSTCBPrio[t] \in OSRdyTbl <=> OSTCBStat[t] = {} /\ OSTCBDly[t] = 0
        BY TaskIs
      <3> QED BY <1>1, <1>2, <1>9, <3>1, <3>2
    <2>3. /\ \A t \in OSTCBList : OSTCBEventPtr'[t] # NullEvent => OSTCBPrio'[t] \in OSEventTbl'[OSTCBEventPtr'[t]]
          /\ \A f \in Event : \A q \in OSEventTbl'[f] :
               /\ OSTCBPrioTbl'[q] \in OSTCBList /\ OSTCBPrio'[OSTCBPrioTbl'[q]] = q
               /\ OSTCBEventPtr'[OSTCBPrioTbl'[q]] = f
      <3>1. \A f \in Event : \A q \in OSEventTbl[f] :
              /\ q \in Prio \ {p} /\ OSTCBPrioTbl[q] \in OSTCBList /\ OSTCBPrio[OSTCBPrioTbl[q]] = q
              /\ OSTCBEventPtr[OSTCBPrioTbl[q]] = f
        BY <1>1, <1>3, WaiterOwnsNone, CoreAssumption
      <3>2. \A t \in OSTCBList : OSTCBEventPtr[t] # NullEvent => OSTCBPrio[t] \in OSEventTbl[OSTCBEventPtr[t]]
        BY TaskIs
      <3> QED BY <1>1, <1>2, <1>9, <3>1, <3>2
    <2>4. ASSUME NEW t \in OSTCBList
          PROVE  /\ OSTCBEventPtr'[t] # NullEvent <=> OSTCBPendTO'[t] \/ OSTCBStat'[t] \cap PendAny # {}
                 /\ OSTCBEventPtr'[t] # NullEvent =>
                      /\ Pending(t)' /\ loc'[t].ev = OSTCBEventPtr'[t]
                      /\ OSTCBStat'[t] \cap PendAny \subseteq {OSEventType'[OSTCBEventPtr'[t]]}
                 /\ OSTCBPendTO'[t] => OSTCBDly'[t] = 0
      <3>1. ~Deleting(t) /\ t \in Tcb
        BY <1>3, MutexFacts
      <3>2. /\ OSTCBEventPtr[t] # NullEvent <=> OSTCBPendTO[t] \/ OSTCBStat[t] \cap PendAny # {}
            /\ OSTCBEventPtr[t] # NullEvent =>
                 /\ Pending(t) /\ loc[t].ev = OSTCBEventPtr[t]
                 /\ OSTCBStat[t] \cap PendAny \subseteq {OSEventType[OSTCBEventPtr[t]]}
            /\ OSTCBPendTO[t] => OSTCBDly[t] = 0
        BY <1>3, <3>1, PenderAt
      <3>3. Pending(t) => Pending(t)' /\ loc'[t] = loc[t]
        BY <1>1, <1>7, <3>1 DEF Pending
      <3> QED BY <1>1, <1>2, <3>2, <3>3
    <2>5. OSPrioCur = OSTCBPrio'[OSTCBCur] \/ ~HasTcb(OSPrioCur)'
      <3>1. OSPrioCur = OSTCBPrio[me] \/ ~HasTcb(OSPrioCur)
        BY <1>1, <1>3 DEF CoreInv, CurrentKnown
      <3>2. OSPrioCur \in Prio
        BY <1>3 DEF CoreInv, KernelTypeOK
      <3> QED BY <1>2, <1>9, <3>1, <3>2 DEF HasTcb
    <2>6. OSTCBPrio'[Idle] = OS_LOWEST_PRIO /\ \A q \in Prio : OSTCBPrioTbl'[q] = Idle <=> q = OS_LOWEST_PRIO
      BY <1>2, <1>3, <1>4, <1>9, CoreAssumption DEF CoreInv, IdleStays, Tcb
    <2>7. /\ OSRdyTbl' \subseteq Prio /\ OSEventTbl' \in [Event -> SUBSET Prio]
          /\ OSTCBPrio' \in [Tcb -> Prio] /\ OSTCBStat' \in [Tcb -> SUBSET Stat] /\ OSTCBDly' \in [Tcb -> Ticks]
          /\ OSTCBPendTO' \in [Tcb -> BOOLEAN] /\ OSTCBEventPtr' \in [Tcb -> Event \cup {NullEvent}]
      BY <1>1, <1>2, <1>3 DEF CoreInv, KernelTypeOK
    <2>8. \A f \in Event : OSEventType'[f] = "UNUSED" => OSEventTbl'[f] = {}
      BY <1>1, <1>3 DEF EventInv, BlocksApart
    <2>9. EventInv'
      BY <1>1, <1>2, <1>3, <1>5, <1>6, <1>7, <1>8, <1>9, <2>1, <2>2, <2>3, <2>4, <2>5, <2>6, <2>7, <2>8,
         RegionSound
    <2>10. RunsHighest => RunsHighest'
      BY <1>1, <1>2, <1>3 DEF RunsHighest, Settled, cpuVars
    <2> QED BY <2>9, <2>10
  <1>11. FreeListSound'
    <2>1. Taken' = Taken \cup {e}
      <3>1. \A t \in Tcb \ {me} : (Making(t)' <=> Making(t)) /\ loc'[t] = loc[t]
        BY <1>7 DEF Making
      <3>2. Making(me)' /\ ~Making(me) /\ loc'[me].ev = e
        BY <1>1, <1>6, <1>7 DEF Making
      <3> QED BY <1>3, <3>1, <3>2 DEF Taken
    <2>2. Untaken' = Untaken \ {e}
      BY <1>1, <2>1 DEF Untaken
    <2> QED BY <1>1, <2>2, FreeListTakes, MutexAssumption DEF MutexInv
  <1>12. /\ Live' = Live /\ (\A t : Owned(t)' = Owned(t))
         /\ \A f : /\ Owner(f)' = Owner(f) /\ Pip(f)' = Pip(f) /\ MPrio(f)' = MPrio(f)
                   /\ (Available(f)' <=> Available(f))
    BY <1>1 DEF Live, Owned, Owner, Pip, MPrio, Available
  <1>13. TasksFixed' /\ BytesExact' /\ AvailableUnawaited' /\ NoInversion'
    BY <1>1, <1>2, <1>12 DEF MutexInv, TasksFixed, BytesExact, AvailableUnawaited, NoInversion
  <1>14. InsideLive' /\ OwnsOne'
    BY <1>2, <1>7, <1>12 DEF MutexInv, InsideLive, OwnsOne
  <1>15. PipsApart'
    <2>1. \A f \in Live : Pip(f) \in Prio \ {p}
      <3>1. \A f \in Live : Pip(f) \in Prio
        BY MutexConstants DEF MutexInv, BytesExact, UserPrio
      <3>2. \A f \in Live : Owner(f) # NullEvent => Owner(f) # NullTcb
        BY OwnerIs
      <3> QED BY <1>1, <3>1, <3>2, CoreAssumption DEF MutexInv, PipsApart
    <2>2. \A t \in Tcb : at[t] = "create" => loc[t].prio \in Prio \ {p}
      <3>1. \A t \in Tcb : at[t] = "create" => loc[t].prio \in Prio
        BY MutexConstants DEF MutexInv, PipsApart, UserPrio
      <3> QED BY <1>1, <3>1, CoreAssumption DEF MutexInv, PipsApart
    <2>3. \A f \in Live : \/ OSTCBPrioTbl'[Pip(f)] = Reserved
                          \/ Owner(f) # NullEvent /\ OSTCBPrioTbl'[Pip(f)] = Owner(f)
      BY <1>9, <2>1 DEF MutexInv, PipsApart
    <2>4. \A f, g \in Live : Pip(f) = Pip(g) => f = g
      BY DEF MutexInv, PipsApart
    <2>5. ASSUME NEW t \in Tcb, at'[t] = "create"
          PROVE  /\ loc'[t].prio \in Pips /\ OSTCBPrioTbl'[loc'[t].prio] = Reserved
                 /\ \A f \in Live : Pip(f) # loc'[t].prio
                 /\ \A v \in Tcb \ {t} : at'[v] = "create" => loc'[v].prio # loc'[t].prio
      <3>1. CASE t = me
        BY <1>6, <1>7, <1>9, <2>1, <2>2, <3>1
      <3>2. CASE t # me
        <4>1. at[t] = "create" /\ loc'[t] = loc[t] /\ loc[t].prio \in Prio \ {p}
          BY <1>7, <2>2, <2>5, <3>2
        <4>2. /\ loc[t].prio \in Pips /\ OSTCBPrioTbl[loc[t].prio] = Reserved
              /\ \A f \in Live : Pip(f) # loc[t].prio
              /\ \A v \in Tcb \ {t} : at[v] = "create" => loc[v].prio # loc[t].prio
          BY <4>1 DEF MutexInv, PipsApart
        <4> QED BY <1>6, <1>7, <1>9, <4>1, <4>2
      <3> QED BY <3>1, <3>2
    <2> QED BY <1>12, <2>3, <2>4, <2>5 DEF PipsApart
  <1>16. HoldsExact'
    <2>1. \A t \in Tcb : (Pending(t)' <=> Pending(t)) /\ (Pending(t) => loc'[t] = loc[t])
      BY <1>1, <1>7 DEF Pending
    <2>2. \A f \in Live : Owner(f) # NullEvent => Owner(f) \in Tcb
      BY OwnerIs
    <2>3. voided \subseteq Tcb
      BY TypesAre
    <2> QED BY <1>1, <1>2, <1>12, <2>1, <2>2, <2>3 DEF MutexInv, HoldsExact
  <1>17. SwitchedRight'
    BY <1>1, <1>2, <1>12 DEF MutexInv, SwitchedRight
  <1>18. PriorityGivenBack'
    <2>1. \A t \in DOMAIN InitPrio : t # NullTcb /\ t # Reserved
      BY MutexConstants
    <2>2. \A q \in Prio, t \in DOMAIN InitPrio : OSTCBPrioTbl'[q] = t <=> OSTCBPrioTbl[q] = t
      BY <1>1, <1>9, <2>1
    <2> QED BY <1>2, <1>12, <2>2 DEF MutexInv, PriorityGivenBack
  <1>19. OutrankedOnlyAfterPost' /\ lowered' \in BOOLEAN
    BY <1>1, <1>10, TypesAre, OutrankedIs, OutrankedIsNext DEF MutexInv
  <1>20. /\ OSEventType' \in [Event -> {"MUTEX", "UNUSED"}] /\ OSEventCnt' \in [Event -> Nat]
         /\ OSEventPtr' \in [Event -> Tcb \cup Event \cup {NullEvent}]
         /\ holds' \in [Tcb -> Event \cup {NullEvent}] /\ voided' \subseteq Tcb
    BY <1>1, TypesAre
  <1>21. OSEventFreeList' \in Event \cup {NullEvent}
    <2> PICK k \in 0 .. Cardinality(Event) : \E blk \in [1 .. k -> Event] : Linked(k, blk)'
      BY <1>11 DEF FreeListSound
    <2> PICK blk \in [1 .. k -> Event] : Linked(k, blk)'
      OBVIOUS
    <2>1. k # 0 => 1 \in 1 .. k
      BY MutexAssumption, FS_CardinalityType
    <2> QED BY <2>1 DEF Linked
  <1> QED BY <1>10, <1>11, <1>13, <1>14, <1>15, <1>16, <1>17, <1>18, <1>19, <1>20, <1>21, MutexInvNext

LEMMA CreateInitMutex == ASSUME MutexInv, MutexSafeUse, OSMutexCreate_Init PROVE MutexInv'
  <1> PICK me : me = OSTCBCur
    OBVIOUS
  <1> PICK e : e = loc[me].ev
    OBVIOUS
  <1> PICK p : p = loc[me].prio
    OBVIOUS
  <1>1. /\ InTask("create") /\ OSIntNesting = 0 /\ at[me] = "create" /\ Return("app")
        /\ OSEventType' = [OSEventType EXCEPT ![e] = "MUTEX"]
        /\ OSEventCnt' = [OSEventCnt EXCEPT ![e] = p * 256 + 255]
        /\ OSEventPtr' = [OSEventPtr EXCEPT ![e] = NullEvent]
        /\ OSEventTbl' = [OSEventTbl EXCEPT ![e] = {}]
        /\ UNCHANGED <<OSRdyTbl, OSLockNesting, tcbVars, tblVars, cpuVars, OSEventFreeList,
                       holds, voided, lowered>>
    BY DEF OSMutexCreate_Init, InTask, OS_MUTEX_AVAILABLE
  <1>2. /\ EventInv' /\ (RunsHighest => RunsHighest') /\ FreeListSound' /\ UNCHANGED OSEventTbl
    <2>1. DOMAIN OSEventPtr = Event /\ DOMAIN OSEventType = Event /\ EventInv /\ FreeListSound
      BY TypesAre DEF MutexInv
    <2> QED BY <1>1, <2>1, InitKeeps
  <1>3. /\ me \in Tcb /\ e \in Event /\ OSEventType[e] = "UNUSED" /\ OSEventTbl[e] = {}
        /\ Moves({"take", "qinit", "create"}, "app")
    BY <1>1, MutexFacts, MakerLeaves
  <1>4. /\ at'[me] = "app" /\ \A t \in Tcb \ {me} : at'[t] = at[t] /\ loc'[t] = loc[t]
    BY <1>1, <1>3 DEF Moves
  <1>5. /\ p \in Pips /\ OSTCBPrioTbl[p] = Reserved /\ (\A f \in Live : Pip(f) # p) /\ p \in Nat
        /\ \A u \in Tcb \ {me} : at[u] = "create" => loc[u].prio # p
    BY <1>1, <1>3, MutexConstants DEF MutexInv, PipsApart, UserPrio
  <1>6. /\ OSEventType' \in [Event -> {"MUTEX", "UNUSED"}] /\ OSEventCnt' \in [Event -> Nat]
        /\ OSEventPtr' \in [Event -> Tcb \cup Event \cup {NullEvent}]
        /\ Pip(e)' = p /\ MPrio(e)' = 255 /\ Owner(e)' = NullEvent
        /\ \A f \in Event \ {e} : /\ Pip(f)' = Pip(f) /\ MPrio(f)' = MPrio(f) /\ Owner(f)' = Owner(f)
                                  /\ OSEventType'[f] = OSEventType[f]
    <2> PICK a \in Nat : a = p
      BY <1>5
    <2>1. OSEventCnt' = [OSEventCnt EXCEPT ![e] = Word(a, 255)]
      BY <1>1 DEF Word
    <2>2. Word(a, 255) \in Nat /\ Upper(Word(a, 255)) = a /\ Lower(Word(a, 255)) = 255
      BY FreeWord
    <2>3. Word(a, 255) \div 256 = a
      BY <2>2 DEF Upper
    <2>4. Word(a, 255) % 256 = 255
      BY <2>2 DEF Lower
    <2>5. /\ OSEventCnt' \in [Event -> Nat]
          /\ OSEventCnt'[e] \div 256 = p /\ OSEventCnt'[e] % 256 = 255
          /\ \A f \in Event \ {e} : OSEventCnt'[f] = OSEventCnt[f]
      BY <1>3, <2>1, <2>2, <2>3, <2>4, TypesAre
    <2>6. /\ OSEventType' \in [Event -> {"MUTEX", "UNUSED"}]
          /\ OSEventPtr' \in [Event -> Tcb \cup Event \cup {NullEvent}] /\ OSEventPtr'[e] = NullEvent
          /\ \A f \in Event \ {e} : OSEventPtr'[f] = OSEventPtr[f] /\ OSEventType'[f] = OSEventType[f]
      BY <1>1, <1>3, TypesAre
    <2> QED BY <2>5, <2>6 DEF Pip, MPrio, Owner
  <1>7. /\ Live' = Live \cup {e} /\ e \notin Live /\ Live \subseteq Event \ {e}
        /\ \A t \in Tcb : Owned(t)' = Owned(t)
    <2>1. Live' = Live \cup {e} /\ e \notin Live /\ Live \subseteq Event \ {e}
      <3>1. OSEventType'[e] = "MUTEX" /\ OSEventType[e] # "MUTEX"
        BY <1>1, <1>3, TypesAre
      <3> QED BY <1>3, <1>6, <3>1 DEF Live
    <2>2. \A t : \A f : /\ f \in Owned(t) <=> f \in Live /\ Owner(f) = t
                        /\ f \in Owned(t)' <=> f \in Live' /\ Owner(f)' = t
      BY DEF Owned, Live
    <2>3. ASSUME NEW t \in Tcb PROVE Owned(t)' = Owned(t)
      <3>1. t # NullEvent
        BY MutexAssumption
      <3>2. \A f : f \in Owned(t)' <=> f \in Owned(t)
        BY <1>6, <2>1, <2>2, <3>1
      <3> QED BY <3>2
    <2> QED BY <2>1, <2>3
  <1>8. UNCHANGED <<OSTCBPrio, OSTCBEventPtr, OSTCBPrioTbl, OSTCBList, OSTCBCur, OSPrioCur>>
    BY <1>1 DEF tcbVars, tblVars, cpuVars
  <1>9. TasksFixed' /\ InsideLive' /\ OwnsOne'
    <2>1. TasksFixed' /\ InsideLive'
      BY <1>4, <1>7, <1>8 DEF MutexInv, TasksFixed, InsideLive
    <2>2. \A f, g \in Live' : Owner(f)' = Owner(g)' /\ Owner(f)' # NullEvent => f = g
      BY <1>6, <1>7 DEF MutexInv, OwnsOne
    <2>3. \A t \in Tcb : at'[t] = "pend" \/ OSTCBEventPtr'[t] # NullEvent => Owned(t)' = {}
      BY <1>4, <1>7, <1>8 DEF MutexInv, OwnsOne
    <2>4. \A t \in Tcb : at'[t] = "accept" => Owned(t)' \subseteq {loc'[t].ev}
      BY <1>4, <1>7 DEF MutexInv, OwnsOne
    <2> QED BY <2>1, <2>2, <2>3, <2>4 DEF OwnsOne
  <1>10. BytesExact' /\ AvailableUnawaited' /\ NoInversion'
    BY <1>2, <1>3, <1>5, <1>6, <1>7, <1>8
    DEF MutexInv, BytesExact, AvailableUnawaited, NoInversion, Available, OS_MUTEX_AVAILABLE
  <1>11. PipsApart'
    <2>1. \A f \in Live' : \/ OSTCBPrioTbl'[Pip(f)'] = Reserved
                           \/ Owner(f)' # NullEvent /\ OSTCBPrioTbl'[Pip(f)'] = Owner(f)'
      BY <1>5, <1>6, <1>7, <1>8 DEF MutexInv, PipsApart
    <2>2. \A f, g \in Live' : Pip(f)' = Pip(g)' => f = g
      BY <1>5, <1>6, <1>7 DEF MutexInv, PipsApart
    <2>3. ASSUME NEW t \in Tcb, at'[t] = "create"
          PROVE  /\ loc'[t].prio \in Pips /\ OSTCBPrioTbl'[loc'[t].prio] = Reserved
                 /\ \A f \in Live' : Pip(f)' # loc'[t].prio
                 /\ \A v \in Tcb \ {t} : at'[v] = "create" => loc'[v].prio # loc'[t].prio
      <3>1. \A v \in Tcb : at'[v] = "create" => v # me /\ at[v] = "create" /\ loc'[v] = loc[v]
        BY <1>4
      <3> QED BY <1>5, <1>6, <1>7, <1>8, <2>3, <3>1 DEF MutexInv, PipsApart
    <2> QED BY <2>1, <2>2, <2>3 DEF PipsApart
  <1>12. HoldsExact'
    <2>1. \A t \in Tcb : (Pending(t)' <=> Pending(t)) /\ (Pending(t) => loc'[t] = loc[t])
      BY <1>1, <1>4 DEF Pending
    <2>2. \A f \in Live : Owner(f) # NullEvent => Owner(f) \in Tcb
      BY OwnerIs
    <2>3. voided \subseteq Tcb
      BY TypesAre
    <2>4. \A t \in Tcb : holds'[t] # NullEvent => holds'[t] \in Live' /\ OSEventPtr'[holds'[t]] = t
      BY <1>1, <1>6, <1>7 DEF MutexInv, HoldsExact, Owner
    <2>5. \A f \in Live' : Owner(f)' # NullEvent =>
            holds'[Owner(f)'] = f \/ (Pending(Owner(f))' /\ loc'[Owner(f)'].ev = f)
      BY <1>1, <1>6, <1>7, <2>1, <2>2 DEF MutexInv, HoldsExact
    <2>6. \A t \in Tcb : Pending(t)' /\ OSTCBEventPtr'[t] = NullEvent /\ t \notin voided' =>
            loc'[t].ev \in Live' /\ OSEventPtr'[loc'[t].ev] = t
      BY <1>1, <1>6, <1>7, <1>8, <2>1 DEF MutexInv, HoldsExact, Owner
    <2>7. \A t \in voided' : Pending(t)' /\ OSTCBEventPtr'[t] = NullEvent /\ Owned(t)' = {}
      BY <1>1, <1>7, <1>8, <2>1, <2>3 DEF MutexInv, HoldsExact
    <2> QED BY <2>4, <2>5, <2>6, <2>7 DEF HoldsExact, Owner
  <1>13. SwitchedRight'
    BY <1>1, <1>4, <1>6, <1>7, <1>8 DEF MutexInv, SwitchedRight
  <1>14. PriorityGivenBack'
    <2>1. \A t \in DOMAIN InitPrio : t \in Tcb /\ \A f \in Owned(t) : f \in Event \ {e}
      BY <1>7, MutexConstants DEF Owned, Live
    <2> QED BY <1>6, <1>7, <1>8, <2>1 DEF MutexInv, PriorityGivenBack
  <1>15. OutrankedOnlyAfterPost' /\ lowered' \in BOOLEAN
    BY <1>1, <1>2, TypesAre, OutrankedIs, OutrankedIsNext DEF MutexInv
  <1>16. /\ OSEventFreeList' \in Event \cup {NullEvent}
         /\ holds' \in [Tcb -> Event \cup {NullEvent}] /\ voided' \subseteq Tcb
    BY <1>1, TypesAre
  <1> QED BY <1>2, <1>6, <1>9, <1>10, <1>11, <1>12, <1>13, <1>14, <1>15, <1>16, MutexInvNext

---------------------------------------------------------------------------
\* Every step.
LEMMA MutexStepKeeps == ASSUME MutexInv, MutexSafeUse, MutexStep PROVE MutexInv'
  <1>1. CASE OSMutexPend_Take
    <2> PICK e : e = loc[OSTCBCur].ev
      OBVIOUS
    <2>1. /\ OSIntNesting = 0 /\ at[OSTCBCur] \in {"pend", "accept"} /\ Available(e) /\ Own(e, OSTCBCur)
          /\ holds' = [holds EXCEPT ![OSTCBCur] = e] /\ Return("app")
          /\ UNCHANGED <<OSRdyTbl, OSEventTbl, OSLockNesting, tcbVars, tblVars, cpuVars,
                         OSEventType, OSEventFreeList, voided, lowered>>
      BY <1>1 DEF OSMutexPend_Take, InTask
    <2>2. e \in Event
      BY <2>1, MutexFacts DEF MutexInv, InsideLive, Live
    <2> QED BY <2>1, <2>2, OwnKeeps
  <1>2. ASSUME NEW e \in Event, OSMutexAccept(e) PROVE MutexInv'
    <2>1. OSIntNesting = 0 /\ at[OSTCBCur] = "accept" /\ loc[OSTCBCur].ev = e
      BY <1>2 DEF OSMutexAccept, InTask
    <2>2. CASE Available(e)
      BY <1>2, <2>1, <2>2, OwnKeeps DEF OSMutexAccept
    <2>3. CASE ~Available(e)
      BY <1>2, <2>1, <2>3, NothingDone DEF OSMutexAccept, Inside, mutexVars, ecbVars
    <2> QED BY <2>2, <2>3
  <1>3. ASSUME NEW e \in Event, OSMutexPost_Refused(e) PROVE MutexInv'
    BY <1>3, NothingDone DEF OSMutexPost_Refused, InTask, Inside
  <1>4. ASSUME NEW e \in Event, NEW n \in Ticks, OSMutexPend(e, n) PROVE MutexInv'
    <2>1. "pend" \in Inside
      BY DEF Inside
    <2> QED BY <1>4, <2>1, MutexCheckKeeps DEF OSMutexPend
  <1>5. ASSUME NEW e \in Event, NEW s, NEW l \in {"accept", "post", "del", "delalways"},
               l = "accept" => Owned(OSTCBCur) \subseteq {e},
               Check(s, "MUTEX", e, l, 0), UNCHANGED <<holds, voided, lowered>>
        PROVE  MutexInv'
    <2>1. l \in Inside /\ l # "pend" /\ 0 \in Ticks
      BY CoreAssumption DEF Inside, Ticks
    <2> QED BY <1>5, <2>1, MutexCheckKeeps
  <1>6. ASSUME NEW e \in Event,
               \/ /\ Owned(OSTCBCur) \subseteq {e}
                  /\ Check("OSMutexAccept", "MUTEX", e, "accept", 0) /\ UNCHANGED <<holds, voided, lowered>>
               \/ Check("OSMutexPost", "MUTEX", e, "post", 0) /\ UNCHANGED <<holds, voided, lowered>>
               \/ Check("OSMutexDel", "MUTEX", e, "del", 0) /\ UNCHANGED <<holds, voided, lowered>>
               \/ Check("OSMutexDelAlways", "MUTEX", e, "delalways", 0) /\ UNCHANGED <<holds, voided, lowered>>
        PROVE  MutexInv'
    BY <1>5, <1>6
  <1> QED BY <1>1, <1>2, <1>3, <1>4, <1>6, WaitMutex, TimeoutMutex, DoneMutex, CreateMutex, CreateInitMutex,
             PostMutex, DelNoPendMutex, DelAlwaysMutex DEF MutexStep
---------------------------------------------------------------------------
\* The start of the system: no mutex yet, every task at the priority it was made with.
LEMMA MutexInitHolds == ASSUME MutexInit, MutexSafeUse PROVE MutexInv
  <1>1. /\ CoreInit /\ EventInit(<<>>, <<>>) /\ DOMAIN <<>> = {}
        /\ holds = [t \in Tcb |-> NullEvent] /\ voided = {} /\ lowered = FALSE
    BY DEF MutexInit
  <1>2. EventInv /\ RunsHighest /\ FreeListSound
    BY <1>1, MutexAssumption, EventInitHolds
  <1>3. /\ OSEventType = [e \in Event |-> "UNUSED"] /\ OSEventCnt = [e \in Event |-> 0]
        /\ Live = {} /\ \A t : Owned(t) = {}
    <2>1. OSEventType = [e \in Event |-> "UNUSED"] /\ OSEventCnt = [e \in Event |-> 0]
      BY <1>1 DEF EventInit
    <2> QED BY <2>1 DEF Live, Owned
  <1>4. OSEventPtr \in [Event -> Tcb \cup Event \cup {NullEvent}]
    <2> PICK rank : OSEventPtr = [e \in Event |->
                      IF \E f \in Event \ {} : e \in Event \ {} /\ rank[f] = rank[e] + 1
                      THEN CHOOSE f \in Event \ {} : rank[f] = rank[e] + 1 ELSE NullEvent]
      BY <1>1 DEF EventInit
    <2> QED OBVIOUS
  <1>5. OSEventFreeList \in Event \cup {NullEvent}
    <2> PICK k \in 0 .. Cardinality(Event) : \E blk \in [1 .. k -> Event] : Linked(k, blk)
      BY <1>2 DEF FreeListSound
    <2> PICK blk \in [1 .. k -> Event] : Linked(k, blk)
      OBVIOUS
    <2>1. k # 0 => 1 \in 1 .. k
      BY MutexAssumption, FS_CardinalityType
    <2> QED BY <2>1 DEF Linked
  <1>6. /\ \A t \in Tcb : at[t] = "app" /\ OSTCBEventPtr[t] = NullEvent /\ ~Pending(t)
        /\ OSTCBList = DOMAIN InitPrio \cup {Idle}
        /\ \A t \in Tcb : OSTCBPrio[t] = IF t \in DOMAIN InitPrio THEN InitPrio[t] ELSE OS_LOWEST_PRIO
        /\ \A p \in Prio : OSTCBPrioTbl[p] = IF \E t \in OSTCBList : OSTCBPrio[t] = p
                                             THEN CHOOSE t \in OSTCBList : OSTCBPrio[t] = p
                                             ELSE NullTcb
    BY <1>1 DEF CoreInit, Pending
  <1>7. TasksFixed /\ InsideLive /\ BytesExact /\ AvailableUnawaited /\ NoInversion
    BY <1>3, <1>6 DEF TasksFixed, InsideLive, BytesExact, AvailableUnawaited, NoInversion
  <1>8. OwnsOne /\ PipsApart
    BY <1>3, <1>6 DEF OwnsOne, PipsApart
  <1>9. HoldsExact /\ MutualExclusion
    BY <1>1, <1>3, <1>6 DEF HoldsExact, MutualExclusion
  <1>10. SwitchedRight
    BY <1>3 DEF SwitchedRight
  <1>11. PriorityGivenBack
    <2>1. \A t \in DOMAIN InitPrio : t \in Tcb /\ OSTCBPrio[t] = InitPrio[t]
      BY <1>6, MutexConstants
    <2>2. ASSUME NEW p \in Prio, NEW t \in DOMAIN InitPrio
          PROVE  OSTCBPrioTbl[p] = t <=> p \in {InitPrio[t], OSTCBPrio[t]}
      <3>1. t \in OSTCBList /\ t # NullTcb
        BY <1>6, MutexConstants
      <3>2. \A u \in OSTCBList : OSTCBPrio[u] = InitPrio[t] => u = t
        <4>1. \A u \in DOMAIN InitPrio : InitPrio[u] = InitPrio[t] => u = t
          BY MutexConstants
        <4>2. InitPrio[t] # OS_LOWEST_PRIO /\ Idle \notin DOMAIN InitPrio /\ Idle \in Tcb
          BY CoreAssumption DEF Tcb
        <4> QED BY <1>6, <2>1, <4>1, <4>2
      <3>3. OSTCBPrio[t] = InitPrio[t]
        BY <2>1
      <3>4. CASE p = InitPrio[t]
        BY <1>6, <3>1, <3>2, <3>3, <3>4
      <3>5. CASE p # InitPrio[t]
        <4>1. \A u \in OSTCBList : OSTCBPrio[u] = p => u # t
          BY <3>3, <3>5
        <4> QED BY <1>6, <3>1, <3>3, <3>5, <4>1
      <3> QED BY <3>4, <3>5
    <2> QED BY <2>1, <2>2 DEF PriorityGivenBack
  <1>12. MutexTypeOK /\ OutrankedOnlyAfterPost
    BY <1>1, <1>2, <1>3, <1>4, <1>5, OutrankedIs DEF MutexTypeOK, EventInv, CoreInv
  <1> QED BY <1>2, <1>7, <1>8, <1>9, <1>10, <1>11, <1>12 DEF MutexInv

\* Every step of the specification, and doing nothing.
LEMMA MutexStutters == ASSUME MutexInv, MutexSafeUse, UNCHANGED vars PROVE MutexInv'
  <1>1. UNCHANGED coreVars /\ UNCHANGED mutexVars
    BY DEF vars
  <1>2. /\ UNCHANGED <<at, loc, OSTCBPrio, OSTCBStat, OSTCBPendTO, OSTCBEventPtr, OSTCBPrioTbl, OSTCBList>>
        /\ UNCHANGED <<OSTCBCur, OSPrioCur, OSEventTbl, OSEventType, OSEventCnt, OSEventPtr>>
        /\ UNCHANGED <<ecbVars, OSEventFreeList, holds, voided, lowered>>
    BY <1>1 DEF coreVars, tcbVars, tblVars, cpuVars, mutexVars, ecbVars
  <1>3. EventInv' /\ PlacesKept /\ (RunsHighest => RunsHighest')
    BY <1>1, <1>2, EventStutters DEF MutexInv
  <1>4. FreeListSound'
    BY <1>2, <1>3, KernelKeepsList DEF MutexInv
  <1>5. PlacesQuiet
    BY <1>2 DEF PlacesQuiet, Pending, Inside
  <1>6. SwitchedRight' /\ lowered' \in BOOLEAN /\ OutrankedOnlyAfterPost'
    BY <1>2, <1>3, TypesAre, OutrankedIs, OutrankedIsNext DEF MutexInv, SwitchedRight, Pip, Owner, Live
  <1> QED BY <1>2, <1>3, <1>4, <1>5, <1>6, QuietMutex

LEMMA MutexNextKeeps == ASSUME MutexInv, MutexSafeUse, [Next]_vars PROVE MutexInv'
  BY MutexStepKeeps, MutexKernelKeeps, MutexStutters DEF Next

---------------------------------------------------------------------------
\* Priorities, owners, wait lists and OSTCBPrioTbl agree in every state: the inductive
\* invariant of os_mutex.c, whatever tasks and ticks do and in whatever order.
THEOREM MutexCorrect == ASSUME MutexSafeUse PROVE Spec => []MutexInv
  <1>1. MutexInit => MutexInv
    BY MutexInitHolds
  <1>2. MutexInv /\ [Next]_vars => MutexInv'
    BY MutexNextKeeps
  <1> QED BY <1>1, <1>2, PTL DEF Spec

\* The variables of the mutexes keep their types.
THEOREM MutexTypesHold == ASSUME MutexSafeUse PROVE Spec => []MutexTypeOK
  <1>1. MutexInv => MutexTypeOK
    BY DEF MutexInv
  <1> QED BY <1>1, MutexCorrect, PTL

\* No two tasks are inside one mutex, and each mutex that is owned belongs to a task that
\* was told so or will be: OSMutexPost, the timeout and the deletion race, and none of them
\* leaves a mutex with a task whose OSMutexPend failed.
THEOREM OneOwner == ASSUME MutexSafeUse PROVE Spec => []MutualExclusion
  <1>1. MutexInv => MutualExclusion
    BY DEF MutexInv
  <1> QED BY <1>1, MutexCorrect, PTL

\* The owner outranks every task that waits for its mutex, through changes of owner,
\* delays and suspensions: OSMutexPend's inheritance is never too late nor given back
\* too early.
THEOREM NoInversionEver == ASSUME MutexSafeUse PROVE Spec => []NoInversion
  <1>1. MutexInv => NoInversion
    BY DEF MutexInv
  <1> QED BY <1>1, MutexCorrect, PTL

\* A task has the priority it was created with unless it owns a mutex, and OSTCBPrioTbl
\* names it at these two priorities and at no other.
THEOREM PrioritiesGivenBack == ASSUME MutexSafeUse PROVE Spec => []PriorityGivenBack
  <1>1. MutexInv => PriorityGivenBack
    BY DEF MutexInv
  <1> QED BY <1>1, MutexCorrect, PTL

\* The running task is outranked past its OS_Sched only between an OSMutexPost that takes
\* its inherited priority away with nobody waiting and the next run of the scheduler.
THEOREM OutrankedAfterPost == ASSUME MutexSafeUse PROVE Spec => []OutrankedOnlyAfterPost
  <1>1. MutexInv => OutrankedOnlyAfterPost
    BY DEF MutexInv
  <1> QED BY <1>1, MutexCorrect, PTL
\* Also when priorities move, whatever is ready has its TCB at its entry of OSTCBPrioTbl.
THEOREM MutexDispatchSafe == ASSUME MutexSafeUse PROVE Spec => []ReadyIsDispatchable
  <1>1. MutexInv => ReadyIsDispatchable
    BY DEF MutexInv, EventInv, CoreInv
  <1> QED BY <1>1, MutexCorrect, PTL
---------------------------------------------------------------------------
\* The refinement.  Who waits, abstractly, is who has OSTCBEventPtr at the mutex, whatever
\* priority it is listed at.
PtrsTell == Waiters = {t \in DOMAIN InitPrio : OSTCBEventPtr[t] = mutex}
LEMMA WaitersByPtr == ASSUME MutexSafeUse, mutex \in Event PROVE MutexInv => PtrsTell
  <1> SUFFICES ASSUME MutexInv PROVE PtrsTell
    OBVIOUS
  <1>1. ASSUME NEW t \in DOMAIN InitPrio PROVE OSTCBPrio[t] \in OSEventTbl[mutex] <=> OSTCBEventPtr[t] = mutex
    <2>1. t \in OSTCBList /\ OSTCBPrioTbl[OSTCBPrio[t]] = t
      BY MutexFacts, TaskIs
    <2>2. mutex # NullEvent
      BY CoreAssumption
    <2> QED BY <2>1, <2>2, TaskIs, WaiterOwnsNone
  <1> QED BY <1>1 DEF PtrsTell, Waiters

LEMMA WaitersByPtrNext == ASSUME MutexSafeUse, mutex \in Event PROVE MutexInv' => PtrsTell'
  <1>1. MutexInv => PtrsTell
    BY WaitersByPtr
  <1> QED BY <1>1, PTL

\* The steps that keep the owner and do not let anybody wait.
HolderStays == UNCHANGED OSEventPtr[mutex] /\ UNCHANGED OSEventType[mutex]
LEMMA NothingMaps ==
  ASSUME PtrsTell, PtrsTell', HolderStays,
         \A t \in DOMAIN InitPrio : OSTCBEventPtr'[t] = mutex <=> OSTCBEventPtr[t] = mutex
  PROVE  UNCHANGED <<Holder, Waiters>>
  BY DEF PtrsTell, HolderStays, Holder, Owner

\* Taking the mutex.
LEMMA TakeMaps ==
  ASSUME MutexInv, MutexInv', MutexSafeUse, mutex \in Event, PtrsTell, PtrsTell',
         NEW e \in Event, at[OSTCBCur] \in {"pend", "accept"}, loc[OSTCBCur].ev = e,
         Available(e), Own(e, OSTCBCur), UNCHANGED <<OSTCBEventPtr, OSEventType>>
  PROVE  [Abstract!Next]_<<Holder, Waiters>>
  <1> PICK me : me = OSTCBCur
    OBVIOUS
  <1>1. /\ OSEventPtr' = [OSEventPtr EXCEPT ![e] = me] /\ e \in Live /\ me \in Tcb /\ me # NullEvent
    BY MutexFacts, MutexAssumption DEF Own, MutexInv, InsideLive
  <1>2. CASE e = mutex
    <2>1. OSEventType[mutex] = "MUTEX" /\ OSEventType'[mutex] = "MUTEX"
      BY <1>1, <1>2 DEF Live
    <2>2. Holder = NullEvent
      BY <1>1, <1>2, <2>1, OwnerIs DEF Holder
    <2>3. Holder' = me
      BY <1>1, <1>2, <2>1, TypesAre DEF Holder, Owner
    <2>4. me \in DOMAIN InitPrio
      BY <1>1, <1>2, <2>1, <2>3 DEF MutexInv, BytesExact, Live, Holder
    <2>5. Waiters = {} /\ Waiters' = Waiters
      BY <1>1, <1>2 DEF MutexInv, AvailableUnawaited, Waiters, PtrsTell
    <2> QED BY <2>2, <2>3, <2>4, <2>5 DEF Abstract!Next, Abstract!Take
  <1>3. CASE e # mutex
    <2>1. HolderStays
      BY <1>1, <1>3, TypesAre DEF HolderStays
    <2> QED BY <2>1, NothingMaps
  <1> QED BY <1>2, <1>3

\* Beginning to wait for it.
LEMMA WaitMaps ==
  ASSUME MutexInv, MutexSafeUse, mutex \in Event, PtrsTell, PtrsTell', OSMutexPend_Wait
  PROVE  [Abstract!Next]_<<Holder, Waiters>>
  <1> PICK me : me = OSTCBCur
    OBVIOUS
  <1> PICK e : e = loc[me].ev
    OBVIOUS
  <1>1. /\ InTask("pend") /\ ~Available(e) /\ UNCHANGED ecbVars
        /\ OSTCBEventPtr' = [OSTCBEventPtr EXCEPT ![me] = e]
    BY DEF OSMutexPend_Wait, mutexVars
  <1>2. /\ me \in Tcb /\ me \in DOMAIN InitPrio /\ OSTCBEventPtr[me] = NullEvent /\ e \in Live
        /\ Owner(e) # NullEvent /\ Owner(e) # me
    BY <1>1, WaiterIs
  <1>3. HolderStays /\ DOMAIN OSTCBEventPtr = Tcb /\ NullEvent # mutex /\ DOMAIN InitPrio \subseteq Tcb
    BY <1>1, MutexFacts, MutexConstants, CoreAssumption DEF HolderStays, ecbVars, CoreInv, KernelTypeOK
  <1>4. CASE e = mutex
    <2>1. Holder = Owner(mutex) /\ Holder' = Holder
      BY <1>2, <1>3, <1>4 DEF Holder, HolderStays, Owner, Live
    <2>2. Waiters' = Waiters \cup {me} /\ me \notin Waiters
      BY <1>1, <1>2, <1>3, <1>4 DEF PtrsTell
    <2> QED BY <1>2, <1>4, <2>1, <2>2 DEF Abstract!Next, Abstract!Wait
  <1>5. CASE e # mutex
    <2>1. \A t \in DOMAIN InitPrio : OSTCBEventPtr'[t] = mutex <=> OSTCBEventPtr[t] = mutex
      BY <1>1, <1>2, <1>3, <1>5
    <2> QED BY <1>3, <2>1, NothingMaps
  <1> QED BY <1>4, <1>5

\* Leaving OSMutexPend: a task that still was in the wait list timed out.
LEMMA LeaveMaps ==
  ASSUME MutexInv, MutexSafeUse, mutex \in Event, PtrsTell, PtrsTell', UNCHANGED ecbVars,
         OSTCBEventPtr' = [OSTCBEventPtr EXCEPT ![OSTCBCur] = NullEvent]
  PROVE  [Abstract!Next]_<<Holder, Waiters>>
  <1> PICK me : me = OSTCBCur
    OBVIOUS
  <1>1. HolderStays /\ DOMAIN OSTCBEventPtr = Tcb /\ NullEvent # mutex /\ DOMAIN InitPrio \subseteq Tcb
    BY MutexFacts, MutexConstants, CoreAssumption DEF HolderStays, ecbVars, CoreInv, KernelTypeOK
  <1>2. Holder' = Holder
    BY <1>1 DEF Holder, HolderStays, Owner
  <1>3. Waiters' = Waiters \ {me}
    BY <1>1 DEF PtrsTell
  <1>4. Waiters \subseteq DOMAIN InitPrio
    BY DEF Waiters
  <1>5. CASE me \in Waiters
    BY <1>2, <1>3, <1>4, <1>5 DEF Abstract!Next, Abstract!TimeOut
  <1>6. CASE me \notin Waiters
    BY <1>2, <1>3, <1>6
  <1> QED BY <1>5, <1>6

\* Posting it: released, or passed to the waiting task of the highest priority of its own,
\* for who waits inherits nothing.
LEMMA PostMaps ==
  ASSUME MutexInv, MutexSafeUse, mutex \in Event, PtrsTell, PtrsTell', NEW e \in Event, OSMutexPost(e)
  PROVE  [Abstract!Next]_<<Holder, Waiters>>
  <1> PICK me : me = OSTCBCur
    OBVIOUS
  <1>1. /\ InTask("post") /\ loc[me].ev = e /\ Owner(e) = me /\ UNCHANGED OSEventType
    BY DEF OSMutexPost
  <1>2. e \in Live /\ me # NullEvent
    BY <1>1, PosterIs DEF InTask
  <1>3. OSEventType[e] = "MUTEX" /\ DOMAIN OSEventPtr = Event /\ DOMAIN InitPrio \subseteq Tcb
    BY <1>2, MutexConstants, TypesAre DEF Live
  <1>4. CASE OSEventTbl[e] = {}
    <2>1. OSEventPtr' = [OSEventPtr EXCEPT ![e] = NullEvent] /\ UNCHANGED OSTCBEventPtr
      BY <1>4 DEF OSMutexPost
    <2>2. CASE e = mutex
      <3>1. Holder = me /\ Holder' = NullEvent
        BY <1>1, <1>3, <2>1, <2>2 DEF Holder, Owner
      <3>2. Waiters = {} /\ Waiters' = Waiters
        BY <1>4, <2>1, <2>2 DEF Waiters, PtrsTell
      <3> QED BY <1>2, <3>1, <3>2 DEF Abstract!Next, Abstract!Release
    <2>3. CASE e # mutex
      <3>1. HolderStays
        BY <1>1, <1>3, <2>1, <2>3 DEF HolderStays
      <3> QED BY <2>1, <3>1, NothingMaps
    <2> QED BY <2>2, <2>3
  <1>5. CASE OSEventTbl[e] # {}
    <2> PICK S : S = IF Lowers(e) THEN RdyAtPrio(OSTCBCur, MPrio(e)) ELSE OSRdyTbl
      OBVIOUS
    <2>0. PICK p \in OSEventTbl[e] :
            HeirOf(e, p) /\ EventTaskRdy(S, e, {p}, "MUTEX") /\ Own(e, OSTCBPrioTbl[p])
      BY <1>5 DEF OSMutexPost
    <2>1. /\ p \in OSEventTbl[e] /\ HeirOf(e, p)
          /\ OSTCBEventPtr' = [t \in Tcb |-> IF t = OSTCBPrioTbl[p] THEN NullEvent ELSE OSTCBEventPtr[t]]
          /\ OSEventPtr' = [OSEventPtr EXCEPT ![e] = OSTCBPrioTbl[p]]
      BY <2>0 DEF EventTaskRdy, Own
    <2> PICK w : w = OSTCBPrioTbl[p]
      OBVIOUS
    <2>2. w \in DOMAIN InitPrio /\ InitPrio[w] = p /\ OSTCBPrio[w] = p /\ OSTCBEventPtr[w] = e
      BY WaiterOwnsNone
    <2>3. e # NullEvent
      BY CoreAssumption
    <2>4. CASE e = mutex
      <3>1. Holder = me /\ Holder' = w
        BY <1>1, <1>3, <2>1, <2>4 DEF Holder, Owner
      <3>2. w \in Waiters /\ Waiters' = Waiters \ {w}
        BY <1>3, <2>1, <2>2, <2>3, <2>4 DEF PtrsTell
      <3>3. \A u \in Waiters : InitPrio[w] <= InitPrio[u]
        <4>1. ASSUME NEW u \in Waiters PROVE p <= InitPrio[u]
          <5> PICK q : q = OSTCBPrio[u]
            OBVIOUS
          <5>1. u \in DOMAIN InitPrio /\ q \in OSEventTbl[e]
            BY <2>4 DEF Waiters
          <5>2. OSTCBPrioTbl[q] = u
            BY <5>1, MutexFacts, TaskIs
          <5>3. InitPrio[u] = q
            BY <5>1, <5>2, WaiterOwnsNone
          <5> QED BY <2>1, <5>1, <5>3 DEF HeirOf, HighestIn
        <4> QED BY <2>2, <4>1
      <3> QED BY <1>2, <2>2, <3>1, <3>2, <3>3 DEF Abstract!Next, Abstract!Pass
    <2>5. CASE e # mutex
      <3>1. HolderStays
        BY <1>1, <1>3, <2>1, <2>5 DEF HolderStays
      <3>2. \A t \in DOMAIN InitPrio : OSTCBEventPtr'[t] = mutex <=> OSTCBEventPtr[t] = mutex
        BY <1>3, <2>1, <2>2, <2>5, CoreAssumption
      <3> QED BY <3>1, <3>2, NothingMaps
    <2> QED BY <2>4, <2>5
  <1> QED BY <1>4, <1>5
\* Deleting it.
LEMMA DelMaps ==
  ASSUME MutexInv, MutexSafeUse, mutex \in Event, PtrsTell, PtrsTell', NEW e \in Event,
         OSMutexDel_NoPend(e) \/ OSMutexDel_Always(e)
  PROVE  [Abstract!Next]_<<Holder, Waiters>>
  <1>1. DOMAIN OSEventPtr = Event /\ DOMAIN OSEventType = Event /\ DOMAIN InitPrio \subseteq Tcb
    BY MutexConstants, TypesAre
  <1>2. ASSUME FreeEvent(e), Waiters' = {}, e = mutex PROVE [Abstract!Next]_<<Holder, Waiters>>
    <2>1. Holder' = NullEvent
      BY <1>1, <1>2 DEF FreeEvent, Holder
    <2> QED BY <1>2, <2>1 DEF Abstract!Next, Abstract!Close
  <1>3. ASSUME FreeEvent(e), e # mutex PROVE HolderStays
    BY <1>1, <1>3 DEF FreeEvent, HolderStays
  <1>4. CASE OSMutexDel_NoPend(e)
    <2>1. UNCHANGED OSTCBEventPtr
      BY <1>4 DEF OSMutexDel_NoPend, tcbVars
    <2>2. CASE OSEventTbl[e] = {}
      <3>1. FreeEvent(e)
        BY <1>4, <2>2 DEF OSMutexDel_NoPend
      <3>2. e = mutex => Waiters' = {}
        BY <2>1, <2>2 DEF Waiters, PtrsTell
      <3> QED BY <1>2, <1>3, <2>1, <3>1, <3>2, NothingMaps
    <2>3. CASE OSEventTbl[e] # {}
      <3>1. HolderStays
        BY <1>4, <2>3 DEF OSMutexDel_NoPend, HolderStays, ecbVars
      <3> QED BY <2>1, <3>1, NothingMaps
    <2> QED BY <2>2, <2>3
  <1>5. CASE OSMutexDel_Always(e)
    <2> PICK W : W = {OSTCBPrioTbl[p] : p \in OSEventTbl[e]}
      OBVIOUS
    <2>1. /\ OSEventTbl' = [OSEventTbl EXCEPT ![e] = @ \ OSEventTbl[e]] /\ FreeEvent(e)
          /\ OSTCBEventPtr' = [t \in Tcb |-> IF t \in W THEN NullEvent ELSE OSTCBEventPtr[t]]
      BY <1>5 DEF OSMutexDel_Always, EventTaskRdy
    <2>2. e = mutex => Waiters' = {}
      BY <2>1, MutexFacts DEF Waiters, CoreInv, KernelTypeOK
    <2>3. \A t \in W : OSTCBEventPtr[t] = e
      BY WaiterOwnsNone
    <2>4. e # mutex => \A t \in DOMAIN InitPrio : OSTCBEventPtr'[t] = mutex <=> OSTCBEventPtr[t] = mutex
      BY <1>1, <2>1, <2>3, CoreAssumption
    <2> QED BY <1>2, <1>3, <2>1, <2>2, <2>4, NothingMaps
  <1> QED BY <1>4, <1>5

\* Making a mutex: of a block that was in nobody's use.
LEMMA MakeMaps ==
  ASSUME MutexInv, MutexSafeUse, mutex \in Event, PtrsTell, PtrsTell', OSMutexCreate_Init
  PROVE  UNCHANGED <<Holder, Waiters>>
  <1> PICK e : e = loc[OSTCBCur].ev
    OBVIOUS
  <1>1. /\ InTask("create") /\ Return("app") /\ UNCHANGED tcbVars
        /\ OSEventType' = [OSEventType EXCEPT ![e] = "MUTEX"]
        /\ OSEventPtr' = [OSEventPtr EXCEPT ![e] = NullEvent]
    BY DEF OSMutexCreate_Init
  <1>2. e \in Event /\ OSEventType[e] = "UNUSED" /\ DOMAIN OSEventPtr = Event /\ DOMAIN OSEventType = Event
    BY <1>1, MutexFacts, MakerLeaves, TypesAre
  <1>3. Holder' = Holder
    BY <1>1, <1>2 DEF Holder, Owner
  <1>4. Waiters' = Waiters
    BY <1>1 DEF PtrsTell, tcbVars
  <1> QED BY <1>3, <1>4

LEMMA MutexStepMaps ==
  ASSUME MutexInv, MutexInv', MutexSafeUse, mutex \in Event, [Next]_vars
  PROVE  [Abstract!Next]_<<Holder, Waiters>>
  <1>1. PtrsTell /\ PtrsTell'
    BY WaitersByPtr, WaitersByPtrNext
  <1>2. ASSUME UNCHANGED <<OSTCBEventPtr, OSEventPtr, OSEventType>> PROVE UNCHANGED <<Holder, Waiters>>
    BY <1>1, <1>2, NothingMaps DEF HolderStays
  <1>3. CASE UNCHANGED vars
    BY <1>2, <1>3 DEF vars, coreVars, tcbVars, mutexVars, ecbVars
  <1>4. CASE KernelStep /\ UNCHANGED ecbVars
    BY <1>2, <1>4, KernelLeaves DEF ecbVars
  <1>5. CASE OSMutexPend_Take
    <2>1. /\ at[OSTCBCur] = "pend" /\ Available(loc[OSTCBCur].ev) /\ Own(loc[OSTCBCur].ev, OSTCBCur)
          /\ UNCHANGED <<OSTCBEventPtr, OSEventType>>
      BY <1>5 DEF OSMutexPend_Take, InTask, tcbVars
    <2>2. loc[OSTCBCur].ev \in Event
      BY <2>1, MutexFacts DEF MutexInv, InsideLive, Live
    <2> QED BY <1>1, <2>1, <2>2, TakeMaps
  <1>6. ASSUME NEW e \in Event, OSMutexAccept(e) PROVE [Abstract!Next]_<<Holder, Waiters>>
    <2>1. at[OSTCBCur] = "accept" /\ loc[OSTCBCur].ev = e /\ UNCHANGED <<OSTCBEventPtr, OSEventType>>
      BY <1>6 DEF OSMutexAccept, InTask, tcbVars
    <2>2. CASE Available(e)
      BY <1>1, <1>6, <2>1, <2>2, TakeMaps DEF OSMutexAccept
    <2>3. CASE ~Available(e)
      BY <1>2, <1>6, <2>1, <2>3 DEF OSMutexAccept
    <2> QED BY <2>2, <2>3
  <1>7. CASE OSMutexPend_Wait
    BY <1>1, <1>7, WaitMaps
  <1>8. CASE OSMutexPend_Timeout \/ OSMutexPend_Done
    BY <1>1, <1>8, LeaveMaps DEF OSMutexPend_Timeout, OSMutexPend_Done, OS_EventTO
  <1>9. ASSUME NEW p \in Pips, OSMutexCreate(p) PROVE UNCHANGED <<Holder, Waiters>>
    BY <1>2, <1>9 DEF OSMutexCreate, tcbVars
  <1>10. ASSUME NEW e, OSMutexPost_Refused(e) PROVE UNCHANGED <<Holder, Waiters>>
    BY <1>2, <1>10 DEF OSMutexPost_Refused, tcbVars, mutexVars, ecbVars
  <1>11. ASSUME NEW s, NEW e, NEW l, NEW n, Check(s, "MUTEX", e, l, n) PROVE UNCHANGED <<Holder, Waiters>>
    BY <1>2, <1>11 DEF Check, tcbVars, ecbVars
  <1>12. ASSUME NEW e \in Event, OSMutexPost(e) PROVE [Abstract!Next]_<<Holder, Waiters>>
    BY <1>1, <1>12, PostMaps
  <1>13. ASSUME NEW e \in Event, OSMutexDel_NoPend(e) \/ OSMutexDel_Always(e)
         PROVE  [Abstract!Next]_<<Holder, Waiters>>
    BY <1>1, <1>13, DelMaps
  <1>14. CASE OSMutexCreate_Init
    BY <1>1, <1>14, MakeMaps
  <1>15. CASE MutexStep
    BY <1>5, <1>6, <1>7, <1>8, <1>9, <1>10, <1>11, <1>12, <1>13, <1>14, <1>15
       DEF MutexStep, OSMutexPend
  <1> QED BY <1>3, <1>4, <1>15 DEF Next

\* Every mutex, with its inheritance, timeouts and deletions, implements the abstract lock:
\* one owner, released by nobody else, and passed to the waiting task whose own priority
\* is the highest.
THEOREM MutexImplementsLock == ASSUME MutexSafeUse, mutex \in Event PROVE Spec => ImplementsPrioLock
  <1>1. MutexInit => MutexInv /\ Abstract!Init
    <2> SUFFICES ASSUME MutexInit PROVE MutexInv /\ Abstract!Init
      OBVIOUS
    <2>1. OSEventType[mutex] = "UNUSED" /\ OSEventTbl[mutex] = {}
      BY DEF MutexInit, EventInit, CoreInit
    <2> QED BY <2>1, MutexInitHolds DEF Abstract!Init, Holder, Waiters
  <1>2. MutexInv /\ [Next]_vars => MutexInv' /\ [Abstract!Next]_<<Holder, Waiters>>
    BY MutexNextKeeps, MutexStepMaps
  <1> QED BY <1>1, <1>2, PTL DEF Spec, ImplementsPrioLock, Abstract!Spec


=============================================================================
