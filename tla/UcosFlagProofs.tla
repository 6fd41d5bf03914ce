--------------------------- MODULE UcosFlagProofs ---------------------------
(***************************************************************************)
(* Event flags on the kernel, for any number of tasks, priorities, groups  *)
(* and flags: FlagInv is an invariant.  As for the semaphores, the         *)
(* kernel's own steps are shown to keep what the event flags add, and the  *)
(* services of the event flags to keep both.                               *)
(***************************************************************************)
EXTENDS UcosFlag, UcosKernelProofs

\* What WaitInv says of one task in use.
LEMMA NodeOf ==
  ASSUME FlagInv, NEW t \in OSTCBList, ~Deleting(t)
  PROVE  /\ t \in Tcb
         /\ OSTCBStat[t] \subseteq {"FLAG", "SUSPEND"}
         /\ t \in OSTCBFlagNode <=> OSTCBPendTO[t] \/ "FLAG" \in OSTCBStat[t]
         /\ OSTCBPendTO[t] => OSTCBDly[t] = 0
  BY DEF FlagInv, WaitInv, NodeExact, KernelInv, CoreInv, KernelTypeOK

\* A linked node is that of a task in use, in the middle of a pend for the group.
LEMMA LinkedIs ==
  ASSUME FlagInv
  PROVE  /\ \A g \in Event : \A t \in OSFlagWaitList[g] :
              /\ t \in OSTCBList /\ t \in Tcb /\ ~Deleting(t) /\ loc[t].ev = g
              /\ at[t] \in {"pendwait", "pendwake"} /\ t \in OSTCBFlagNode
         /\ \A t \in OSTCBFlagNode :
              /\ t \in OSTCBList /\ t \in Tcb /\ at[t] \in {"pendwait", "pendwake"}
              /\ loc[t].ev \in Event /\ t \in OSFlagWaitList[loc[t].ev]
  BY DEF FlagInv, WaitInv, NodesAlive, GroupsKnown, Inside, KernelInv, CoreInv, KernelTypeOK

\* A task that runs in the middle of OSFlagPend is ready: it waits for nothing.
LEMMA RunnerAwake ==
  ASSUME KernelInv, NoPendLocked, OSIntNesting = 0, at[OSTCBCur] \in {"pend", "pendwake"}
  PROVE  /\ OSTCBCur \in Tcb /\ OSTCBCur \in OSTCBList /\ OSTCBCur # Idle
         /\ OSLockNesting = 0 /\ \A t \in Tcb : ~Deleting(t)
         /\ OSTCBStat[OSTCBCur] = {} /\ OSTCBDly[OSTCBCur] = 0
         /\ OSTCBPrioTbl[OSTCBPrio[OSTCBCur]] = OSTCBCur /\ OSTCBPrio[OSTCBCur] \in OSRdyTbl
  <1>1. /\ OSTCBCur \in Tcb /\ OSTCBCur \in OSTCBList /\ OSLockNesting \in Nat /\ OSTCBCur # Idle
    BY DEF KernelInv, CoreInv, KernelTypeOK, CurrentKnown, IdleStays
  <1>2. OSLockNesting = 0
    BY <1>1 DEF NoPendLocked
  <1>3. OSTCBPrio[OSTCBCur] \in OSRdyTbl
    BY <1>1, <1>2 DEF KernelInv, CoreInv, RunsHighest, Settled, HighestIn
  <1>4. \A t \in Tcb : ~Deleting(t)
    BY DEF Deleting
  <1> QED BY <1>1, <1>2, <1>3, <1>4 DEF KernelInv, CoreInv, ReadyIffNotWaiting, TablesAgree

\* After a switch the running task is awake, if it is in the middle of OSFlagPend.
LEMMA AwakeNext ==
  ASSUME KernelInv', NoPendLocked', OSIntNesting' = 0
  PROVE  CurrentAwake'
  <1> SUFFICES ASSUME at'[OSTCBCur'] = "pendwake"
               PROVE  OSTCBStat'[OSTCBCur'] = {} /\ OSTCBDly'[OSTCBCur'] = 0
    BY DEF CurrentAwake
  <1>1. /\ OSTCBCur' \in Tcb /\ OSTCBCur' \in OSTCBList' /\ OSLockNesting' \in Nat
    BY DEF KernelInv, CoreInv, KernelTypeOK, CurrentKnown
  <1>2. OSLockNesting' = 0
    BY <1>1 DEF NoPendLocked
  <1>3. OSTCBPrio'[OSTCBCur'] \in OSRdyTbl'
    BY <1>1, <1>2 DEF KernelInv, CoreInv, RunsHighest, Settled, HighestIn
  <1>4. \A t \in Tcb : ~Deleting(t)'
    BY DEF Deleting
  <1> QED BY <1>1, <1>3, <1>4 DEF KernelInv, CoreInv, ReadyIffNotWaiting

---------------------------------------------------------------------------
\* Where a kernel step may leave a task: it stays inside OSFlagPend or outside of it,
\* or it is deleted.
Stays(t) ==
  \/ at'[t] = at[t] /\ loc'[t] = loc[t]
  \/ at[t] = "pendwait" /\ at'[t] = "pendwake" /\ loc'[t] = loc[t]
  \/ ~Inside(t) /\ at'[t] \notin {"pend", "pendwait", "pendwake", "accept"}
  \/ t \notin OSTCBFlagNode /\ at'[t] = "app"

\* A wait that a kernel step ends is marked as timed out, and a new task has none.
WaitKept(t) ==
  \/ /\ t \in OSTCBList /\ ~Deleting(t) /\ OSTCBStat'[t] \subseteq {"FLAG", "SUSPEND"}
     /\ OSTCBPendTO'[t] \/ "FLAG" \in OSTCBStat'[t] <=> OSTCBPendTO[t] \/ "FLAG" \in OSTCBStat[t]
     /\ OSTCBPendTO'[t] => OSTCBDly'[t] = 0
  \/ t \notin OSTCBFlagNode /\ OSTCBStat'[t] = {} /\ ~OSTCBPendTO'[t]

\* The arguments of those who stay inside stay.
LEMMA ArgsStay ==
  ASSUME FlagInv, DropArgs, NEW t \in Tcb, Stays(t)
  PROVE  /\ at'[t] # "app" => /\ mask'[t] = mask[t] /\ wait'[t] = wait[t]
                              /\ OSTCBFlagsRdy'[t] = OSTCBFlagsRdy[t]
         /\ OSTCBFlagsRdy'[t] # {} => at'[t] # "app" /\ OSTCBFlagsRdy[t] # {}
         /\ t \in OSTCBFlagNode => at'[t] \in {"pendwait", "pendwake"} /\ loc'[t] = loc[t]
         /\ Inside(t)' => Inside(t) /\ loc'[t] = loc[t] /\ at'[t] # "app"
         /\ at'[t] = "pend" => at[t] = "pend" /\ loc'[t] = loc[t]
  <1> DEFINE gone == {u \in Tcb : at[u] \notin {"app", "sched"} /\ at'[u] = "app"}
  <1>1. /\ mask'[t] = IF t \in gone THEN {} ELSE mask[t]
        /\ wait'[t] = IF t \in gone THEN NoWait ELSE wait[t]
        /\ OSTCBFlagsRdy'[t] = IF t \in gone THEN {} ELSE OSTCBFlagsRdy[t]
    BY DEF DropArgs
  <1>2. t \in gone <=> at[t] \notin {"app", "sched"} /\ at'[t] = "app"
    OBVIOUS
  <1> HIDE DEF gone
  <1>3. OSTCBFlagsRdy[t] # {} => at[t] \in {"pendwait", "pendwake"}
    BY DEF FlagInv, KernelInv, WaitInv, FlagsRdyRight
  <1>4. t \in OSTCBFlagNode => at[t] \in {"pendwait", "pendwake"}
    BY LinkedIs
  <1>5. OSTCBFlagsRdy'[t] # {} => at'[t] # "app" /\ OSTCBFlagsRdy[t] # {}
    BY <1>1, <1>2, <1>3
  <1>6. /\ t \in OSTCBFlagNode => at'[t] \in {"pendwait", "pendwake"} /\ loc'[t] = loc[t]
        /\ Inside(t)' => Inside(t) /\ loc'[t] = loc[t] /\ at'[t] # "app"
        /\ at'[t] = "pend" => at[t] = "pend" /\ loc'[t] = loc[t]
    BY <1>4 DEF Stays, Inside
  <1> QED BY <1>1, <1>2, <1>5, <1>6

\* A step of the kernel keeps FlagInv, if it unlinks the nodes of the tasks D that it
\* deletes, and of nobody else.
LEMMA FlagFrame ==
  ASSUME FlagInv, KernelInv', DropArgs,
         UNCHANGED <<OSFlagType, OSFlagFlags, OSFlagFreeList>>,
         NEW D \in SUBSET Tcb, OSTCBFlagNode' = OSTCBFlagNode \ D,
         OSFlagWaitList' = [g \in Event |-> OSFlagWaitList[g] \ D],
         \A t \in Tcb : Stays(t),
         \A t \in OSTCBList \ D : ~Deleting(t) => t \in OSTCBList' /\ ~Deleting(t)',
         \A t \in OSTCBList' : ~Deleting(t)' => WaitKept(t) /\ t \notin D,
         \A t \in Tcb \ OSTCBList' : at'[t] \in {"app", "sched"},
         NewTcbsClean', NoPendLocked', CurrentAwake'
  PROVE  FlagInv'
  <1>1. OSTCBList' \subseteq Tcb /\ OSTCBList \subseteq Tcb
    BY DEF FlagInv, KernelInv, CoreInv, KernelTypeOK
  <1>2. FlagTypeOK'
    <2>1. /\ mask' \in [Tcb -> SUBSET Bit] /\ wait' \in [Tcb -> WaitType]
          /\ OSTCBFlagsRdy' \in [Tcb -> SUBSET Bit]
      BY DEF DropArgs, FlagInv, KernelInv, FlagTypeOK, NoWait, WaitType
    <2>2. OSFlagWaitList' \in [Event -> SUBSET Tcb] /\ OSTCBFlagNode' \subseteq Tcb
      BY DEF FlagInv, KernelInv, FlagTypeOK
    <2> QED BY <2>1, <2>2 DEF FlagInv, FlagTypeOK, KernelInv, CoreInv
  <1>3. NodesAlive'
    <2>1. ASSUME NEW g \in Event, NEW t \in OSFlagWaitList'[g]
          PROVE  /\ t \in OSTCBList' /\ ~Deleting(t)'
                 /\ at'[t] \in {"pendwait", "pendwake"} /\ loc'[t].ev = g /\ t \in OSTCBFlagNode'
      <3>1. /\ t \in OSTCBList /\ t \in Tcb /\ ~Deleting(t) /\ loc[t].ev = g /\ t \in OSTCBFlagNode
            /\ t \notin D
        BY LinkedIs
      <3> QED BY <3>1, ArgsStay
    <2>2. ASSUME NEW t \in OSTCBFlagNode' PROVE t \in OSFlagWaitList'[loc'[t].ev]
      <3>1. t \in Tcb /\ loc[t].ev \in Event /\ t \in OSFlagWaitList'[loc[t].ev] /\ t \in OSTCBFlagNode
        BY LinkedIs
      <3> QED BY <3>1, ArgsStay
    <2>3. \A g \in Event : OSFlagType[g] = "UNUSED" => OSFlagWaitList'[g] = {}
      BY DEF FlagInv, KernelInv, WaitInv, NodesAlive
    <2> QED BY <2>1, <2>2, <2>3 DEF NodesAlive
  <1>4. NodeExact'
    <2> SUFFICES ASSUME NEW t \in OSTCBList', ~Deleting(t)'
                 PROVE  /\ OSTCBStat'[t] \subseteq {"FLAG", "SUSPEND"}
                        /\ t \in OSTCBFlagNode' <=> OSTCBPendTO'[t] \/ "FLAG" \in OSTCBStat'[t]
                        /\ OSTCBPendTO'[t] => OSTCBDly'[t] = 0
      BY DEF NodeExact
    <2> QED BY NodeOf DEF WaitKept
  <1>5. GroupsKnown'
    <2>1. ASSUME NEW t \in Tcb, Inside(t)' PROVE loc'[t].ev \in Event
      BY <2>1, ArgsStay DEF FlagInv, KernelInv, WaitInv, GroupsKnown
    <2>2. ASSUME NEW t \in Tcb, at'[t] = "pend" PROVE OSFlagType[loc'[t].ev] = "FLAG"
      BY <2>2, ArgsStay DEF FlagInv, KernelInv, WaitInv, GroupsKnown
    <2>3. ASSUME NEW t \in OSTCBFlagNode'
          PROVE  t \in OSTCBList' /\ at'[t] \in {"pendwait", "pendwake"}
      <3>1. t \in OSTCBList /\ t \in Tcb /\ ~Deleting(t) /\ t \in OSTCBFlagNode /\ t \notin D
        BY LinkedIs
      <3> QED BY <3>1, ArgsStay
    <2> QED BY <2>1, <2>2, <2>3 DEF GroupsKnown
  <1>6. FlagsRdyRight'
    <2> SUFFICES ASSUME NEW t \in Tcb, OSTCBFlagsRdy'[t] # {}
                 PROVE  /\ at'[t] \in {"pendwait", "pendwake"} /\ t \notin OSTCBFlagNode'
                        /\ IF wait'[t].all THEN OSTCBFlagsRdy'[t] = mask'[t]
                           ELSE OSTCBFlagsRdy'[t] \subseteq mask'[t]
      BY DEF FlagsRdyRight
    <2>1. /\ at'[t] # "app" /\ OSTCBFlagsRdy[t] # {} /\ mask'[t] = mask[t] /\ wait'[t] = wait[t]
          /\ OSTCBFlagsRdy'[t] = OSTCBFlagsRdy[t]
      BY ArgsStay
    <2>2. /\ at[t] \in {"pendwait", "pendwake"} /\ t \notin OSTCBFlagNode
          /\ IF wait[t].all THEN OSTCBFlagsRdy[t] = mask[t] ELSE OSTCBFlagsRdy[t] \subseteq mask[t]
      BY <2>1 DEF FlagInv, KernelInv, WaitInv, FlagsRdyRight
    <2>3. at'[t] \in {"pendwait", "pendwake"}
      BY <2>1, <2>2 DEF Stays, Inside
    <2> QED BY <2>1, <2>2, <2>3
  <1>7. OthersOutside'
    BY DEF OthersOutside
  <1>8. SensesAgree'
    <2>1. \A t \in Tcb : Inside(t)' => Inside(t) /\ loc'[t] = loc[t] /\ wait'[t] = wait[t]
      BY ArgsStay
    <2> QED BY <2>1 DEF SensesAgree, FlagInv, KernelInv, WaitInv
  <1>9. OneSense => NoMissedFlags'
    <2> SUFFICES ASSUME OneSense, NEW g \in Event, NEW t \in OSFlagWaitList[g]
                 PROVE  ~Enough(OSFlagFlags[g], mask'[t], wait'[t])
      BY DEF NoMissedFlags, Enough, FlagsRdy
    <2>1. ~Enough(OSFlagFlags[g], mask[t], wait[t])
      BY DEF FlagInv, KernelInv, NoMissedFlags
    <2>2. t \in Tcb /\ t \in OSTCBFlagNode
      BY LinkedIs
    <2>3. at'[t] # "app" /\ mask'[t] = mask[t] /\ wait'[t] = wait[t]
      BY <2>2, ArgsStay
    <2> QED BY <2>1, <2>3
  <1> QED BY <1>2, <1>3, <1>4, <1>5, <1>6, <1>7, <1>8, <1>9 DEF FlagInv, KernelInv, WaitInv

\* A step of the kernel that unlinks nobody keeps FlagInv.
LEMMA FlagFrameNone ==
  ASSUME FlagInv, KernelInv', DropArgs,
         UNCHANGED <<OSFlagType, OSFlagFlags, OSFlagFreeList, OSFlagWaitList, OSTCBFlagNode>>,
         \A t \in Tcb : Stays(t),
         \A t \in OSTCBList : ~Deleting(t) => t \in OSTCBList' /\ ~Deleting(t)',
         \A t \in OSTCBList' : ~Deleting(t)' => WaitKept(t),
         \A t \in Tcb \ OSTCBList' : at'[t] \in {"app", "sched"},
         NewTcbsClean', NoPendLocked', CurrentAwake'
  PROVE  FlagInv'
  <1> DEFINE D == {}
  <1>1. /\ D \in SUBSET Tcb /\ OSTCBFlagNode' = OSTCBFlagNode \ D
        /\ OSFlagWaitList' = [g \in Event |-> OSFlagWaitList[g] \ D]
    BY DEF FlagInv, KernelInv, FlagTypeOK
  <1>2. /\ \A t \in OSTCBList \ D : ~Deleting(t) => t \in OSTCBList' /\ ~Deleting(t)'
        /\ \A t \in OSTCBList' : ~Deleting(t)' => WaitKept(t) /\ t \notin D
    OBVIOUS
  <1> HIDE DEF D
  <1> QED BY <1>1, <1>2, FlagFrame

\* Where the step deletes nobody, OSTaskDel unlinks nothing.
LEMMA NothingUnlinked ==
  ASSUME UnlinkDeleted, at'[OSTCBCur] = "delwin" => at[OSTCBCur] = "delwin"
  PROVE  UNCHANGED <<OSFlagWaitList, OSTCBFlagNode>>
  BY DEF UnlinkDeleted

\* The event flags' part of a step of the kernel.
KernelPart == UnlinkDeleted /\ DropArgs /\ UNCHANGED <<OSFlagType, OSFlagFlags, OSFlagFreeList>>

\* A step that leaves the TCBs alone as well.
LEMMA FlagSame ==
  ASSUME FlagInv, KernelInv', KernelPart,
         UNCHANGED <<OSTCBStat, OSTCBPendTO, OSTCBDly, OSTCBList>>,
         at'[OSTCBCur] = "delwin" => at[OSTCBCur] = "delwin",
         \A t \in Tcb : Deleting(t)' <=> Deleting(t),
         \A t \in Tcb : \/ at'[t] = at[t] /\ loc'[t] = loc[t]
                        \/ at[t] = "pendwait" /\ at'[t] = "pendwake" /\ loc'[t] = loc[t]
                        \/ /\ ~Inside(t) /\ at'[t] \notin {"pend", "pendwait", "pendwake", "accept"}
                           /\ at'[t] # "tcblink"
                           /\ t \in OSTCBList \/ at'[t] \in {"app", "sched"},
         NoPendLocked', CurrentAwake'
  PROVE  FlagInv'
  <1>1. OSTCBList \subseteq Tcb
    BY DEF FlagInv, KernelInv, CoreInv, KernelTypeOK
  <1>2. \A t \in OSTCBList' : ~Deleting(t)' => WaitKept(t)
    BY <1>1, NodeOf DEF WaitKept
  <1>3. (\A t \in Tcb : Stays(t)) /\ \A t \in OSTCBList : ~Deleting(t) => ~Deleting(t)'
    BY <1>1 DEF Stays
  <1>4. \A t \in Tcb \ OSTCBList' : at'[t] \in {"app", "sched"}
    BY DEF FlagInv, KernelInv, WaitInv, OthersOutside, Inside
  <1>5. NewTcbsClean'
    <2>1. \A t \in Tcb : at'[t] = "tcblink" => at[t] = "tcblink" /\ loc'[t] = loc[t]
      OBVIOUS
    <2> QED BY <2>1 DEF NewTcbsClean, FlagInv, KernelInv, WaitInv
  <1>6. /\ DropArgs
        /\ UNCHANGED <<OSFlagType, OSFlagFlags, OSFlagFreeList, OSFlagWaitList, OSTCBFlagNode>>
    BY NothingUnlinked DEF KernelPart, FlagInv, KernelInv, FlagTypeOK
  <1> QED BY <1>2, <1>3, <1>4, <1>5, <1>6, FlagFrameNone

---------------------------------------------------------------------------
\* The kernel's steps keep FlagInv, one lemma for each kind of step.

\* OSIntEnter keeps FlagInv.
LEMMA FlagIntEnter == ASSUME FlagInv, KernelInv', OSIntEnter, KernelPart PROVE FlagInv'
  <1>1. UNCHANGED <<OSTCBStat, OSTCBPendTO, OSTCBDly, OSTCBList, OSTCBCur, OSLockNesting, at, loc>>
    BY DEF OSIntEnter, tcbVars, tblVars
  <1>2. /\ \A t \in Tcb : Deleting(t)' <=> Deleting(t)
        /\ NoPendLocked' /\ CurrentAwake'
    BY <1>1 DEF Deleting, NoPendLocked, CurrentAwake, FlagInv, KernelInv, WaitInv
  <1> QED BY <1>1, <1>2, FlagSame

\* OSIntExit keeps FlagInv, whichever task it switches to.
LEMMA FlagIntExit == ASSUME FlagInv, KernelInv', OSIntExit, KernelPart PROVE FlagInv'
  <1>1. /\ UNCHANGED <<OSTCBStat, OSTCBPendTO, OSTCBDly, OSTCBList, OSLockNesting, at, loc>>
        /\ OSIntNesting' = 0
    BY DEF OSIntExit, tcbVars, tblVars, FlagInv, KernelInv, CoreInv, KernelTypeOK
  <1>2. OSLockNesting = 0 \/ OSTCBCur' = OSTCBCur
    BY DEF OSIntExit
  <1>3. \A t \in Tcb : Deleting(t)' <=> Deleting(t)
    <2>1. CASE OSLockNesting = 0
      BY <1>1, <2>1, NobodyDeletes DEF Deleting, FlagInv, KernelInv, CoreInv, KernelTypeOK
    <2> QED BY <1>1, <1>2, <2>1 DEF Deleting
  <1>4. NoPendLocked'
    BY <1>1, <1>2 DEF NoPendLocked, FlagInv, WaitInv, KernelInv, CoreInv, KernelTypeOK
  <1>5. CurrentAwake'
    <2>1. OSIntNesting' = 0 /\ KernelInv' /\ NoPendLocked'
      BY <1>1, <1>4
    <2> QED BY <2>1, AwakeNext
  <1> QED BY <1>1, <1>3, <1>4, <1>5, FlagSame

\* OS_Sched keeps FlagInv, at the end of a service and in the middle of a pend.
LEMMA FlagSched == ASSUME FlagInv, KernelInv', OS_Sched, KernelPart PROVE FlagInv'
  <1>1. /\ UNCHANGED <<OSTCBStat, OSTCBPendTO, OSTCBDly, OSTCBList, OSLockNesting, OSIntNesting, loc>>
        /\ OSIntNesting = 0
    BY DEF OS_Sched, tcbVars, tblVars
  <1>2. /\ OSTCBCur \in Tcb
        /\ \A t \in Tcb \ {OSTCBCur} : at'[t] = at[t]
        /\ \/ at[OSTCBCur] = "sched" /\ at'[OSTCBCur] = "app"
           \/ at[OSTCBCur] = "pendwait" /\ at'[OSTCBCur] = "pendwake"
    BY DEF OS_Sched, InTask, FlagInv, KernelInv, CoreInv, KernelTypeOK
  <1>3. \A t \in Tcb : at[t] # "delwin" /\ at'[t] # "delwin"
    BY <1>2 DEF FlagInv, KernelInv, CoreInv, DeletionHolds
  <1>4. \A t \in Tcb : Deleting(t)' <=> Deleting(t)
    BY <1>2, <1>3 DEF Deleting, KernelInv, CoreInv, KernelTypeOK
  <1>5. NoPendLocked'
    <2>1. OSLockNesting > 0 => OSTCBCur' = OSTCBCur /\ at[OSTCBCur] # "pendwait"
      BY DEF OS_Sched, FlagInv, KernelInv, WaitInv, NoPendLocked
    <2> QED BY <1>1, <1>2, <2>1 DEF NoPendLocked
  <1>6. CurrentAwake'
    <2>1. OSIntNesting' = 0 /\ KernelInv' /\ NoPendLocked'
      BY <1>1, <1>5
    <2> QED BY <2>1, AwakeNext
  <1> QED BY <1>1, <1>2, <1>4, <1>5, <1>6, FlagSame DEF Inside

\* OSSchedLock and OSSchedUnlock keep FlagInv: who locks is not inside OSFlagPend.
LEMMA FlagLock ==
  ASSUME FlagInv, KernelInv', OSSchedLock \/ OSSchedUnlock, KernelPart PROVE FlagInv'
  <1>1. UNCHANGED <<OSTCBStat, OSTCBPendTO, OSTCBDly, OSTCBList, OSTCBCur, loc>>
    BY DEF OSSchedLock, OSSchedUnlock, tcbVars, tblVars, cpuVars
  <1>2. /\ OSTCBCur \in Tcb /\ at[OSTCBCur] = "app" /\ at'[OSTCBCur] \in {"app", "sched"}
        /\ \A t \in Tcb \ {OSTCBCur} : at'[t] = at[t]
    BY DEF OSSchedLock, OSSchedUnlock, TaskCall, Goto, FlagInv, KernelInv, CoreInv, KernelTypeOK
  <1>3. /\ \A t \in Tcb : Deleting(t)' <=> Deleting(t)
        /\ NoPendLocked' /\ CurrentAwake'
    BY <1>1, <1>2 DEF Deleting, NoPendLocked, CurrentAwake
  <1> QED BY <1>1, <1>2, <1>3, FlagSame DEF Inside

\* The end of some tasks' delays takes the event out of OSTCBStat and marks the pend
\* as timed out in the same step.
LEMMA FlagDelayEnds ==
  ASSUME FlagInv, NEW T, DelayEnds(T), NEW t \in OSTCBList, ~Deleting(t),
         t \in T => OSTCBDly[t] # 0 /\ OSTCBDly'[t] = 0,
         OSTCBDly[t] = 0 => OSTCBDly'[t] = 0
  PROVE  /\ WaitKept(t)
         /\ t \notin T => OSTCBStat'[t] = OSTCBStat[t]
  <1>1. /\ t \in Tcb /\ OSTCBStat[t] \subseteq {"FLAG", "SUSPEND"}
        /\ OSTCBPendTO[t] => OSTCBDly[t] = 0
    BY NodeOf
  <1>2. /\ OSTCBStat'[t] = IF t \in T THEN OSTCBStat[t] \ PendAny ELSE OSTCBStat[t]
        /\ OSTCBPendTO'[t] = IF t \in T THEN OSTCBStat[t] \cap PendAny # {} ELSE OSTCBPendTO[t]
    BY <1>1, Zenon DEF DelayEnds
  <1>3. CASE t \in T
    <2>1. OSTCBStat'[t] = OSTCBStat[t] \ PendAny
      BY <1>2, <1>3
    <2>2. OSTCBPendTO'[t] <=> "FLAG" \in OSTCBStat[t]
      <3>1. OSTCBPendTO'[t] = (OSTCBStat[t] \cap PendAny # {})
        BY <1>2, <1>3
      <3>2. (OSTCBStat[t] \cap PendAny # {}) <=> "FLAG" \in OSTCBStat[t]
        BY <1>1 DEF PendAny
      <3> QED BY <3>1, <3>2
    <2> QED BY <1>1, <1>3, <2>1, <2>2 DEF PendAny, WaitKept
  <1>4. CASE t \notin T
    <2>1. OSTCBStat'[t] = OSTCBStat[t] /\ OSTCBPendTO'[t] = OSTCBPendTO[t]
      BY <1>2, <1>4
    <2> QED BY <1>1, <2>1 DEF WaitKept
  <1> QED BY <1>3, <1>4

\* A step that ends waits by time, or lets a service of the kernel return.
LEMMA FlagTimed ==
  ASSUME FlagInv, KernelInv', KernelPart,
         UNCHANGED <<OSTCBList, OSTCBCur>>,
         at'[OSTCBCur] = "delwin" => at[OSTCBCur] = "delwin",
         \A t \in Tcb : Deleting(t)' <=> Deleting(t),
         \A t \in Tcb : \/ at'[t] = at[t] /\ loc'[t] = loc[t]
                        \/ ~Inside(t) /\ at'[t] \in {"app", "sched"},
         \A t \in OSTCBList : ~Deleting(t) => WaitKept(t),
         \A t \in Tcb \ OSTCBList : OSTCBPendTO'[t] = OSTCBPendTO[t],
         NoPendLocked', CurrentAwake'
  PROVE  FlagInv'
  <1>1. OSTCBList \subseteq Tcb
    BY DEF FlagInv, KernelInv, CoreInv, KernelTypeOK
  <1>2. (\A t \in Tcb : Stays(t)) /\ \A t \in OSTCBList : ~Deleting(t) => ~Deleting(t)'
    BY <1>1 DEF Stays
  <1>3. \A t \in Tcb \ OSTCBList' : at'[t] \in {"app", "sched"}
    BY DEF FlagInv, KernelInv, WaitInv, OthersOutside, Inside
  <1>4. NewTcbsClean'
    <2>1. \A t \in Tcb : at[t] = "tcblink" => loc[t].tcb \in Tcb \ OSTCBList
      BY DEF FlagInv, KernelInv, CoreInv, KernelTypeOK, CreationsApart, Locals
    <2>2. \A t \in Tcb : at'[t] = "tcblink" => at[t] = "tcblink" /\ loc'[t] = loc[t]
      OBVIOUS
    <2> QED BY <2>1, <2>2 DEF NewTcbsClean, FlagInv, KernelInv, WaitInv
  <1>5. /\ DropArgs
        /\ UNCHANGED <<OSFlagType, OSFlagFlags, OSFlagFreeList, OSFlagWaitList, OSTCBFlagNode>>
    BY NothingUnlinked DEF KernelPart, FlagInv, KernelInv, FlagTypeOK
  <1>6. \A t \in OSTCBList' : ~Deleting(t)' => WaitKept(t)
    BY <1>1
  <1> QED BY <1>1, <1>2, <1>3, <1>4, <1>5, <1>6, FlagFrameNone

\* The tick keeps FlagInv, though it ends any number of timeouts at once.
LEMMA FlagTick == ASSUME FlagInv, KernelInv', OSTimeTick, KernelPart PROVE FlagInv'
  <1> DEFINE T == {t \in Delayed : OSTCBDly[t] = 1}
  <1>1. /\ UNCHANGED <<OSTCBList, OSTCBCur, OSLockNesting, at, loc>>
        /\ DelayEnds(T) /\ OSTCBCur \in Tcb
    BY DEF OSTimeTick, tblVars, cpuVars, FlagInv, KernelInv, CoreInv, KernelTypeOK
  <1>2. \A t \in OSTCBList : /\ t \in T => OSTCBDly[t] # 0 /\ OSTCBDly'[t] = 0
                             /\ OSTCBDly[t] = 0 => OSTCBDly'[t] = 0
    BY DEF OSTimeTick, Delayed, FlagInv, KernelInv, CoreInv, KernelTypeOK
  <1>3. T \subseteq OSTCBList /\ \A t \in T : OSTCBDly[t] # 0
    BY DEF Delayed
  <1> HIDE DEF T
  <1>4. \A t \in Tcb \ OSTCBList : OSTCBPendTO'[t] = OSTCBPendTO[t]
    BY <1>1, <1>3, Zenon DEF DelayEnds
  <1>5. (\A t \in Tcb : Deleting(t)' <=> Deleting(t)) /\ NoPendLocked'
    BY <1>1 DEF Deleting, NoPendLocked, FlagInv, KernelInv, WaitInv
  <1>6. \A t \in OSTCBList : ~Deleting(t) => WaitKept(t)
    BY <1>1, <1>2, FlagDelayEnds
  <1>7. CurrentAwake'
    <2> SUFFICES ASSUME at[OSTCBCur] = "pendwake"
                 PROVE  OSTCBStat'[OSTCBCur] = {} /\ OSTCBDly'[OSTCBCur] = 0
      BY <1>1 DEF CurrentAwake
    <2>1. /\ OSTCBStat[OSTCBCur] = {} /\ OSTCBDly[OSTCBCur] = 0 /\ OSTCBCur \in OSTCBList
          /\ ~Deleting(OSTCBCur)
      BY DEF FlagInv, WaitInv, CurrentAwake, KernelInv, CoreInv, CurrentKnown, Deleting
    <2> QED BY <1>1, <1>2, <1>3, <2>1, FlagDelayEnds
  <1> QED BY <1>1, <1>4, <1>5, <1>6, <1>7, FlagTimed

\* What a one-region service of the kernel does to those inside OSFlagPend: nothing.
LEMMA FlagCall ==
  ASSUME FlagInv, NEW s, Call(s), NEW l \in {"sched", "app"}, Goto(l),
         UNCHANGED <<OSTCBCur, OSLockNesting, loc>>
  PROVE  /\ OSTCBCur \in Tcb
         /\ at'[OSTCBCur] = "delwin" => at[OSTCBCur] = "delwin"
         /\ \A t \in Tcb : Deleting(t)' <=> Deleting(t)
         /\ \A t \in Tcb : \/ at'[t] = at[t] /\ loc'[t] = loc[t]
                           \/ ~Inside(t) /\ at'[t] \in {"app", "sched"}
         /\ NoPendLocked'
         /\ at'[OSTCBCur] = "pendwake" => at[OSTCBCur] = "pendwake" /\ s \in IsrCalls
  <1>1. /\ OSTCBCur \in Tcb
        /\ \A t \in Tcb \ {OSTCBCur} : at'[t] = at[t]
        /\ OSIntNesting = 0 => at[OSTCBCur] = "app" /\ at'[OSTCBCur] = l
        /\ OSIntNesting # 0 => at' = at /\ s \in IsrCalls
    BY ServiceReturns DEF FlagInv, KernelInv, CoreInv, KernelTypeOK
  <1> QED BY <1>1 DEF Deleting, NoPendLocked, Inside, FlagInv, KernelInv, WaitInv

\* OSTimeDly keeps FlagInv.
LEMMA FlagDelay ==
  ASSUME FlagInv, KernelInv', NEW n \in Ticks, OSTimeDly(n), KernelPart PROVE FlagInv'
  <1>1. /\ UNCHANGED <<OSTCBStat, OSTCBPendTO, OSTCBList, OSTCBCur, OSLockNesting, loc>>
        /\ Call("OSTimeDly") /\ Goto("sched") /\ at[OSTCBCur] = "app"
        /\ OSTCBDly' = [OSTCBDly EXCEPT ![OSTCBCur] = n]
    BY DEF OSTimeDly, TaskCall, Call, tblVars, cpuVars
  <1>2. /\ OSTCBCur \in Tcb
        /\ at'[OSTCBCur] = "delwin" => at[OSTCBCur] = "delwin"
        /\ \A t \in Tcb : Deleting(t)' <=> Deleting(t)
        /\ \A t \in Tcb : \/ at'[t] = at[t] /\ loc'[t] = loc[t]
                          \/ ~Inside(t) /\ at'[t] \in {"app", "sched"}
        /\ NoPendLocked'
        /\ at'[OSTCBCur] = "pendwake" => at[OSTCBCur] = "pendwake"
    BY <1>1, FlagCall
  <1>3. \A t \in OSTCBList : ~Deleting(t) => WaitKept(t)
    <2> SUFFICES ASSUME NEW t \in OSTCBList, ~Deleting(t)
                 PROVE  /\ OSTCBStat[t] \subseteq {"FLAG", "SUSPEND"}
                        /\ OSTCBPendTO[t] => OSTCBDly'[t] = 0
      BY <1>1 DEF WaitKept
    <2>1. /\ t \in Tcb /\ OSTCBStat[t] \subseteq {"FLAG", "SUSPEND"}
          /\ OSTCBPendTO[t] => OSTCBDly[t] = 0 /\ t \in OSTCBFlagNode
      BY NodeOf
    <2>2. OSTCBPendTO[t] => t # OSTCBCur
      BY <1>1, <2>1, LinkedIs
    <2> QED BY <1>1, <1>2, <2>1, <2>2 DEF FlagInv, KernelInv, CoreInv, KernelTypeOK
  <1>4. CurrentAwake'
    BY <1>1, <1>2 DEF CurrentAwake
  <1> QED BY <1>1, <1>2, <1>3, <1>4, FlagTimed

\* OSTimeDlyResume keeps FlagInv, also when what it cuts short is a timeout.
LEMMA FlagDelayResume ==
  ASSUME FlagInv, KernelInv', NEW p \in UserPrio, OSTimeDlyResume(p), KernelPart PROVE FlagInv'
  <1> DEFINE t == OSTCBPrioTbl[p]
             l == IF "SUSPEND" \in OSTCBStat[t] THEN "app" ELSE "sched"
  <1>1. /\ UNCHANGED <<OSTCBList, OSTCBCur, OSLockNesting, loc>>
        /\ Call("OSTimeDlyResume") /\ Goto(l)
        /\ OSTCBDly[t] # 0 /\ OSTCBDly' = [OSTCBDly EXCEPT ![t] = 0] /\ DelayEnds({t})
        /\ t \in OSTCBList /\ t \in Tcb
    BY TaskOwns DEF OSTimeDlyResume, tblVars, cpuVars, UserPrio, FlagInv, KernelInv
  <1> HIDE DEF t, l
  <1>2. l \in {"sched", "app"}
    BY DEF l
  <1>3. /\ OSTCBCur \in Tcb
        /\ at'[OSTCBCur] = "delwin" => at[OSTCBCur] = "delwin"
        /\ \A u \in Tcb : Deleting(u)' <=> Deleting(u)
        /\ \A u \in Tcb : \/ at'[u] = at[u] /\ loc'[u] = loc[u]
                          \/ ~Inside(u) /\ at'[u] \in {"app", "sched"}
        /\ NoPendLocked'
        /\ at'[OSTCBCur] = "pendwake" => at[OSTCBCur] = "pendwake"
    BY <1>1, <1>2, FlagCall
  <1>4. \A u \in OSTCBList : /\ u \in {t} => OSTCBDly[u] # 0 /\ OSTCBDly'[u] = 0
                             /\ OSTCBDly[u] = 0 => OSTCBDly'[u] = 0
    BY <1>1 DEF FlagInv, KernelInv, CoreInv, KernelTypeOK
  <1>5. \A u \in Tcb \ OSTCBList : OSTCBPendTO'[u] = OSTCBPendTO[u]
    BY <1>1, Zenon DEF DelayEnds
  <1>6. \A u \in OSTCBList : ~Deleting(u) => WaitKept(u)
    BY <1>1, <1>4, FlagDelayEnds
  <1>7. CurrentAwake'
    <2> SUFFICES ASSUME at[OSTCBCur] = "pendwake"
                 PROVE  OSTCBStat'[OSTCBCur] = {} /\ OSTCBDly'[OSTCBCur] = 0
      BY <1>1, <1>3 DEF CurrentAwake
    <2>1. /\ OSTCBStat[OSTCBCur] = {} /\ OSTCBDly[OSTCBCur] = 0 /\ OSTCBCur \in OSTCBList
          /\ ~Deleting(OSTCBCur)
      BY DEF FlagInv, WaitInv, CurrentAwake, KernelInv, CoreInv, CurrentKnown, Deleting
    <2>2. OSTCBCur \notin {t}
      BY <1>1, <2>1
    <2> QED BY <1>1, <1>4, <2>1, <2>2, FlagDelayEnds
  <1> QED BY <1>1, <1>3, <1>5, <1>6, <1>7, FlagTimed

\* Suspension and its end keep FlagInv: they leave the event alone.
LEMMA FlagSuspend ==
  ASSUME FlagInv, KernelInv', SafeUse, NEW p \in UserPrio, OSTaskSuspend(p) \/ OSTaskResume(p),
         KernelPart
  PROVE  FlagInv'
  <1> DEFINE v == OSTCBPrioTbl[p]
  <1>1. /\ UNCHANGED <<OSTCBPendTO, OSTCBDly, OSTCBList, OSTCBCur, OSLockNesting, loc>>
        /\ \E s : /\ Call(s) /\ \E l \in {"sched", "app"} : Goto(l)
                  /\ s \notin IsrCalls \/ "SUSPEND" \in OSTCBStat[v]
        /\ \E S \in {OSTCBStat[v] \cup {"SUSPEND"}, OSTCBStat[v] \ {"SUSPEND"}} :
             OSTCBStat' = [OSTCBStat EXCEPT ![v] = S]
    BY DEF OSTaskSuspend, OSTaskResume, tblVars, cpuVars, SafeUse
  <1>2. PICK s : /\ Call(s) /\ \E l \in {"sched", "app"} : Goto(l)
                 /\ s \notin IsrCalls \/ "SUSPEND" \in OSTCBStat[v]
    BY <1>1
  <1> HIDE DEF v
  <1>3. /\ OSTCBCur \in Tcb
        /\ at'[OSTCBCur] = "delwin" => at[OSTCBCur] = "delwin"
        /\ \A t \in Tcb : Deleting(t)' <=> Deleting(t)
        /\ \A t \in Tcb : \/ at'[t] = at[t] /\ loc'[t] = loc[t]
                          \/ ~Inside(t) /\ at'[t] \in {"app", "sched"}
        /\ NoPendLocked'
        /\ at'[OSTCBCur] = "pendwake" => at[OSTCBCur] = "pendwake" /\ s \in IsrCalls
    BY <1>1, <1>2, FlagCall
  <1>4. \A t \in OSTCBList : ~Deleting(t) => WaitKept(t)
    <2> SUFFICES ASSUME NEW t \in OSTCBList, ~Deleting(t)
                 PROVE  /\ OSTCBStat'[t] \subseteq {"FLAG", "SUSPEND"}
                        /\ "FLAG" \in OSTCBStat'[t] <=> "FLAG" \in OSTCBStat[t]
                        /\ OSTCBPendTO[t] => OSTCBDly[t] = 0
      BY <1>1 DEF WaitKept
    <2>1. /\ t \in Tcb /\ OSTCBStat[t] \subseteq {"FLAG", "SUSPEND"}
          /\ OSTCBPendTO[t] => OSTCBDly[t] = 0
      BY NodeOf
    <2> QED BY <1>1, <2>1 DEF FlagInv, KernelInv, CoreInv, KernelTypeOK
  <1>5. CurrentAwake'
    <2> SUFFICES ASSUME at[OSTCBCur] = "pendwake", s \in IsrCalls
                 PROVE  OSTCBStat'[OSTCBCur] = {} /\ OSTCBDly'[OSTCBCur] = 0
      BY <1>1, <1>3 DEF CurrentAwake
    <2>1. OSTCBStat[OSTCBCur] = {} /\ OSTCBDly[OSTCBCur] = 0
      BY DEF FlagInv, KernelInv, WaitInv, CurrentAwake
    <2>2. OSTCBCur # v
      BY <1>2, <2>1
    <2> QED BY <1>1, <1>3, <2>1, <2>2 DEF FlagInv, KernelInv, CoreInv, KernelTypeOK
  <1> QED BY <1>1, <1>3, <1>4, <1>5, FlagTimed

\* A change of priority keeps FlagInv: nodes know their tasks, not their priorities.
LEMMA FlagChangePrio ==
  ASSUME FlagInv, KernelInv', NEW p \in UserPrio, NEW q \in UserPrio, OSTaskChangePrio(p, q),
         KernelPart
  PROVE  FlagInv'
  <1>1. /\ UNCHANGED <<OSTCBStat, OSTCBPendTO, OSTCBDly, OSTCBList, OSTCBCur, OSLockNesting, loc>>
        /\ Call("OSTaskChangePrio") /\ Goto("sched")
    BY DEF OSTaskChangePrio, cpuVars
  <1>2. /\ OSTCBCur \in Tcb
        /\ at'[OSTCBCur] = "delwin" => at[OSTCBCur] = "delwin"
        /\ \A t \in Tcb : Deleting(t)' <=> Deleting(t)
        /\ \A t \in Tcb : \/ at'[t] = at[t] /\ loc'[t] = loc[t]
                          \/ ~Inside(t) /\ at'[t] \in {"app", "sched"}
        /\ NoPendLocked'
        /\ at'[OSTCBCur] = "pendwake" => at[OSTCBCur] = "pendwake"
    BY <1>1, FlagCall
  <1>3. CurrentAwake'
    BY <1>1, <1>2 DEF CurrentAwake, FlagInv, KernelInv, WaitInv
  <1>4. \A t \in OSTCBList : ~Deleting(t) => WaitKept(t)
    BY <1>1, NodeOf DEF WaitKept
  <1> QED BY <1>1, <1>2, <1>3, <1>4, FlagTimed

\* Reserving a priority, or giving it back, keeps FlagInv.
LEMMA FlagReserve ==
  ASSUME FlagInv, KernelInv', OSTaskCreate_Undo \/ \E p \in UserPrio : OSTaskCreate(p), KernelPart
  PROVE  FlagInv'
  <1>1. /\ UNCHANGED <<OSTCBStat, OSTCBPendTO, OSTCBDly, OSTCBList, OSTCBCur>>
        /\ OSTCBCur \in Tcb /\ OSTCBCur \in OSTCBList
        /\ \A t \in Tcb \ {OSTCBCur} : at'[t] = at[t] /\ loc'[t] = loc[t]
        /\ at[OSTCBCur] \in {"app", "unreserve"} /\ at'[OSTCBCur] \in {"app", "tcbinit"}
    BY DEF OSTaskCreate, OSTaskCreate_Undo, TaskCall, InTask, Goto, Keep, tcbVars, cpuVars,
           FlagInv, KernelInv, CoreInv, KernelTypeOK, CurrentKnown
  <1>2. /\ \A t \in Tcb : Deleting(t)' <=> Deleting(t)
        /\ NoPendLocked' /\ CurrentAwake'
    BY <1>1 DEF Deleting, NoPendLocked, CurrentAwake
  <1> QED BY <1>1, <1>2, FlagSame DEF Inside

\* OS_TCBInit keeps FlagInv when it takes a TCB: it cleans it before anyone sees it.
LEMMA FlagTakeTcb == ASSUME FlagInv, KernelInv', OS_TCBInit_Take, KernelPart PROVE FlagInv'
  <1> DEFINE me == OSTCBCur
  <1>1. /\ OSIntNesting = 0 /\ me \in Tcb /\ me \in OSTCBList /\ at[me] = "tcbinit"
        /\ UNCHANGED <<OSTCBList, OSTCBCur>>
    BY DEF OS_TCBInit_Take, InTask, cpuVars, FlagInv, KernelInv, CoreInv, KernelTypeOK, CurrentKnown
  <1>2. CASE OSTCBFreeList = {}
    <2>1. /\ UNCHANGED <<OSTCBStat, OSTCBPendTO, OSTCBDly, loc>>
          /\ at' = [at EXCEPT ![me] = "unreserve"]
      BY <1>1, <1>2 DEF OS_TCBInit_Take, Goto, tcbVars
    <2>2. at'[me] = "unreserve" /\ \A t \in Tcb \ {me} : at'[t] = at[t]
      BY <1>1, <2>1 DEF FlagInv, KernelInv, CoreInv, KernelTypeOK
    <2>3. (\A t \in Tcb : Deleting(t)' <=> Deleting(t)) /\ NoPendLocked' /\ CurrentAwake'
      BY <1>1, <2>1, <2>2 DEF Deleting, NoPendLocked, CurrentAwake
    <2> QED BY <1>1, <2>1, <2>2, <2>3, FlagSame DEF Inside
  <1>3. CASE OSTCBFreeList # {}
    <2> PICK t \in OSTCBFreeList :
          /\ OSTCBStat' = [OSTCBStat EXCEPT ![t] = {}]
          /\ OSTCBPendTO' = [OSTCBPendTO EXCEPT ![t] = FALSE]
          /\ OSTCBDly' = [OSTCBDly EXCEPT ![t] = 0]
          /\ at' = [at EXCEPT ![me] = "tcblink"]
          /\ loc' = [loc EXCEPT ![me] = [loc[me] EXCEPT !.tcb = t]]
      BY <1>1, <1>3 DEF OS_TCBInit_Take, Goto, Keep
    <2>1. t \in Tcb /\ t \notin OSTCBList
      BY DEF FlagInv, KernelInv, CoreInv, KernelTypeOK, TablesAgree, Tcb
    <2>2. /\ \A u \in Tcb \ {t} : /\ OSTCBStat'[u] = OSTCBStat[u]
                                  /\ OSTCBPendTO'[u] = OSTCBPendTO[u] /\ OSTCBDly'[u] = OSTCBDly[u]
          /\ OSTCBPendTO'[t] = FALSE /\ at'[me] = "tcblink" /\ loc'[me].tcb = t
          /\ \A u \in Tcb \ {me} : at'[u] = at[u] /\ loc'[u] = loc[u]
      BY <1>1, <2>1 DEF FlagInv, KernelInv, CoreInv, KernelTypeOK, Locals
    <2>3. \A u \in Tcb : ~Deleting(u)' /\ ~Deleting(u)
      BY <1>1, <2>2 DEF Deleting
    <2>4. \A u \in OSTCBList : u \in Tcb \ {t} /\ WaitKept(u)
      <3> SUFFICES ASSUME NEW u \in OSTCBList PROVE u \in Tcb \ {t} /\ WaitKept(u)
        OBVIOUS
      <3>1. u \in Tcb \ {t} /\ ~Deleting(u)
        BY <2>1, <2>3 DEF FlagInv, KernelInv, CoreInv, KernelTypeOK
      <3> QED BY <2>2, <3>1, NodeOf DEF WaitKept
    <2>5. \A u \in Tcb : Stays(u)
      BY <1>1, <2>2 DEF Stays, Inside
    <2>6. \A u \in Tcb \ OSTCBList' : at'[u] \in {"app", "sched"}
      BY <1>1, <2>2 DEF FlagInv, KernelInv, WaitInv, OthersOutside
    <2>7. NewTcbsClean'
      <3>1. \A u \in Tcb \ {me} : at'[u] = "tcblink" =>
              /\ loc[u].tcb \in Tcb /\ loc[u].tcb # t /\ at[u] = "tcblink" /\ loc'[u] = loc[u]
        BY <2>2 DEF FlagInv, KernelInv, CoreInv, KernelTypeOK, CreationsApart, Locals
      <3> QED BY <1>1, <2>2, <3>1 DEF FlagInv, KernelInv, WaitInv, NewTcbsClean
    <2>8. NoPendLocked' /\ CurrentAwake'
      BY <1>1, <2>2 DEF NoPendLocked, CurrentAwake
    <2>9. /\ DropArgs
          /\ UNCHANGED <<OSFlagType, OSFlagFlags, OSFlagFreeList, OSFlagWaitList, OSTCBFlagNode>>
      BY <1>1, <2>2, NothingUnlinked DEF KernelPart, FlagInv, KernelInv, FlagTypeOK
    <2> QED BY <1>1, <2>3, <2>4, <2>5, <2>6, <2>7, <2>8, <2>9, FlagFrameNone
  <1> QED BY <1>2, <1>3

\* OS_TCBInit keeps FlagInv when it links the TCB, which waits for nothing.
LEMMA FlagLink == ASSUME FlagInv, KernelInv', OS_TCBInit_Link, KernelPart PROVE FlagInv'
  <1> DEFINE me == OSTCBCur
             t == loc[me].tcb
  <1>1. /\ OSIntNesting = 0 /\ me \in Tcb /\ me \in OSTCBList /\ at[me] = "tcblink"
        /\ t \in Tcb /\ t \notin OSTCBList
        /\ OSTCBStat[t] = {} /\ ~OSTCBPendTO[t] /\ at[t] \in {"app", "sched"}
    BY DEF OS_TCBInit_Link, InTask, FlagInv, WaitInv, NewTcbsClean, OthersOutside,
           KernelInv, CoreInv, KernelTypeOK, CurrentKnown, CreationsApart, Locals
  <1>2. /\ OSTCBList' = OSTCBList \cup {t}
        /\ at' = [at EXCEPT ![me] = "sched"] /\ loc' = [loc EXCEPT ![me] = NoLocals]
        /\ UNCHANGED <<OSTCBStat, OSTCBPendTO, OSTCBDly, OSTCBCur>>
    BY <1>1 DEF OS_TCBInit_Link, Goto, Keep, tcbVars, cpuVars
  <1> HIDE DEF t
  <1>3. /\ at'[me] = "sched" /\ \A u \in Tcb \ {me} : at'[u] = at[u] /\ loc'[u] = loc[u]
        /\ \A u \in Tcb : ~Deleting(u)' /\ ~Deleting(u)
    BY <1>1, <1>2 DEF Deleting, FlagInv, KernelInv, CoreInv, KernelTypeOK
  <1>4. \A u \in OSTCBList' : WaitKept(u)
    <2>1. \A u \in OSTCBList : WaitKept(u)
      <3> SUFFICES ASSUME NEW u \in OSTCBList PROVE WaitKept(u)
        OBVIOUS
      <3>1. u \in Tcb /\ ~Deleting(u)
        BY <1>3 DEF FlagInv, KernelInv, CoreInv, KernelTypeOK
      <3> QED BY <1>2, <3>1, NodeOf DEF WaitKept
    <2>2. t \notin OSTCBFlagNode
      BY <1>1, LinkedIs
    <2> QED BY <1>1, <1>2, <2>1, <2>2 DEF WaitKept
  <1>5. \A u \in Tcb : Stays(u)
    BY <1>1, <1>3 DEF Stays, Inside
  <1>6. \A u \in Tcb \ OSTCBList' : at'[u] \in {"app", "sched"}
    BY <1>2, <1>3 DEF FlagInv, KernelInv, WaitInv, OthersOutside
  <1>7. NewTcbsClean'
    BY <1>2, <1>3 DEF FlagInv, KernelInv, WaitInv, NewTcbsClean
  <1>8. NoPendLocked' /\ CurrentAwake'
    BY <1>2, <1>3 DEF NoPendLocked, CurrentAwake
  <1>9. /\ DropArgs
        /\ UNCHANGED <<OSFlagType, OSFlagFlags, OSFlagFreeList, OSFlagWaitList, OSTCBFlagNode>>
    BY <1>1, <1>3, NothingUnlinked DEF KernelPart, FlagInv, KernelInv, FlagTypeOK
  <1>10. \A u \in OSTCBList : ~Deleting(u) => u \in OSTCBList' /\ ~Deleting(u)'
    BY <1>2, <1>3 DEF FlagInv, KernelInv, CoreInv, KernelTypeOK
  <1> QED BY <1>4, <1>5, <1>6, <1>7, <1>8, <1>9, <1>10, FlagFrameNone

\* OSTaskDel, first region: the victim's node is unlinked, and nobody else's.
LEMMA FlagDel ==
  ASSUME FlagInv, KernelInv', NEW p \in UserPrio, OSTaskDel(p), KernelPart PROVE FlagInv'
  <1> DEFINE me == OSTCBCur
             t == OSTCBPrioTbl[p]
             mine == [NoLocals EXCEPT !.prio = p, !.tcb = t]
  <1>1. /\ OSIntNesting = 0 /\ me \in Tcb /\ me \in OSTCBList /\ at[me] = "app"
        /\ p \in Prio /\ t \in Tcb /\ t \in OSTCBList
    BY TaskOwns DEF OSTaskDel, TaskCall, UserPrio, FlagInv, KernelInv, CoreInv, KernelTypeOK, CurrentKnown
  <1>2. /\ OSTCBStat' = [OSTCBStat EXCEPT ![t] = {}]
        /\ OSTCBDly' = [OSTCBDly EXCEPT ![t] = 0]
        /\ OSTCBPendTO' = [OSTCBPendTO EXCEPT ![t] = FALSE]
        /\ at' = [at EXCEPT ![me] = "delwin"] /\ loc' = [loc EXCEPT ![me] = mine]
        /\ UNCHANGED <<OSTCBList, OSTCBCur>>
    BY <1>1 DEF OSTaskDel, Disable, Goto, Keep, tblVars, cpuVars
  <1>3. mine.tcb = t
    BY <1>1, NoLocalsType DEF NoLocals, Locals
  <1> HIDE DEF mine, t
  <1>4. /\ at'[me] = "delwin" /\ loc'[me].tcb = t
        /\ \A u \in Tcb \ {me} : at'[u] = at[u] /\ loc'[u] = loc[u]
        /\ \A u \in Tcb : ~Deleting(u)
        /\ \A u \in Tcb : Deleting(u)' <=> u = t
        /\ \A u \in Tcb \ {t} : /\ OSTCBStat'[u] = OSTCBStat[u] /\ OSTCBDly'[u] = OSTCBDly[u]
                                /\ OSTCBPendTO'[u] = OSTCBPendTO[u]
    <2>1. at'[me] = "delwin" /\ loc'[me].tcb = t
      BY <1>1, <1>2, <1>3 DEF FlagInv, KernelInv, CoreInv, KernelTypeOK
    <2>2. /\ \A u \in Tcb : ~Deleting(u)
          /\ \A u \in Tcb : Deleting(u)' <=> u = t
      BY <1>1, <1>2, <2>1 DEF Deleting
    <2> QED BY <1>1, <1>2, <2>1, <2>2 DEF FlagInv, KernelInv, CoreInv, KernelTypeOK
  <1>5. /\ OSTCBFlagNode' = OSTCBFlagNode \ {t}
        /\ OSFlagWaitList' = [g \in Event |-> OSFlagWaitList[g] \ {t}]
    <2>1. OSFlagWaitList \in [Event -> SUBSET Tcb]
      BY DEF FlagInv, KernelInv, FlagTypeOK
    <2>2. CASE t \in OSTCBFlagNode
      <3>1. OS_FlagUnlink(loc[t].ev, {t})
        BY <1>1, <1>4, <2>2 DEF UnlinkDeleted, KernelPart
      <3>2. \A g \in Event \ {loc[t].ev} : t \notin OSFlagWaitList[g]
        BY LinkedIs
      <3> QED BY <2>1, <3>1, <3>2 DEF OS_FlagUnlink
    <2>3. CASE t \notin OSTCBFlagNode
      <3>1. UNCHANGED <<OSFlagWaitList, OSTCBFlagNode>>
        BY <1>1, <1>4, <2>3 DEF UnlinkDeleted, KernelPart
      <3>2. \A g \in Event : t \notin OSFlagWaitList[g]
        BY <2>3, LinkedIs
      <3> QED BY <2>1, <2>3, <3>1, <3>2
    <2> QED BY <2>2, <2>3
  <1>6. \A u \in OSTCBList' : ~Deleting(u)' => WaitKept(u) /\ u \notin {t}
    <2>1. \A u \in OSTCBList : u \in Tcb
      BY DEF FlagInv, KernelInv, CoreInv, KernelTypeOK
    <2> QED BY <1>2, <1>4, <2>1, NodeOf DEF WaitKept
  <1>7. \A u \in Tcb : Stays(u)
    BY <1>1, <1>4 DEF Stays, Inside
  <1>8. \A u \in Tcb \ OSTCBList' : at'[u] \in {"app", "sched"}
    BY <1>1, <1>2, <1>4 DEF FlagInv, KernelInv, WaitInv, OthersOutside
  <1>9. NewTcbsClean'
    <2>1. \A u \in Tcb : at'[u] = "tcblink" =>
            /\ at[u] = "tcblink" /\ loc'[u] = loc[u] /\ loc[u].tcb \in Tcb \ {t}
      BY <1>1, <1>4 DEF FlagInv, KernelInv, CoreInv, KernelTypeOK, CreationsApart, Locals
    <2> QED BY <1>4, <2>1 DEF FlagInv, KernelInv, WaitInv, NewTcbsClean
  <1>10. NoPendLocked' /\ CurrentAwake'
    BY <1>2, <1>4 DEF NoPendLocked, CurrentAwake
  <1>11. \A u \in OSTCBList \ {t} : ~Deleting(u) => u \in OSTCBList' /\ ~Deleting(u)'
    BY <1>2, <1>4 DEF FlagInv, KernelInv, CoreInv, KernelTypeOK
  <1> QED BY <1>1, <1>5, <1>6, <1>7, <1>8, <1>9, <1>10, <1>11, FlagFrame DEF KernelPart

\* OSTaskDel, second region: the victim is in no list any more.
LEMMA FlagDelFree == ASSUME FlagInv, KernelInv', OSTaskDel_Free, KernelPart PROVE FlagInv'
  <1> DEFINE me == OSTCBCur
             t == loc[me].tcb
  <1>1. /\ OSIntNesting = 0 /\ me \in Tcb /\ at[me] = "delwin"
        /\ t \in Tcb /\ Deleting(t) /\ me \in OSTCBList
    BY DEF OSTaskDel_Free, InTask, FlagInv, KernelInv, CoreInv, KernelTypeOK, DeletionHolds, CurrentKnown,
           Deleting, Locals
  <1>2. /\ OSTCBList' = OSTCBList \ {t}
        /\ at' = [at EXCEPT ![t] = "app", ![me] = "sched"]
        /\ UNCHANGED <<OSTCBStat, OSTCBPendTO, OSTCBDly, OSTCBCur>>
        /\ loc' = [loc EXCEPT ![t] = NoLocals, ![me] = NoLocals]
    BY DEF OSTaskDel_Free, tcbVars, cpuVars
  <1> HIDE DEF t
  <1>3. /\ at'[me] = "sched" /\ (t # me => at'[t] = "app")
        /\ \A u \in Tcb \ {me, t} : at'[u] = at[u] /\ loc'[u] = loc[u]
        /\ \A u \in Tcb : ~Deleting(u)' /\ (Deleting(u) => u = t)
    BY <1>1, <1>2 DEF Deleting, t, FlagInv, KernelInv, CoreInv, KernelTypeOK
  <1>4. t \notin OSTCBFlagNode
    BY <1>1, LinkedIs
  <1>5. \A u \in Tcb : Stays(u)
    BY <1>1, <1>3, <1>4 DEF Stays, Inside
  <1>6. \A u \in OSTCBList' : u \in OSTCBList /\ ~Deleting(u) /\ WaitKept(u)
    <2>1. \A u \in OSTCBList' : u \in OSTCBList /\ u \in Tcb /\ ~Deleting(u)
      BY <1>2, <1>3 DEF FlagInv, KernelInv, CoreInv, KernelTypeOK
    <2> QED BY <1>2, <2>1, NodeOf DEF WaitKept
  <1>7. \A u \in Tcb \ OSTCBList' : at'[u] \in {"app", "sched"}
    BY <1>1, <1>2, <1>3 DEF FlagInv, KernelInv, WaitInv, OthersOutside
  <1>8. NewTcbsClean'
    BY <1>1, <1>2, <1>3 DEF FlagInv, KernelInv, WaitInv, NewTcbsClean
  <1>9. NoPendLocked' /\ CurrentAwake'
    BY <1>2, <1>3 DEF NoPendLocked, CurrentAwake
  <1>10. /\ DropArgs
         /\ UNCHANGED <<OSFlagType, OSFlagFlags, OSFlagFreeList, OSFlagWaitList, OSTCBFlagNode>>
    BY <1>1, <1>3, NothingUnlinked DEF KernelPart, FlagInv, KernelInv, FlagTypeOK
  <1>11. \A u \in OSTCBList : ~Deleting(u) => u \in OSTCBList' /\ ~Deleting(u)'
    BY <1>1, <1>2, <1>3 DEF FlagInv, KernelInv, CoreInv, KernelTypeOK
  <1> QED BY <1>5, <1>6, <1>7, <1>8, <1>9, <1>10, <1>11, FlagFrameNone

\* A step of the kernel keeps FlagInv.
LEMMA KernelKeepsFlags ==
  ASSUME FlagInv, SafeUse, KernelStep, KernelPart PROVE FlagInv'
  <1>1. KernelInv'
    BY KernelStepKeeps DEF FlagInv, KernelInv
  <1>2. CASE TaskStep
    BY <1>1, <1>2, FlagTakeTcb, FlagLink, FlagReserve, FlagDelFree, FlagDel, FlagSuspend,
       FlagChangePrio DEF TaskStep
  <1>3. CASE TimeStep
    BY <1>1, <1>3, FlagDelay, FlagDelayResume DEF TimeStep, UserPrio
  <1> QED BY <1>1, <1>2, <1>3, FlagIntEnter, FlagIntExit, FlagTick, FlagSched, FlagLock
          DEF KernelStep

---------------------------------------------------------------------------
\* The services of the event flags.

\* A region of a service keeps FlagInv if it ends the waits of some tasks T of one
\* group, with flags that were enough for them or with none, changes only the calling
\* task's arguments, and keeps what the other parts say of the group.
LEMMA FlagService ==
  ASSUME FlagInv, KernelInv', FlagTypeOK',
         NEW l \in {"app", "sched", "pend", "accept", "post", "del", "delalways"},
         Moves(Points, l), UNCHANGED <<OSTCBList, OSTCBCur, OSIntNesting, OSLockNesting>>,
         NEW g \in Event, NEW T \in SUBSET OSFlagWaitList[g], OS_FlagUnlink(g, T),
         \A t \in Tcb \ T : /\ OSTCBStat'[t] = OSTCBStat[t] /\ OSTCBDly'[t] = OSTCBDly[t]
                            /\ OSTCBPendTO'[t] = OSTCBPendTO[t],
         \A t \in T : /\ OSTCBStat'[t] = OSTCBStat[t] \ {"FLAG"} /\ OSTCBDly'[t] = 0
                      /\ ~OSTCBPendTO'[t],
         \A t \in Tcb : OSIntNesting # 0 \/ t # OSTCBCur => mask'[t] = mask[t] /\ wait'[t] = wait[t],
         \A t \in Tcb : \/ OSTCBFlagsRdy'[t] = {}
                        \/ t \notin T /\ OSTCBFlagsRdy'[t] = OSTCBFlagsRdy[t]
                        \/ t \in T /\ IF wait[t].all THEN OSTCBFlagsRdy'[t] = mask[t]
                                      ELSE OSTCBFlagsRdy'[t] \subseteq mask[t],
         OSIntNesting = 0 => OSTCBCur \notin OSTCBFlagNode \ T /\ OSTCBFlagsRdy'[OSTCBCur] = {},
         OSIntNesting = 0 /\ l \in {"pend", "accept"} =>
           /\ loc'[OSTCBCur].ev = g
           /\ OneSense => \A t \in Tcb : t # OSTCBCur /\ Inside(t) /\ loc[t].ev = g
                                         => wait[t].set = wait'[OSTCBCur].set,
         OSIntNesting = 0 /\ l = "pend" => OSFlagType'[g] = "FLAG" /\ OSLockNesting = 0,
         \A h \in Event : OSFlagType'[h] = "UNUSED" => OSFlagWaitList'[h] = {},
         \A t \in Tcb : at[t] = "pend" /\ (OSIntNesting # 0 \/ t # OSTCBCur)
                        => OSFlagType'[loc[t].ev] = "FLAG",
         OneSense => NoMissedFlags'
  PROVE  FlagInv'
  <1> DEFINE me == OSTCBCur
             Mine(t) == OSIntNesting = 0 /\ t = me
  <1>1. /\ me \in Tcb /\ OSTCBList \subseteq Tcb /\ OSLockNesting \in Nat
        /\ OSIntNesting = 0 => at[me] \in Points /\ at'[me] = l /\ me \in OSTCBList
    BY DEF Moves, Points, FlagInv, KernelInv, CoreInv, KernelTypeOK, CurrentKnown
  <1>2. \A t \in Tcb : Mine(t) \/ (at'[t] = at[t] /\ loc'[t] = loc[t])
    BY DEF Moves
  <1>3. \A t \in Tcb : Deleting(t)' <=> Deleting(t)
    <2>1. CASE OSIntNesting = 0
      <3>1. at[me] # "delwin" /\ at'[me] # "delwin"
        BY <1>1, <2>1 DEF Points
      <3> QED BY <3>1 DEF Deleting
    <2>2. CASE OSIntNesting # 0
      BY <1>1, <1>2, <2>2 DEF Deleting
    <2> QED BY <2>1, <2>2
  <1>4. /\ T \subseteq OSTCBFlagNode /\ T \subseteq OSTCBList /\ OSTCBFlagNode' = OSTCBFlagNode \ T
        /\ \A h \in Event : \A t \in OSFlagWaitList'[h] : t \in OSFlagWaitList[h] /\ t \notin T
        /\ \A h \in Event : \A t \in OSFlagWaitList[h] \ T : t \in OSFlagWaitList'[h]
    <2>1. OSFlagWaitList' = [OSFlagWaitList EXCEPT ![g] = @ \ T] /\ OSTCBFlagNode' = OSTCBFlagNode \ T
      BY DEF OS_FlagUnlink
    <2>2. OSFlagWaitList \in [Event -> SUBSET Tcb]
      BY DEF FlagInv, KernelInv, FlagTypeOK
    <2>3. \A h \in Event \ {g} : \A t \in OSFlagWaitList[h] : t \notin T
      BY LinkedIs
    <2> QED BY <2>1, <2>2, <2>3, LinkedIs
  <1>5. \A t \in OSTCBFlagNode' : ~Mine(t) /\ t \in Tcb
    BY <1>4, LinkedIs
  <1>6. NodesAlive'
    <2>1. ASSUME NEW h \in Event, NEW t \in OSFlagWaitList'[h]
          PROVE  /\ t \in OSTCBList /\ ~Deleting(t)'
                 /\ at'[t] \in {"pendwait", "pendwake"} /\ loc'[t].ev = h /\ t \in OSTCBFlagNode'
      <3>1. /\ t \in OSTCBList /\ t \in Tcb /\ ~Deleting(t) /\ loc[t].ev = h
            /\ at[t] \in {"pendwait", "pendwake"} /\ t \in OSTCBFlagNode'
        BY <1>4, LinkedIs
      <3> QED BY <1>2, <1>3, <1>5, <3>1
    <2>2. \A t \in OSTCBFlagNode' : t \in OSFlagWaitList'[loc'[t].ev]
      BY <1>2, <1>4, <1>5, LinkedIs
    <2> QED BY <2>1, <2>2 DEF NodesAlive
  <1>7. NodeExact'
    <2> SUFFICES ASSUME NEW t \in OSTCBList, ~Deleting(t)
                 PROVE  /\ OSTCBStat'[t] \subseteq {"FLAG", "SUSPEND"}
                        /\ t \in OSTCBFlagNode' <=> OSTCBPendTO'[t] \/ "FLAG" \in OSTCBStat'[t]
                        /\ OSTCBPendTO'[t] => OSTCBDly'[t] = 0
      BY <1>1, <1>3 DEF NodeExact
    <2>1. CASE t \in T
      BY <1>4, <2>1, NodeOf
    <2>2. CASE t \notin T
      BY <1>4, <2>2, NodeOf
    <2> QED BY <2>1, <2>2
  <1>8. GroupsKnown'
    <2>1. \A t \in Tcb : Inside(t)' => loc'[t].ev \in Event
      BY <1>1, <1>2 DEF Inside, FlagInv, KernelInv, WaitInv, GroupsKnown
    <2>2. \A t \in Tcb : at'[t] = "pend" => OSFlagType'[loc'[t].ev] = "FLAG"
      BY <1>1, <1>2
    <2>3. \A t \in OSTCBFlagNode' : t \in OSTCBList /\ at'[t] \in {"pendwait", "pendwake"}
      BY <1>2, <1>4, <1>5, LinkedIs
    <2> QED BY <2>1, <2>2, <2>3 DEF GroupsKnown
  <1>9. FlagsRdyRight'
    <2> SUFFICES ASSUME NEW t \in Tcb, OSTCBFlagsRdy'[t] # {}
                 PROVE  /\ at'[t] \in {"pendwait", "pendwake"} /\ t \notin OSTCBFlagNode'
                        /\ IF wait'[t].all THEN OSTCBFlagsRdy'[t] = mask'[t]
                           ELSE OSTCBFlagsRdy'[t] \subseteq mask'[t]
      BY DEF FlagsRdyRight
    <2>1. ~Mine(t) /\ at'[t] = at[t] /\ mask'[t] = mask[t] /\ wait'[t] = wait[t]
      BY <1>2
    <2>2. CASE t \in T
      BY <1>4, <2>1, <2>2, LinkedIs
    <2>3. CASE t \notin T
      BY <1>4, <2>1, <2>3 DEF FlagInv, KernelInv, WaitInv, FlagsRdyRight
    <2> QED BY <2>2, <2>3
  <1>10. NewTcbsClean'
    <2>1. \A t \in Tcb : at'[t] = "tcblink" =>
            /\ at[t] = "tcblink" /\ loc'[t] = loc[t] /\ loc[t].tcb \in Tcb \ OSTCBList
      BY <1>1, <1>2 DEF FlagInv, KernelInv, CoreInv, KernelTypeOK, CreationsApart, Locals
    <2> QED BY <1>4, <2>1 DEF NewTcbsClean, FlagInv, KernelInv, WaitInv
  <1>11. OthersOutside'
    BY <1>1, <1>2 DEF OthersOutside, FlagInv, KernelInv, WaitInv
  <1>12. NoPendLocked'
    BY <1>1, <1>2 DEF NoPendLocked, FlagInv, KernelInv, WaitInv
  <1>13. CurrentAwake'
    <2> SUFFICES ASSUME at'[me] = "pendwake"
                 PROVE  OSTCBStat'[me] = {} /\ OSTCBDly'[me] = 0
      BY DEF CurrentAwake
    <2>1. OSTCBStat[me] = {} /\ OSTCBDly[me] = 0
      BY <1>1, <1>2 DEF FlagInv, KernelInv, WaitInv, CurrentAwake
    <2> QED BY <1>1, <2>1
  <1>14. SensesAgree'
    <2> SUFFICES ASSUME OneSense, NEW t \in Tcb, NEW u \in Tcb, Inside(t)', Inside(u)',
                        loc'[t].ev = loc'[u].ev
                 PROVE  wait'[t].set = wait'[u].set
      BY DEF SensesAgree
    <2>1. \A v \in Tcb : Inside(v)' /\ ~Mine(v) => /\ Inside(v) /\ loc'[v] = loc[v] /\ wait'[v] = wait[v]
      BY <1>2 DEF Inside
    <2>2. CASE ~Mine(t) /\ ~Mine(u)
      BY <2>1, <2>2 DEF FlagInv, KernelInv, WaitInv, SensesAgree
    <2>3. ASSUME NEW v \in Tcb, Mine(v), Inside(v)' PROVE l \in {"pend", "accept"}
      BY <1>1, <2>3 DEF Inside
    <2>4. CASE Mine(t) \/ Mine(u)
      BY <2>1, <2>3, <2>4
    <2> QED BY <2>2, <2>4
  <1> QED BY <1>6, <1>7, <1>8, <1>9, <1>10, <1>11, <1>12, <1>13, <1>14 DEF FlagInv, KernelInv, WaitInv

\* A region that ends no wait keeps FlagInv.
LEMMA FlagQuiet ==
  ASSUME FlagInv, PlaceTypes, KernelTypeOK' => FlagTypeOK', NEW g \in Event,
         NEW l \in {"app", "pend", "accept", "post", "del", "delalways"}, Moves(Points, l),
         UNCHANGED <<OSRdyTbl, OSEventTbl, OSLockNesting, tcbVars, tblVars, cpuVars,
                     OSFlagWaitList, OSTCBFlagNode>>,
         \A t \in Tcb : OSIntNesting # 0 \/ t # OSTCBCur => mask'[t] = mask[t] /\ wait'[t] = wait[t],
         \A t \in Tcb : OSTCBFlagsRdy'[t] = {} \/ OSTCBFlagsRdy'[t] = OSTCBFlagsRdy[t],
         OSIntNesting = 0 => OSTCBCur \notin OSTCBFlagNode /\ OSTCBFlagsRdy'[OSTCBCur] = {},
         OSIntNesting = 0 /\ l \in {"pend", "accept"} =>
           /\ loc'[OSTCBCur].ev = g
           /\ OneSense => \A t \in Tcb : t # OSTCBCur /\ Inside(t) /\ loc[t].ev = g
                                         => wait[t].set = wait'[OSTCBCur].set,
         OSIntNesting = 0 /\ l = "pend" => OSFlagType'[g] = "FLAG" /\ OSLockNesting = 0,
         \A h \in Event : OSFlagType'[h] = "UNUSED" => OSFlagWaitList[h] = {},
         \A t \in Tcb : at[t] = "pend" /\ (OSIntNesting # 0 \/ t # OSTCBCur)
                        => OSFlagType'[loc[t].ev] = "FLAG",
         OneSense => NoMissedFlags'
  PROVE  FlagInv'
  <1>1. /\ UNCHANGED <<OSTCBPrio, OSTCBStat, OSTCBDly, OSTCBPendTO, OSTCBEventPtr, OSTCBPrioTbl,
                       OSTCBList, OSTCBFreeList, OSTCBCur, OSIntNesting>>
        /\ OSTCBCur \in Tcb /\ KernelInv
    BY DEF tcbVars, tblVars, cpuVars, FlagInv, KernelInv, CoreInv, KernelTypeOK
  <1>2. KernelInv'
    <2>1. \A t \in Tcb : Deleting(t)' <=> Deleting(t)
      BY <1>1 DEF Deleting, Moves, Points
    <2>2. ReadyIffNotWaiting' /\ ReadyIsDispatchable'
      BY <1>1, <2>1, TaskOwns DEF KernelInv, CoreInv, KernelTypeOK, ReadyIffNotWaiting, ReadyIsDispatchable, HasTcb
    <2> QED BY <1>1, <2>2, ServiceSettles DEF KernelInv, CoreInv, KernelTypeOK, Points
  <1> DEFINE T == {}
  <1>3. /\ T \in SUBSET OSFlagWaitList[g] /\ OS_FlagUnlink(g, T)
        /\ \A t \in Tcb : t \notin T
        /\ \A t \in T : /\ OSTCBStat'[t] = OSTCBStat[t] \ {"FLAG"} /\ OSTCBDly'[t] = 0
                        /\ ~OSTCBPendTO'[t]
    BY DEF OS_FlagUnlink, FlagInv, KernelInv, FlagTypeOK
  <1>4. /\ \A h \in Event : OSFlagType'[h] = "UNUSED" => OSFlagWaitList'[h] = {}
        /\ FlagTypeOK' /\ OSLockNesting' = OSLockNesting
        /\ OSIntNesting = 0 => OSTCBCur \notin OSTCBFlagNode \ T
    BY <1>2 DEF KernelInv, CoreInv
  <1> HIDE DEF T
  <1> QED BY <1>1, <1>2, <1>3, <1>4, FlagService

\* The check that begins a task's call keeps FlagInv, if the call keeps to the rule of
\* use and does not pend under the lock.
LEMMA FlagChecks ==
  ASSUME FlagInv, NEW s, NEW g \in Event, NEW l \in {"pend", "accept", "post", "del", "delalways"},
         NEW n \in Ticks, NEW m \in SUBSET Bit, NEW w \in WaitType, FlagCheck(s, g, l, n, m, w),
         l \in {"pend", "accept"} => Agree(g, w), l = "pend" => OSLockNesting = 0
  PROVE  FlagInv'
  <1> DEFINE mine == [NoLocals EXCEPT !.ev = g, !.arg = n]
             me == OSTCBCur
  <1>1. mine \in Locals /\ mine.ev = g
    BY NoLocalsType DEF Locals, NoLocals
  <1>2. /\ OSIntNesting = 0 /\ me # Idle /\ at[me] = "app" /\ me \in Tcb
        /\ at' = [at EXCEPT ![me] = l] /\ loc' = [loc EXCEPT ![me] = mine] /\ UNCHANGED served
        /\ mask' = [mask EXCEPT ![me] = m] /\ wait' = [wait EXCEPT ![me] = w]
        /\ OSFlagType[g] = "FLAG"
        /\ UNCHANGED <<OSRdyTbl, OSEventTbl, OSLockNesting, tcbVars, tblVars, cpuVars, flagVars>>
    BY DEF FlagCheck, TaskCall, Goto, Keep, FlagInv, KernelInv, CoreInv, KernelTypeOK
  <1> HIDE DEF mine
  <1>3. PlaceTypes /\ Moves(Points, l) /\ loc'[me].ev = g
    BY <1>1, <1>2 DEF PlaceTypes, Moves, FlagInv, KernelInv, CoreInv, KernelTypeOK, Label, Points
  <1>4. /\ mask' \in [Tcb -> SUBSET Bit] /\ wait' \in [Tcb -> WaitType]
        /\ \A t \in Tcb \ {me} : mask'[t] = mask[t] /\ wait'[t] = wait[t]
        /\ wait'[me] = w
    BY <1>2 DEF FlagInv, KernelInv, FlagTypeOK
  <1>5. UNCHANGED <<OSFlagType, OSFlagFlags, OSFlagWaitList, OSFlagFreeList, OSTCBFlagNode, OSTCBFlagsRdy>>
    BY <1>2 DEF flagVars
  <1>6. KernelTypeOK' => FlagTypeOK'
    BY <1>4, <1>5 DEF FlagInv, KernelInv, FlagTypeOK
  <1>7. me \notin OSTCBFlagNode /\ OSTCBFlagsRdy[me] = {}
    BY <1>2, LinkedIs DEF FlagInv, KernelInv, WaitInv, FlagsRdyRight
  <1>8. OneSense => NoMissedFlags'
    <2> SUFFICES ASSUME OneSense, NEW h \in Event, NEW t \in OSFlagWaitList[h]
                 PROVE  ~Enough(OSFlagFlags[h], mask'[t], wait'[t])
      BY <1>5 DEF NoMissedFlags, Enough, FlagsRdy
    <2>1. t \in Tcb \ {me} /\ ~Enough(OSFlagFlags[h], mask[t], wait[t])
      BY <1>7, LinkedIs DEF FlagInv, KernelInv, NoMissedFlags
    <2> QED BY <1>4, <2>1
  <1>9. /\ OneSense /\ l \in {"pend", "accept"} =>
             \A t \in Tcb : t # me /\ Inside(t) /\ loc[t].ev = g => wait[t].set = wait'[me].set
        /\ l = "pend" => OSFlagType'[g] = "FLAG" /\ OSLockNesting = 0
    BY <1>2, <1>4, <1>5 DEF Agree
  <1>10. /\ \A h \in Event : OSFlagType'[h] = "UNUSED" => OSFlagWaitList[h] = {}
         /\ \A t \in Tcb : at[t] = "pend" => OSFlagType'[loc[t].ev] = "FLAG"
    BY <1>5 DEF FlagInv, KernelInv, WaitInv, NodesAlive, GroupsKnown
  <1> QED BY <1>2, <1>3, <1>4, <1>5, <1>6, <1>7, <1>8, <1>9, <1>10, FlagQuiet

\* What a wait consumes is enough for no other wait of the same sense.
LEMMA ConsumedWakesNobody ==
  ASSUME NEW F, NEW rdy, NEW m, NEW w \in WaitType, NEW v \in WaitType, v.set = w.set,
         ~Enough(F, m, v)
  PROVE  ~Enough(Consumed(F, rdy, w), m, v)
  <1>1. CASE v.set
    BY <1>1 DEF Enough, FlagsRdy, Consumed
  <1>2. CASE ~v.set
    BY <1>2 DEF Enough, FlagsRdy, Consumed
  <1> QED BY <1>1, <1>2

\* The region that ends a service, and the arguments of its call.
LEMMA FlagReturns ==
  ASSUME FlagInv, NEW l \in {"app", "sched"}, FlagReturn(l),
         OSIntNesting = 0 => at[OSTCBCur] \in Points \ {"app"}
  PROVE  /\ PlaceTypes /\ Moves(Points, l) /\ OSTCBCur \in Tcb
         /\ mask' \in [Tcb -> SUBSET Bit] /\ wait' \in [Tcb -> WaitType]
         /\ \A t \in Tcb : OSIntNesting # 0 \/ t # OSTCBCur => mask'[t] = mask[t] /\ wait'[t] = wait[t]
  <1>1. PlaceTypes /\ Moves(Points \ {"app"}, l) /\ OSTCBCur \in Tcb
    BY ReturnMoves DEF FlagReturn, FlagInv, KernelInv
  <1>2. Moves(Points, l)
    BY <1>1 DEF Moves
  <1>3. mask \in [Tcb -> SUBSET Bit] /\ wait \in [Tcb -> WaitType] /\ NoWait \in WaitType
    BY DEF FlagInv, KernelInv, FlagTypeOK, NoWait, WaitType
  <1>4. CASE OSIntNesting = 0
    <2>1. mask' = [mask EXCEPT ![OSTCBCur] = {}] /\ wait' = [wait EXCEPT ![OSTCBCur] = NoWait]
      BY <1>4 DEF FlagReturn
    <2> QED BY <1>1, <1>2, <1>3, <1>4, <2>1
  <1>5. CASE OSIntNesting # 0
    <2>1. mask' = mask /\ wait' = wait
      BY <1>5 DEF FlagReturn, argVars, FlagInv, KernelInv, CoreInv, KernelTypeOK
    <2> QED BY <1>1, <1>2, <1>3, <2>1
  <1> QED BY <1>4, <1>5

\* A region that ends a call and consumes flags keeps FlagInv, if the group's waits
\* are of the same sense as the call.
LEMMA FlagConsumes ==
  ASSUME FlagInv, NEW g \in Event, NEW w \in WaitType, NEW rdy \in SUBSET Bit,
         OSFlagFlags' \in {OSFlagFlags,
                           [OSFlagFlags EXCEPT ![g] = Consumed(OSFlagFlags[g], rdy, w)]},
         OneSense => \A t \in OSFlagWaitList[g] : wait[t].set = w.set,
         FlagReturn("app"),
         OSIntNesting = 0 => at[OSTCBCur] \in Points \ {"app"} /\ OSTCBCur \notin OSTCBFlagNode,
         UNCHANGED <<OSRdyTbl, OSEventTbl, OSLockNesting, tcbVars, tblVars, cpuVars, OSFlagType,
                     OSFlagWaitList, OSFlagFreeList, OSTCBFlagNode>>,
         OSTCBFlagsRdy' \in [Tcb -> SUBSET Bit],
         \A t \in Tcb : OSTCBFlagsRdy'[t] = {} \/ OSTCBFlagsRdy'[t] = OSTCBFlagsRdy[t],
         OSIntNesting = 0 => OSTCBFlagsRdy'[OSTCBCur] = {}
  PROVE  FlagInv'
  <1>1. /\ PlaceTypes /\ Moves(Points, "app") /\ OSTCBCur \in Tcb
        /\ mask' \in [Tcb -> SUBSET Bit] /\ wait' \in [Tcb -> WaitType]
        /\ \A t \in Tcb : OSIntNesting # 0 \/ t # OSTCBCur => mask'[t] = mask[t] /\ wait'[t] = wait[t]
    BY FlagReturns
  <1>2. OSFlagFlags \in [Event -> SUBSET Bit]
    BY DEF FlagInv, KernelInv, FlagTypeOK
  <1>3. /\ OSFlagFlags' \in [Event -> SUBSET Bit]
        /\ \A h \in Event \ {g} : OSFlagFlags'[h] = OSFlagFlags[h]
        /\ OSFlagFlags'[g] \in {OSFlagFlags[g], Consumed(OSFlagFlags[g], rdy, w)}
    <2>1. Consumed(OSFlagFlags[g], rdy, w) \in SUBSET Bit
      BY <1>2 DEF Consumed
    <2> QED BY <1>2, <2>1
  <1>4. KernelTypeOK' => FlagTypeOK'
    BY <1>1, <1>3 DEF FlagInv, KernelInv, FlagTypeOK
  <1>5. OneSense => NoMissedFlags'
    <2> SUFFICES ASSUME OneSense, NEW h \in Event, NEW t \in OSFlagWaitList[h]
                 PROVE  ~Enough(OSFlagFlags'[h], mask'[t], wait'[t])
      BY DEF NoMissedFlags, Enough, FlagsRdy
    <2>1. /\ t \in Tcb /\ (OSIntNesting # 0 \/ t # OSTCBCur)
          /\ ~Enough(OSFlagFlags[h], mask[t], wait[t]) /\ wait[t] \in WaitType
      BY LinkedIs DEF FlagInv, KernelInv, FlagTypeOK, NoMissedFlags
    <2>2. ~Enough(OSFlagFlags'[h], mask[t], wait[t])
      <3>1. CASE h = g
        BY <1>3, <2>1, <3>1, ConsumedWakesNobody
      <3>2. CASE h # g
        BY <1>3, <2>1, <3>2
      <3> QED BY <3>1, <3>2
    <2>3. mask'[t] = mask[t] /\ wait'[t] = wait[t]
      BY <1>1, <2>1
    <2> QED BY <2>2, <2>3
  <1>6. /\ \A h \in Event : OSFlagType'[h] = "UNUSED" => OSFlagWaitList[h] = {}
        /\ \A t \in Tcb : at[t] = "pend" => OSFlagType'[loc[t].ev] = "FLAG"
    BY DEF FlagInv, KernelInv, WaitInv, NodesAlive, GroupsKnown
  <1> QED BY <1>1, <1>4, <1>5, <1>6, FlagQuiet

\* The tasks that wait in a list are inside OSFlagPend for its group.
LEMMA WaitersInside ==
  ASSUME FlagInv
  PROVE  \A g \in Event : \A t \in OSFlagWaitList[g] : t \in Tcb /\ Inside(t) /\ loc[t].ev = g
  BY LinkedIs DEF Inside

\* OSFlagAccept keeps FlagInv, in a task and in a handler.
LEMMA FlagAccepts ==
  ASSUME FlagInv, NEW g \in Event, NEW m \in SUBSET Bit, NEW w \in WaitType, OSFlagAccept(g, m, w)
  PROVE  FlagInv'
  <1>1. /\ Agree(g, w) /\ FlagRuns("OSFlagAccept", g, "accept", m, w) /\ FlagReturn("app")
        /\ UNCHANGED <<OSRdyTbl, OSEventTbl, OSLockNesting, tcbVars, tblVars, cpuVars, OSFlagType,
                       OSFlagWaitList, OSFlagFreeList, OSTCBFlagNode, OSTCBFlagsRdy>>
        /\ OSFlagFlags' = [OSFlagFlags EXCEPT ![g] =
             IF Enough(OSFlagFlags[g], m, w)
             THEN Consumed(OSFlagFlags[g], FlagsRdy(OSFlagFlags[g], m, w), w) ELSE OSFlagFlags[g]]
    BY DEF OSFlagAccept
  <1>2. /\ OSFlagFlags \in [Event -> SUBSET Bit] /\ OSTCBFlagsRdy \in [Tcb -> SUBSET Bit]
        /\ OSTCBCur \in Tcb /\ OSIntNesting \in Nat
    BY DEF FlagInv, FlagTypeOK, KernelInv, CoreInv, KernelTypeOK
  <1>3. /\ FlagsRdy(OSFlagFlags[g], m, w) \in SUBSET Bit
        /\ OSFlagFlags' \in {OSFlagFlags,
             [OSFlagFlags EXCEPT ![g] = Consumed(OSFlagFlags[g], FlagsRdy(OSFlagFlags[g], m, w), w)]}
    BY <1>1, <1>2 DEF FlagsRdy
  <1>4. OSIntNesting = 0 => at[OSTCBCur] = "accept"
    BY <1>1, <1>2 DEF FlagRuns, InTask, IsrCall
  <1>5. OSIntNesting = 0 => /\ at[OSTCBCur] \in Points \ {"app"} /\ OSTCBCur \notin OSTCBFlagNode
                            /\ OSTCBFlagsRdy[OSTCBCur] = {}
    BY <1>2, <1>4, LinkedIs DEF Points, FlagInv, KernelInv, WaitInv, FlagsRdyRight
  <1>6. OneSense => \A t \in OSFlagWaitList[g] : wait[t].set = w.set
    BY <1>1, WaitersInside DEF Agree
  <1> QED BY <1>1, <1>2, <1>3, <1>5, <1>6, FlagConsumes

\* The tasks that wait in the list of the running pender's group agree with it.
LEMMA PendersAgree ==
  ASSUME FlagInv, Inside(OSTCBCur)
  PROVE  /\ loc[OSTCBCur].ev \in Event
         /\ OneSense => \A t \in OSFlagWaitList[loc[OSTCBCur].ev] : wait[t].set = wait[OSTCBCur].set
  <1>1. OSTCBCur \in Tcb
    BY DEF FlagInv, KernelInv, CoreInv, KernelTypeOK
  <1> QED BY <1>1, WaitersInside DEF FlagInv, KernelInv, WaitInv, SensesAgree, GroupsKnown

\* A pend that finds the flags there keeps FlagInv.
LEMMA FlagTakes == ASSUME FlagInv, OSFlagPend_Take PROVE FlagInv'
  <1> DEFINE g == loc[OSTCBCur].ev
             w == wait[OSTCBCur]
             rdy == FlagsRdy(OSFlagFlags[g], mask[OSTCBCur], w)
  <1>1. /\ OSIntNesting = 0 /\ at[OSTCBCur] = "pend" /\ FlagReturn("app")
        /\ OSFlagFlags' = [OSFlagFlags EXCEPT ![g] = Consumed(OSFlagFlags[g], rdy, w)]
        /\ UNCHANGED <<OSRdyTbl, OSEventTbl, OSLockNesting, tcbVars, tblVars, cpuVars, OSFlagType,
                       OSFlagWaitList, OSFlagFreeList, OSTCBFlagNode, OSTCBFlagsRdy>>
    BY DEF OSFlagPend_Take, InTask
  <1>2. /\ OSFlagFlags \in [Event -> SUBSET Bit] /\ OSTCBFlagsRdy \in [Tcb -> SUBSET Bit]
        /\ OSTCBCur \in Tcb /\ wait[OSTCBCur] \in WaitType /\ mask[OSTCBCur] \in SUBSET Bit
    BY DEF FlagInv, FlagTypeOK, KernelInv, CoreInv, KernelTypeOK
  <1>3. /\ g \in Event /\ w \in WaitType
        /\ OneSense => \A t \in OSFlagWaitList[g] : wait[t].set = w.set
    BY <1>1, <1>2, PendersAgree DEF Inside
  <1>4. rdy \in SUBSET Bit
    BY <1>2, <1>3 DEF FlagsRdy
  <1>5. /\ at[OSTCBCur] \in Points \ {"app"} /\ OSTCBCur \notin OSTCBFlagNode
        /\ OSTCBFlagsRdy[OSTCBCur] = {}
    BY <1>1, <1>2, LinkedIs DEF Points, FlagInv, KernelInv, WaitInv, FlagsRdyRight
  <1> HIDE DEF g, w, rdy
  <1> QED BY <1>1, <1>2, <1>3, <1>4, <1>5, FlagConsumes

\* A pend that a post has ended keeps FlagInv when it consumes its flags.
LEMMA FlagDone == ASSUME FlagInv, OSFlagPend_Done PROVE FlagInv'
  <1> DEFINE me == OSTCBCur
             g == loc[OSTCBCur].ev
             w == wait[OSTCBCur]
             rdy == OSTCBFlagsRdy[OSTCBCur]
  <1>1. /\ OSIntNesting = 0 /\ at[me] = "pendwake" /\ FlagReturn("app") /\ ~OSTCBPendTO[me]
        /\ OSFlagFlags' = [OSFlagFlags EXCEPT ![g] = Consumed(@, rdy, w)]
        /\ OSTCBFlagsRdy' = [OSTCBFlagsRdy EXCEPT ![me] = {}]
        /\ UNCHANGED <<OSRdyTbl, OSEventTbl, OSLockNesting, tcbVars, tblVars, cpuVars, OSFlagType,
                       OSFlagWaitList, OSFlagFreeList, OSTCBFlagNode>>
    BY DEF OSFlagPend_Done, InTask
  <1>2. /\ OSFlagFlags \in [Event -> SUBSET Bit] /\ OSTCBFlagsRdy \in [Tcb -> SUBSET Bit]
        /\ me \in Tcb /\ w \in WaitType /\ rdy \in SUBSET Bit
    BY DEF FlagInv, FlagTypeOK, KernelInv, CoreInv, KernelTypeOK
  <1>3. g \in Event /\ (OneSense => \A t \in OSFlagWaitList[g] : wait[t].set = w.set)
    BY <1>1, PendersAgree DEF Inside
  <1>4. me \in OSTCBList /\ ~Deleting(me) /\ OSTCBStat[me] = {}
    BY <1>1, RunnerAwake DEF FlagInv, KernelInv, WaitInv
  <1>5. at[me] \in Points \ {"app"} /\ me \notin OSTCBFlagNode
    BY <1>1, <1>4, NodeOf DEF Points
  <1>6. /\ OSTCBFlagsRdy' \in [Tcb -> SUBSET Bit] /\ OSTCBFlagsRdy'[me] = {}
        /\ \A t \in Tcb : OSTCBFlagsRdy'[t] = {} \/ OSTCBFlagsRdy'[t] = OSTCBFlagsRdy[t]
    BY <1>1, <1>2
  <1>7. OSFlagFlags' = [OSFlagFlags EXCEPT ![g] = Consumed(OSFlagFlags[g], rdy, w)]
    BY <1>1, <1>2, <1>3
  <1> HIDE DEF g, w, rdy
  <1> QED BY <1>1, <1>2, <1>3, <1>5, <1>6, <1>7, FlagConsumes

\* OSFlagCreate keeps FlagInv: nobody waits in a free group's list.
LEMMA FlagCreates ==
  ASSUME FlagInv, NEW F \in SUBSET Bit, OSFlagCreate(F) PROVE FlagInv'
  <1> PICK g \in OSFlagFreeList :
        /\ OSFlagFreeList' = OSFlagFreeList \ {g}
        /\ OSFlagType' = [OSFlagType EXCEPT ![g] = "FLAG"]
        /\ OSFlagFlags' = [OSFlagFlags EXCEPT ![g] = F]
        /\ OSFlagWaitList' = [OSFlagWaitList EXCEPT ![g] = {}]
    BY DEF OSFlagCreate
  <1>1. /\ OSIntNesting = 0 /\ at[OSTCBCur] = "app" /\ OSTCBCur # Idle /\ OSTCBCur \in Tcb
        /\ UNCHANGED <<OSRdyTbl, OSEventTbl, OSLockNesting, tcbVars, tblVars, cpuVars>>
        /\ UNCHANGED <<at, loc, served, mask, wait, OSTCBFlagNode, OSTCBFlagsRdy>>
    BY DEF OSFlagCreate, TaskCall, coreVars, argVars, FlagInv, KernelInv, CoreInv, KernelTypeOK
  <1>2. PlaceTypes /\ Moves(Points, "app")
    BY <1>1 DEF PlaceTypes, Moves, Points, FlagInv, KernelInv, CoreInv, KernelTypeOK
  <1>3. /\ g \in Event /\ OSFlagType[g] = "UNUSED" /\ OSFlagWaitList[g] = {}
        /\ OSFlagType \in [Event -> {"FLAG", "UNUSED"}] /\ OSFlagFlags \in [Event -> SUBSET Bit]
        /\ OSFlagWaitList \in [Event -> SUBSET Tcb]
        /\ OSFlagFreeList = {h \in Event : OSFlagType[h] = "UNUSED"}
    BY DEF FlagInv, KernelInv, FlagTypeOK, WaitInv, NodesAlive
  <1>4. UNCHANGED OSFlagWaitList
    BY <1>3
  <1>5. KernelTypeOK' => FlagTypeOK'
    BY <1>1, <1>3, <1>4 DEF FlagInv, KernelInv, FlagTypeOK
  <1>6. OSTCBCur \notin OSTCBFlagNode /\ OSTCBFlagsRdy[OSTCBCur] = {}
    BY <1>1, LinkedIs DEF FlagInv, KernelInv, WaitInv, FlagsRdyRight
  <1>7. /\ \A h \in Event : OSFlagType'[h] = "UNUSED" => OSFlagWaitList[h] = {}
        /\ \A t \in Tcb : at[t] = "pend" => OSFlagType'[loc[t].ev] = "FLAG"
    BY <1>3 DEF FlagInv, KernelInv, WaitInv, NodesAlive, GroupsKnown, Inside
  <1>8. OneSense => NoMissedFlags'
    <2> SUFFICES ASSUME OneSense, NEW h \in Event, NEW t \in OSFlagWaitList[h]
                 PROVE  ~Enough(OSFlagFlags'[h], mask[t], wait[t])
      BY <1>1, <1>4 DEF NoMissedFlags, Enough, FlagsRdy
    <2>1. OSFlagFlags'[h] = OSFlagFlags[h]
      BY <1>3
    <2> QED BY <2>1 DEF FlagInv, KernelInv, NoMissedFlags
  <1> QED BY <1>1, <1>2, <1>3, <1>4, <1>5, <1>6, <1>7, <1>8, FlagQuiet

\* OSFlagDel without pending tasks keeps FlagInv: nobody is inside OSFlagPend for the
\* group that goes.
LEMMA FlagDeletes ==
  ASSUME FlagInv, NEW g \in Event, OSFlagDel_NoPend(g) PROVE FlagInv'
  <1>1. /\ OSIntNesting = 0 /\ at[OSTCBCur] = "del" /\ Apart(g) /\ FlagReturn("app")
        /\ UNCHANGED <<OSRdyTbl, OSEventTbl, OSLockNesting, tcbVars, tblVars, cpuVars,
                       OSFlagWaitList, OSTCBFlagNode, OSTCBFlagsRdy>>
        /\ IF OSFlagWaitList[g] = {} THEN FreeGroup(g)
           ELSE UNCHANGED <<OSFlagType, OSFlagFlags, OSFlagFreeList>>
    BY DEF OSFlagDel_NoPend, InTask
  <1>2. /\ PlaceTypes /\ Moves(Points, "app") /\ OSTCBCur \in Tcb
        /\ mask' \in [Tcb -> SUBSET Bit] /\ wait' \in [Tcb -> WaitType]
        /\ \A t \in Tcb : OSIntNesting # 0 \/ t # OSTCBCur => mask'[t] = mask[t] /\ wait'[t] = wait[t]
    BY <1>1, FlagReturns DEF Points
  <1>3. /\ OSFlagType \in [Event -> {"FLAG", "UNUSED"}] /\ OSFlagFlags \in [Event -> SUBSET Bit]
        /\ OSFlagFreeList = {h \in Event : OSFlagType[h] = "UNUSED"}
    BY DEF FlagInv, KernelInv, FlagTypeOK
  <1>4. /\ OSFlagType' \in [Event -> {"FLAG", "UNUSED"}] /\ OSFlagFlags' \in [Event -> SUBSET Bit]
        /\ OSFlagFreeList' = {h \in Event : OSFlagType'[h] = "UNUSED"}
        /\ \A h \in Event : OSFlagWaitList[h] # {} \/ h # g =>
             OSFlagType'[h] = OSFlagType[h] /\ OSFlagFlags'[h] = OSFlagFlags[h]
    BY <1>1, <1>3 DEF FreeGroup
  <1>5. KernelTypeOK' => FlagTypeOK'
    BY <1>1, <1>2, <1>4 DEF FlagInv, KernelInv, FlagTypeOK
  <1>6. OSTCBCur \notin OSTCBFlagNode /\ OSTCBFlagsRdy[OSTCBCur] = {}
    BY <1>1, <1>2, LinkedIs DEF FlagInv, KernelInv, WaitInv, FlagsRdyRight
  <1>7. \A h \in Event : OSFlagType'[h] = "UNUSED" => OSFlagWaitList[h] = {}
    BY <1>4 DEF FlagInv, KernelInv, WaitInv, NodesAlive
  <1>8. ASSUME NEW t \in Tcb, at[t] = "pend", t # OSTCBCur PROVE OSFlagType'[loc[t].ev] = "FLAG"
    <2>1. loc[t].ev \in Event /\ loc[t].ev # g /\ OSFlagType[loc[t].ev] = "FLAG"
      BY <1>1, <1>8 DEF Apart, FlagInv, KernelInv, WaitInv, GroupsKnown, Inside
    <2> QED BY <1>4, <2>1
  <1>9. OneSense => NoMissedFlags'
    <2> SUFFICES ASSUME OneSense, NEW h \in Event, NEW t \in OSFlagWaitList[h]
                 PROVE  ~Enough(OSFlagFlags'[h], mask'[t], wait'[t])
      BY <1>1 DEF NoMissedFlags, Enough, FlagsRdy
    <2>1. t \in Tcb /\ t # OSTCBCur /\ ~Enough(OSFlagFlags[h], mask[t], wait[t])
      BY <1>6, LinkedIs DEF FlagInv, KernelInv, NoMissedFlags
    <2> QED BY <1>2, <1>4, <2>1
  <1> QED BY <1>1, <1>2, <1>5, <1>6, <1>7, <1>8, <1>9, FlagQuiet

\* OS_FlagTaskRdy for some tasks of a list, at the end of a service, keeps FlagInv:
\* exactly those become ready that wait for nothing more.
LEMMA FlagWakes ==
  ASSUME FlagInv, NEW g \in Event, NEW T \in SUBSET OSFlagWaitList[g],
         NEW rdy \in [T -> SUBSET Bit], OS_FlagTaskRdy(g, T, rdy),
         NEW l \in {"app", "sched"}, FlagReturn(l),
         OSIntNesting = 0 => at[OSTCBCur] \in {"post", "delalways"},
         l = "sched" \/ \A t \in T : ~(OSTCBStat[t] \subseteq {"FLAG"}),
         \A t \in T : \/ rdy[t] = {}
                      \/ IF wait[t].all THEN rdy[t] = mask[t] ELSE rdy[t] \subseteq mask[t],
         UNCHANGED <<OSEventTbl, OSLockNesting, tblVars, cpuVars>>,
         OSFlagType' \in [Event -> {"FLAG", "UNUSED"}], OSFlagFlags' \in [Event -> SUBSET Bit],
         OSFlagFreeList' = {h \in Event : OSFlagType'[h] = "UNUSED"},
         \A h \in Event : OSFlagType'[h] = "UNUSED" => OSFlagWaitList[h] \subseteq T,
         \A t \in Tcb : at[t] = "pend" /\ (OSIntNesting # 0 \/ t # OSTCBCur)
                        => OSFlagType'[loc[t].ev] = "FLAG",
         OneSense => \A h \in Event : \A t \in OSFlagWaitList[h] \ T :
                       ~Enough(OSFlagFlags'[h], mask[t], wait[t])
  PROVE  FlagInv'
  <1>1. /\ OSTCBDly' = [t \in Tcb |-> IF t \in T THEN 0 ELSE OSTCBDly[t]]
        /\ OSTCBFlagsRdy' = [t \in Tcb |-> IF t \in T THEN rdy[t] ELSE OSTCBFlagsRdy[t]]
        /\ OSTCBStat' = [t \in Tcb |-> IF t \in T THEN OSTCBStat[t] \ {"FLAG"} ELSE OSTCBStat[t]]
        /\ OSTCBPendTO' = [t \in Tcb |-> IF t \in T THEN FALSE ELSE OSTCBPendTO[t]]
        /\ OSRdyTbl' = OSRdyTbl \cup {OSTCBPrio[t] : t \in {u \in T : OSTCBStat[u] \subseteq {"FLAG"}}}
        /\ OS_FlagUnlink(g, T) /\ UNCHANGED <<OSTCBPrio, OSTCBEventPtr>>
    BY DEF OS_FlagTaskRdy
  <1>2. /\ PlaceTypes /\ Moves(Points, l) /\ OSTCBCur \in Tcb
        /\ mask' \in [Tcb -> SUBSET Bit] /\ wait' \in [Tcb -> WaitType]
        /\ \A t \in Tcb : OSIntNesting # 0 \/ t # OSTCBCur => mask'[t] = mask[t] /\ wait'[t] = wait[t]
    BY FlagReturns DEF Points
  <1>3. UNCHANGED <<OSTCBPrioTbl, OSTCBList, OSTCBFreeList, OSTCBCur, OSIntNesting>>
    BY DEF tblVars, cpuVars
  <1>4. \A t \in T : t \in OSTCBList /\ t \in Tcb /\ ~Deleting(t) /\ t \in OSTCBFlagNode
    BY LinkedIs
  <1>5. /\ \A t \in Tcb \ T : OSTCBStat'[t] = OSTCBStat[t] /\ OSTCBDly'[t] = OSTCBDly[t]
        /\ \A t \in T : OSTCBStat'[t] = OSTCBStat[t] \ {"FLAG"} /\ OSTCBDly'[t] = 0
    BY <1>1, <1>4
  <1>6. (\A t \in Tcb \ T : OSTCBPendTO'[t] = OSTCBPendTO[t]) /\ \A t \in T : ~OSTCBPendTO'[t]
    BY <1>1, <1>4, Zenon
  <1>7. \A t \in Tcb : Deleting(t)' <=> Deleting(t)
    BY <1>2, <1>3 DEF Deleting, Moves, Points
  <1>8. KernelInv'
    <2>1. /\ OSEventTbl' \in [Event -> SUBSET Prio] /\ OSRdyTbl' \subseteq Prio
          /\ OSTCBEventPtr' \in [Tcb -> Event \cup {NullEvent}]
          /\ OSTCBStat' \in [Tcb -> SUBSET Stat]
      BY <1>1, <1>4 DEF FlagInv, KernelInv, CoreInv, KernelTypeOK
    <2>2. OSTCBPendTO' \in [Tcb -> BOOLEAN]
      BY <1>1, Zenon DEF FlagInv, KernelInv, CoreInv, KernelTypeOK
    <2>3. OSTCBDly' \in [Tcb -> Ticks]
      BY <1>1, CoreAssumption DEF FlagInv, KernelInv, CoreInv, KernelTypeOK, Ticks
    <2>4. ReadyIffNotWaiting'
      <3> SUFFICES ASSUME NEW u \in OSTCBList, u \in Tcb, ~Deleting(u)
                   PROVE  OSTCBPrio[u] \in OSRdyTbl' <=> OSTCBStat'[u] = {} /\ OSTCBDly'[u] = 0
        BY <1>1, <1>3, <1>7 DEF ReadyIffNotWaiting, FlagInv, KernelInv, CoreInv, KernelTypeOK
      <3>1. OSTCBPrio[u] \in OSRdyTbl <=> OSTCBStat[u] = {} /\ OSTCBDly[u] = 0
        BY DEF FlagInv, KernelInv, CoreInv, ReadyIffNotWaiting
      <3>2. OSTCBPrio[u] \in OSRdyTbl' <=>
              OSTCBPrio[u] \in OSRdyTbl \/ (u \in T /\ OSTCBStat[u] \subseteq {"FLAG"})
        <4>1. \A v \in T : OSTCBPrio[v] = OSTCBPrio[u] => v = u
          BY <1>4, OneTaskPerPrio DEF FlagInv, KernelInv, CoreInv
        <4> QED BY <1>1, <4>1
      <3>3. CASE u \in T
        BY <1>5, <3>1, <3>2, <3>3
      <3>4. CASE u \notin T
        BY <1>5, <3>1, <3>2, <3>4
      <3> QED BY <3>3, <3>4
    <2>5. ReadyIsDispatchable'
      <3>1. \A q \in OSRdyTbl' : /\ q \in Prio /\ HasTcb(q) /\ ~Deleting(OSTCBPrioTbl[q])
                                 /\ OSTCBPrioTbl[q] \notin OSTCBFreeList
        <4> SUFFICES ASSUME NEW q \in OSRdyTbl'
                     PROVE  /\ q \in Prio /\ HasTcb(q) /\ ~Deleting(OSTCBPrioTbl[q])
                            /\ OSTCBPrioTbl[q] \notin OSTCBFreeList
          OBVIOUS
        <4>1. CASE q \in OSRdyTbl
          BY <4>1 DEF FlagInv, KernelInv, CoreInv, KernelTypeOK, ReadyIsDispatchable
        <4>2. CASE q \notin OSRdyTbl
          <5> PICK t \in T : q = OSTCBPrio[t]
            BY <1>1, <4>2
          <5>1. OSTCBPrioTbl[q] = t /\ q \in Prio /\ t \in Tcb /\ t \notin OSTCBFreeList
            BY <1>4 DEF FlagInv, KernelInv, CoreInv, KernelTypeOK, TablesAgree
          <5> QED BY <1>4, <5>1, CoreAssumption DEF HasTcb
        <4> QED BY <4>1, <4>2
      <3>2. \A q \in OSRdyTbl' : OSTCBPrioTbl[q] \in Tcb /\ OSTCBPrio[OSTCBPrioTbl[q]] = q
        BY <3>1, TaskOwns DEF FlagInv, KernelInv
      <3>3. UNCHANGED OSTCBPrio
        BY <1>1
      <3> QED BY <1>3, <1>7, <3>1, <3>2, <3>3 DEF ReadyIsDispatchable, HasTcb
    <2>6. OSRdyTbl' = OSRdyTbl \/ l = "sched"
      BY <1>1
    <2>7. \A u \in Tcb : Deleting(u) \/ u \notin OSTCBList =>
            OSTCBStat'[u] = OSTCBStat[u] /\ OSTCBDly'[u] = OSTCBDly[u]
      BY <1>4, <1>5
    <2>8. KernelInv /\ UNCHANGED <<OSTCBPrio, OSLockNesting, tblVars, cpuVars>> /\ l \in Points \cup {"sched"}
      BY <1>1 DEF FlagInv, KernelInv, Points
    <2> QED BY <1>2, <2>1, <2>2, <2>3, <2>4, <2>5, <2>6, <2>7, <2>8, ServiceSettles
  <1>9. OSTCBFlagsRdy' \in [Tcb -> SUBSET Bit]
    BY <1>1 DEF FlagInv, KernelInv, FlagTypeOK
  <1>10. /\ OSFlagWaitList' = [OSFlagWaitList EXCEPT ![g] = @ \ T]
         /\ OSTCBFlagNode' = OSTCBFlagNode \ T
         /\ OSFlagWaitList \in [Event -> SUBSET Tcb] /\ OSTCBFlagNode \subseteq Tcb
    BY <1>1 DEF OS_FlagUnlink, FlagInv, KernelInv, FlagTypeOK
  <1>11. FlagTypeOK'
    BY <1>2, <1>8, <1>9, <1>10 DEF FlagTypeOK, KernelInv, CoreInv
  <1>12. OSIntNesting = 0 => OSTCBCur \notin OSTCBFlagNode /\ OSTCBFlagsRdy'[OSTCBCur] = {}
    <2> SUFFICES ASSUME OSIntNesting = 0
                 PROVE  OSTCBCur \notin OSTCBFlagNode /\ OSTCBFlagsRdy'[OSTCBCur] = {}
      OBVIOUS
    <2>1. OSTCBCur \notin OSTCBFlagNode /\ OSTCBFlagsRdy[OSTCBCur] = {}
      BY <1>2, LinkedIs DEF FlagInv, KernelInv, WaitInv, FlagsRdyRight
    <2> QED BY <1>1, <1>2, <1>4, <2>1
  <1>13. \A t \in Tcb : \/ OSTCBFlagsRdy'[t] = {}
                        \/ t \notin T /\ OSTCBFlagsRdy'[t] = OSTCBFlagsRdy[t]
                        \/ t \in T /\ IF wait[t].all THEN OSTCBFlagsRdy'[t] = mask[t]
                                      ELSE OSTCBFlagsRdy'[t] \subseteq mask[t]
    BY <1>1
  <1>14. \A h \in Event : OSFlagType'[h] = "UNUSED" => OSFlagWaitList'[h] = {}
    <2> SUFFICES ASSUME NEW h \in Event, OSFlagType'[h] = "UNUSED", NEW t \in OSFlagWaitList'[h]
                 PROVE  FALSE
      OBVIOUS
    <2>1. t \in OSFlagWaitList[h] /\ t \in T /\ (h = g => t \notin T)
      BY <1>10
    <2> QED BY <2>1, LinkedIs
  <1>15. OneSense => NoMissedFlags'
    <2> SUFFICES ASSUME OneSense, NEW h \in Event, NEW t \in OSFlagWaitList'[h]
                 PROVE  ~Enough(OSFlagFlags'[h], mask'[t], wait'[t])
      BY DEF NoMissedFlags, Enough, FlagsRdy
    <2>1. t \in OSFlagWaitList[h] \ T
      <3>1. CASE h = g
        BY <1>10, <3>1
      <3>2. CASE h # g
        BY <1>10, <3>2, LinkedIs
      <3> QED BY <3>1, <3>2
    <2>2. t \in Tcb /\ (OSIntNesting # 0 \/ t # OSTCBCur)
      BY <1>12, <2>1, LinkedIs
    <2> QED BY <1>2, <2>1, <2>2
  <1>16. OSIntNesting = 0 => OSTCBCur \notin OSTCBFlagNode \ T
    BY <1>12
  <1>17. /\ \A t \in Tcb \ T : /\ OSTCBStat'[t] = OSTCBStat[t] /\ OSTCBDly'[t] = OSTCBDly[t]
                               /\ OSTCBPendTO'[t] = OSTCBPendTO[t]
         /\ \A t \in T : /\ OSTCBStat'[t] = OSTCBStat[t] \ {"FLAG"} /\ OSTCBDly'[t] = 0
                         /\ ~OSTCBPendTO'[t]
    BY <1>5, <1>6
  <1>18. OS_FlagUnlink(g, T) /\ UNCHANGED <<OSTCBList, OSTCBCur, OSIntNesting, OSLockNesting>>
    BY <1>1, <1>3
  <1>19. /\ l \in {"app", "sched", "pend", "accept", "post", "del", "delalways"}
         /\ l \notin {"pend", "accept"} /\ l # "pend"
    OBVIOUS
  <1> QED BY <1>2, <1>8, <1>11, <1>12, <1>13, <1>14, <1>15, <1>16, <1>17, <1>18, <1>19, FlagService

\* OSFlagPost keeps FlagInv: every wait that the new flags are enough for ends.
LEMMA FlagPosts ==
  ASSUME FlagInv, NEW g \in Event, NEW m \in SUBSET Bit, NEW w \in WaitType, OSFlagPost(g, m, w)
  PROVE  FlagInv'
  <1> DEFINE F == IF w.set THEN OSFlagFlags[g] \cup m ELSE OSFlagFlags[g] \ m
             T == Woken(g, F)
             rdy == [t \in T |-> FlagsRdy(F, mask[t], wait[t])]
             l == IF \E t \in T : OSTCBStat[t] \subseteq {"FLAG"} THEN "sched" ELSE "app"
  <1>1. /\ FlagRuns("OSFlagPost", g, "post", m, w) /\ OSFlagFlags' = [OSFlagFlags EXCEPT ![g] = F]
        /\ OS_FlagTaskRdy(g, T, rdy) /\ FlagReturn(l)
        /\ UNCHANGED <<OSEventTbl, OSLockNesting, tblVars, cpuVars, OSFlagType, OSFlagFreeList>>
    BY DEF OSFlagPost
  <1>2. /\ OSFlagFlags \in [Event -> SUBSET Bit] /\ mask \in [Tcb -> SUBSET Bit]
        /\ OSIntNesting \in Nat
    BY DEF FlagInv, FlagTypeOK, KernelInv, CoreInv, KernelTypeOK
  <1>3. F \in SUBSET Bit
    BY <1>2
  <1> HIDE DEF F
  <1>4. /\ T \in SUBSET OSFlagWaitList[g]
        /\ \A t \in T : Enough(F, mask[t], wait[t])
        /\ \A t \in OSFlagWaitList[g] \ T : ~Enough(F, mask[t], wait[t])
    BY DEF Woken
  <1> HIDE DEF T
  <1>5. /\ rdy \in [T -> SUBSET Bit]
        /\ \A t \in T : IF wait[t].all THEN rdy[t] = mask[t] ELSE rdy[t] \subseteq mask[t]
    <2>1. \A t \in T : t \in Tcb
      BY <1>4, LinkedIs
    <2>2. \A t \in T : FlagsRdy(F, mask[t], wait[t]) \in SUBSET Bit
      BY <1>2, <1>3, <2>1 DEF FlagsRdy
    <2>3. \A t \in T : IF wait[t].all THEN FlagsRdy(F, mask[t], wait[t]) = mask[t]
                       ELSE FlagsRdy(F, mask[t], wait[t]) \subseteq mask[t]
      BY <1>4 DEF Enough, FlagsRdy
    <2> QED BY <2>2, <2>3
  <1>6. l \in {"app", "sched"} /\ (l = "sched" \/ \A t \in T : ~(OSTCBStat[t] \subseteq {"FLAG"}))
    OBVIOUS
  <1> HIDE DEF rdy, l
  <1>7. OSIntNesting = 0 => at[OSTCBCur] \in {"post", "delalways"}
    BY <1>1, <1>2 DEF FlagRuns, InTask, IsrCall
  <1>8. /\ OSFlagType' \in [Event -> {"FLAG", "UNUSED"}] /\ OSFlagFlags' \in [Event -> SUBSET Bit]
        /\ OSFlagFreeList' = {h \in Event : OSFlagType'[h] = "UNUSED"}
    BY <1>1, <1>2, <1>3 DEF FlagInv, KernelInv, FlagTypeOK
  <1>9. /\ \A h \in Event : OSFlagType'[h] = "UNUSED" => OSFlagWaitList[h] \subseteq T
        /\ \A t \in Tcb : at[t] = "pend" => OSFlagType'[loc[t].ev] = "FLAG"
    BY <1>1 DEF FlagInv, KernelInv, WaitInv, NodesAlive, GroupsKnown
  <1>10. OneSense => \A h \in Event : \A t \in OSFlagWaitList[h] \ T :
                       ~Enough(OSFlagFlags'[h], mask[t], wait[t])
    <2> SUFFICES ASSUME OneSense, NEW h \in Event, NEW t \in OSFlagWaitList[h] \ T
                 PROVE  ~Enough(OSFlagFlags'[h], mask[t], wait[t])
      OBVIOUS
    <2>1. CASE h = g
      BY <1>1, <1>2, <1>4, <2>1
    <2>2. CASE h # g
      BY <1>1, <1>2, <2>2 DEF FlagInv, KernelInv, NoMissedFlags
    <2> QED BY <2>1, <2>2
  <1>11. /\ \A t \in T : \/ rdy[t] = {}
                         \/ IF wait[t].all THEN rdy[t] = mask[t] ELSE rdy[t] \subseteq mask[t]
         /\ \A t \in Tcb : at[t] = "pend" /\ (OSIntNesting # 0 \/ t # OSTCBCur)
                          => OSFlagType'[loc[t].ev] = "FLAG"
    BY <1>5, <1>9
  <1>12. UNCHANGED <<OSEventTbl, OSLockNesting, tblVars, cpuVars>>
    BY <1>1
  <1>13. OS_FlagTaskRdy(g, T, rdy) /\ FlagReturn(l) /\ T \in SUBSET OSFlagWaitList[g]
         /\ rdy \in [T -> SUBSET Bit]
    BY <1>1, <1>4, <1>5
  <1>14. \A h \in Event : OSFlagType'[h] = "UNUSED" => OSFlagWaitList[h] \subseteq T
    BY <1>9
  <1> QED BY <1>6, <1>7, <1>8, <1>10, <1>11, <1>12, <1>13, <1>14, FlagWakes

\* OSFlagDel keeps FlagInv when it wakes all who wait, with no flags.
LEMMA FlagDeletesAlways ==
  ASSUME FlagInv, NEW g \in Event, OSFlagDel_Always(g) PROVE FlagInv'
  <1> DEFINE T == OSFlagWaitList[g]
             rdy == [t \in T |-> {}]
             l == IF T = {} THEN "app" ELSE "sched"
  <1>1. /\ OSIntNesting = 0 /\ at[OSTCBCur] = "delalways" /\ Apart(g)
        /\ OS_FlagTaskRdy(g, T, rdy) /\ FlagReturn(l)
        /\ OSFlagType' = [OSFlagType EXCEPT ![g] = "UNUSED"]
        /\ OSFlagFlags' = [OSFlagFlags EXCEPT ![g] = {}]
        /\ OSFlagFreeList' = OSFlagFreeList \cup {g}
        /\ UNCHANGED <<OSEventTbl, OSLockNesting, tblVars, cpuVars>>
    BY DEF OSFlagDel_Always, FreeGroup, InTask
  <1>2. rdy \in [T -> SUBSET Bit] /\ \A t \in T : rdy[t] = {}
    OBVIOUS
  <1>3. l \in {"app", "sched"} /\ (l = "sched" \/ \A t \in T : ~(OSTCBStat[t] \subseteq {"FLAG"}))
    OBVIOUS
  <1> HIDE DEF rdy, l
  <1>4. /\ OSFlagType' \in [Event -> {"FLAG", "UNUSED"}] /\ OSFlagFlags' \in [Event -> SUBSET Bit]
        /\ OSFlagFreeList' = {h \in Event : OSFlagType'[h] = "UNUSED"}
        /\ \A h \in Event \ {g} : OSFlagType'[h] = OSFlagType[h] /\ OSFlagFlags'[h] = OSFlagFlags[h]
    BY <1>1 DEF FlagInv, KernelInv, FlagTypeOK
  <1>5. \A h \in Event : OSFlagType'[h] = "UNUSED" => OSFlagWaitList[h] \subseteq T
    BY <1>4 DEF FlagInv, KernelInv, WaitInv, NodesAlive
  <1>6. ASSUME NEW t \in Tcb, at[t] = "pend", t # OSTCBCur PROVE OSFlagType'[loc[t].ev] = "FLAG"
    <2>1. loc[t].ev \in Event /\ loc[t].ev # g /\ OSFlagType[loc[t].ev] = "FLAG"
      BY <1>1, <1>6 DEF Apart, FlagInv, KernelInv, WaitInv, GroupsKnown, Inside
    <2> QED BY <1>4, <2>1
  <1>7. OneSense => \A h \in Event : \A t \in OSFlagWaitList[h] \ T :
                      ~Enough(OSFlagFlags'[h], mask[t], wait[t])
    BY <1>4 DEF FlagInv, KernelInv, NoMissedFlags
  <1>8. OS_FlagTaskRdy(g, T, rdy) /\ FlagReturn(l) /\ T \in SUBSET OSFlagWaitList[g]
        /\ UNCHANGED <<OSEventTbl, OSLockNesting, tblVars, cpuVars>>
    BY <1>1
  <1>9. /\ OSIntNesting = 0 => at[OSTCBCur] \in {"post", "delalways"}
        /\ \A t \in T : \/ rdy[t] = {}
                        \/ IF wait[t].all THEN rdy[t] = mask[t] ELSE rdy[t] \subseteq mask[t]
        /\ \A t \in Tcb : at[t] = "pend" /\ (OSIntNesting # 0 \/ t # OSTCBCur)
                         => OSFlagType'[loc[t].ev] = "FLAG"
    BY <1>1, <1>2, <1>6
  <1> HIDE DEF T
  <1> QED BY <1>2, <1>3, <1>4, <1>5, <1>7, <1>8, <1>9, FlagWakes

\* A pend that timed out keeps FlagInv: the task unlinks its own node.
LEMMA FlagTimesOut == ASSUME FlagInv, OSFlagPend_Timeout PROVE FlagInv'
  <1> DEFINE me == OSTCBCur
             g == loc[OSTCBCur].ev
             T == {me}
  <1>1. /\ OSIntNesting = 0 /\ at[me] = "pendwake" /\ OSTCBPendTO[me] /\ FlagReturn("app")
        /\ OS_FlagUnlink(g, T)
        /\ OSTCBPendTO' = [OSTCBPendTO EXCEPT ![me] = FALSE]
        /\ OSTCBStat' = [OSTCBStat EXCEPT ![me] = {}]
        /\ UNCHANGED <<OSRdyTbl, OSEventTbl, OSLockNesting, OSTCBPrio, OSTCBDly, OSTCBEventPtr,
                       tblVars, cpuVars, OSFlagType, OSFlagFlags, OSFlagFreeList, OSTCBFlagsRdy>>
    BY DEF OSFlagPend_Timeout, InTask
  <1>2. /\ me \in Tcb /\ me \in OSTCBList /\ OSTCBStat[me] = {} /\ OSTCBDly[me] = 0
        /\ \A t \in Tcb : ~Deleting(t)
    BY <1>1, RunnerAwake DEF FlagInv, KernelInv, WaitInv
  <1>3. /\ PlaceTypes /\ Moves(Points, "app")
        /\ mask' \in [Tcb -> SUBSET Bit] /\ wait' \in [Tcb -> WaitType]
        /\ \A t \in Tcb : OSIntNesting # 0 \/ t # me => mask'[t] = mask[t] /\ wait'[t] = wait[t]
    BY <1>1, FlagReturns DEF Points
  <1>4. me \in OSTCBFlagNode /\ g \in Event /\ T \in SUBSET OSFlagWaitList[g]
    BY <1>1, <1>2, NodeOf, LinkedIs
  <1>5. OSTCBFlagsRdy[me] = {}
    BY <1>2, <1>4 DEF FlagInv, KernelInv, WaitInv, FlagsRdyRight
  <1> HIDE DEF g
  <1>6. OSTCBStat' = OSTCBStat
    BY <1>1, <1>2 DEF FlagInv, KernelInv, CoreInv, KernelTypeOK
  <1>7. /\ OSTCBPendTO' \in [Tcb -> BOOLEAN] /\ ~OSTCBPendTO'[me]
        /\ \A t \in Tcb \ T : OSTCBPendTO'[t] = OSTCBPendTO[t]
    BY <1>1, <1>2, Zenon DEF FlagInv, KernelInv, CoreInv, KernelTypeOK
  <1>8. UNCHANGED <<OSTCBPrioTbl, OSTCBList, OSTCBFreeList, OSTCBCur, OSIntNesting>>
    BY <1>1 DEF tblVars, cpuVars
  <1>9. KernelInv'
    <2>1. \A t \in Tcb : ~Deleting(t)'
      BY <1>1, <1>3, <1>8 DEF Deleting, Moves
    <2>2. ReadyIffNotWaiting' /\ ReadyIsDispatchable'
      BY <1>1, <1>2, <1>6, <1>8, <2>1, TaskOwns DEF FlagInv, KernelInv, CoreInv, KernelTypeOK,
         ReadyIffNotWaiting, ReadyIsDispatchable, HasTcb
    <2> QED BY <1>1, <1>3, <1>6, <1>7, <2>2, ServiceSettles DEF FlagInv, KernelInv, CoreInv, KernelTypeOK, Points
  <1>10. /\ OSFlagWaitList' = [OSFlagWaitList EXCEPT ![g] = @ \ T]
         /\ OSTCBFlagNode' = OSTCBFlagNode \ T
         /\ OSFlagWaitList \in [Event -> SUBSET Tcb]
         /\ \A h \in Event : OSFlagWaitList'[h] \subseteq OSFlagWaitList[h]
    BY <1>1 DEF OS_FlagUnlink, FlagInv, KernelInv, FlagTypeOK
  <1>11. FlagTypeOK'
    BY <1>1, <1>3, <1>9, <1>10 DEF FlagTypeOK, KernelInv, CoreInv, FlagInv
  <1>12. /\ \A t \in Tcb \ T : /\ OSTCBStat'[t] = OSTCBStat[t] /\ OSTCBDly'[t] = OSTCBDly[t]
                               /\ OSTCBPendTO'[t] = OSTCBPendTO[t]
         /\ \A t \in T : /\ OSTCBStat'[t] = OSTCBStat[t] \ {"FLAG"} /\ OSTCBDly'[t] = 0
                         /\ ~OSTCBPendTO'[t]
    BY <1>1, <1>2, <1>6, <1>7
  <1>13. \A t \in Tcb : OSTCBFlagsRdy'[t] = {} \/ (t \notin T /\ OSTCBFlagsRdy'[t] = OSTCBFlagsRdy[t])
    BY <1>1, <1>5
  <1>14. /\ \A h \in Event : OSFlagType'[h] = "UNUSED" => OSFlagWaitList'[h] = {}
         /\ \A t \in Tcb : at[t] = "pend" => OSFlagType'[loc[t].ev] = "FLAG"
    BY <1>1, <1>10 DEF FlagInv, KernelInv, WaitInv, NodesAlive, GroupsKnown
  <1>15. OneSense => NoMissedFlags'
    <2> SUFFICES ASSUME OneSense, NEW h \in Event, NEW t \in OSFlagWaitList'[h]
                 PROVE  ~Enough(OSFlagFlags[h], mask'[t], wait'[t])
      BY <1>1 DEF NoMissedFlags, Enough, FlagsRdy
    <2>1. t \in OSFlagWaitList[h] /\ (h = g => t # me)
      BY <1>10
    <2>2. loc[t].ev = h /\ t \in Tcb
      BY <2>1, LinkedIs
    <2>3. t # me /\ ~Enough(OSFlagFlags[h], mask[t], wait[t])
      BY <2>1, <2>2 DEF g, FlagInv, KernelInv, NoMissedFlags
    <2> QED BY <1>3, <2>2, <2>3
  <1>16. me \notin OSTCBFlagNode \ T /\ OSTCBFlagsRdy'[me] = {}
    BY <1>1, <1>5
  <1> HIDE DEF T
  <1> QED BY <1>1, <1>3, <1>4, <1>8, <1>9, <1>11, <1>12, <1>13, <1>14, <1>15, <1>16, FlagService

\* OS_FlagBlock keeps FlagInv: the caller of OSFlagPend links its node and waits.
LEMMA FlagBlocks == ASSUME FlagInv, OSFlagPend_Block PROVE FlagInv'
  <1> DEFINE me == OSTCBCur
             g == loc[me].ev
             p == OSTCBPrio[me]
             n == loc[me].arg
  <1>1. /\ me \in Tcb /\ me \in OSTCBList /\ me # Idle /\ OSIntNesting = 0 /\ OSLockNesting = 0
        /\ at[me] = "pend" /\ (\A t \in Tcb : ~Deleting(t))
        /\ OSTCBStat[me] = {} /\ OSTCBDly[me] = 0 /\ OSTCBPrioTbl[p] = me /\ p \in OSRdyTbl
    BY RunnerAwake DEF OSFlagPend_Block, InTask, FlagInv, KernelInv, WaitInv
  <1>2. n \in Ticks /\ p \in Prio /\ g \in Event /\ OSFlagType[g] = "FLAG"
    <2>1. n \in Ticks /\ p \in Prio
      BY <1>1 DEF FlagInv, KernelInv, CoreInv, KernelTypeOK, Locals
    <2> QED BY <1>1, <2>1 DEF FlagInv, KernelInv, WaitInv, GroupsKnown, Inside
  <1>3. /\ OSTCBEventPtr' = [OSTCBEventPtr EXCEPT ![me] = NullEvent]
        /\ OSRdyTbl' = OSRdyTbl \ {p}
        /\ OSTCBStat' = [OSTCBStat EXCEPT ![me] = {"FLAG"}]
        /\ OSTCBPendTO' = [OSTCBPendTO EXCEPT ![me] = FALSE]
        /\ OSTCBDly' = [OSTCBDly EXCEPT ![me] = n]
        /\ at' = [at EXCEPT ![me] = "pendwait"] /\ UNCHANGED served
        /\ OSFlagWaitList' = [OSFlagWaitList EXCEPT ![g] = @ \cup {me}]
        /\ OSTCBFlagNode' = OSTCBFlagNode \cup {me}
        /\ ~Enough(OSFlagFlags[g], mask[me], wait[me])
        /\ UNCHANGED <<OSEventTbl, OSLockNesting, loc, OSTCBPrio, tblVars, cpuVars, OSFlagType,
                       OSFlagFlags, OSFlagFreeList, OSTCBFlagsRdy, argVars>>
    <2>1. [OSTCBStat EXCEPT ![me] = @ \cup {"FLAG"}] = [OSTCBStat EXCEPT ![me] = {"FLAG"}]
      BY <1>1 DEF FlagInv, KernelInv, CoreInv, KernelTypeOK
    <2> QED BY <1>1, <2>1 DEF OSFlagPend_Block, Goto
  <1>4. UNCHANGED <<OSTCBPrioTbl, OSTCBList, OSTCBFreeList, OSTCBCur, OSIntNesting, mask, wait>>
    BY <1>3 DEF tblVars, cpuVars, argVars
  <1> HIDE DEF g, p, n
  <1>5. /\ at'[me] = "pendwait" /\ \A t \in Tcb \ {me} : at'[t] = at[t]
        /\ OSTCBStat'[me] = {"FLAG"} /\ ~OSTCBPendTO'[me]
        /\ \A t \in Tcb \ {me} : /\ OSTCBStat'[t] = OSTCBStat[t] /\ OSTCBDly'[t] = OSTCBDly[t]
                                 /\ OSTCBPendTO'[t] = OSTCBPendTO[t]
    BY <1>1, <1>3 DEF FlagInv, KernelInv, CoreInv, KernelTypeOK
  <1>6. /\ OSFlagWaitList' \in [Event -> SUBSET Tcb] /\ OSFlagWaitList'[g] = OSFlagWaitList[g] \cup {me}
        /\ \A h \in Event \ {g} : OSFlagWaitList'[h] = OSFlagWaitList[h]
    BY <1>1, <1>2, <1>3 DEF FlagInv, KernelInv, FlagTypeOK
  <1>7. \A t \in Tcb : ~Deleting(t)'
    BY <1>1, <1>4, <1>5 DEF Deleting
  <1>8. KernelInv'
    <2>1. PlaceTypes /\ Moves(Points, "pendwait")
      BY <1>1, <1>3, <1>5 DEF PlaceTypes, Moves, Points, Label, FlagInv, KernelInv, CoreInv, KernelTypeOK
    <2>2. /\ OSRdyTbl' \subseteq Prio /\ OSEventTbl' \in [Event -> SUBSET Prio]
          /\ OSTCBStat' \in [Tcb -> SUBSET Stat] /\ OSTCBDly' \in [Tcb -> Ticks]
          /\ OSTCBPendTO' \in [Tcb -> BOOLEAN]
          /\ OSTCBEventPtr' \in [Tcb -> Event \cup {NullEvent}]
      BY <1>2, <1>3 DEF FlagInv, KernelInv, CoreInv, KernelTypeOK, Stat, PendAny
    <2>3. ReadyIffNotWaiting'
      <3> SUFFICES ASSUME NEW t \in OSTCBList, t \in Tcb
                   PROVE  OSTCBPrio[t] \in OSRdyTbl' <=> OSTCBStat'[t] = {} /\ OSTCBDly'[t] = 0
        BY <1>3, <1>4 DEF ReadyIffNotWaiting, FlagInv, KernelInv, CoreInv, KernelTypeOK
      <3>1. CASE t = me
        BY <1>3, <1>5, <3>1 DEF p
      <3>2. CASE t # me
        <4>1. OSTCBPrio[t] # p
          BY <1>1, <3>2, OneTaskPerPrio DEF p, FlagInv, KernelInv, CoreInv
        <4> QED BY <1>1, <1>3, <1>5, <3>2, <4>1 DEF FlagInv, KernelInv, CoreInv, ReadyIffNotWaiting
      <3> QED BY <3>1, <3>2
    <2>4. ReadyIsDispatchable'
      BY <1>3, <1>4, <1>7, TaskOwns
      DEF ReadyIsDispatchable, HasTcb, FlagInv, KernelInv, CoreInv, KernelTypeOK
    <2> QED BY <1>1, <1>3, <1>5, <2>1, <2>2, <2>3, <2>4, ServiceSettles DEF FlagInv, KernelInv
  <1>9. FlagTypeOK'
    BY <1>1, <1>3, <1>4, <1>6, <1>8 DEF FlagInv, FlagTypeOK, KernelInv, CoreInv
  <1>10. NodesAlive'
    <2>1. ASSUME NEW h \in Event, NEW t \in OSFlagWaitList'[h]
          PROVE  /\ t \in OSTCBList /\ t \in Tcb /\ at'[t] \in {"pendwait", "pendwake"}
                 /\ loc[t].ev = h /\ t \in OSTCBFlagNode'
      <3>1. CASE t = me
        <4>1. h = g
          BY <1>1, <1>6, <3>1, LinkedIs
        <4> QED BY <1>1, <1>3, <1>5, <3>1, <4>1 DEF g
      <3>2. CASE t # me
        BY <1>3, <1>5, <1>6, <3>2, LinkedIs
      <3> QED BY <3>1, <3>2
    <2>2. ASSUME NEW t \in OSTCBFlagNode' PROVE t \in OSFlagWaitList'[loc[t].ev]
      <3>1. CASE t = me
        BY <1>6, <3>1 DEF g
      <3>2. CASE t # me
        <4>1. loc[t].ev \in Event /\ t \in OSFlagWaitList[loc[t].ev]
          BY <1>3, <3>2, LinkedIs
        <4> QED BY <1>6, <4>1
      <3> QED BY <3>1, <3>2
    <2>3. \A h \in Event : OSFlagType'[h] = "UNUSED" => OSFlagWaitList'[h] = {}
      BY <1>2, <1>3, <1>6 DEF FlagInv, KernelInv, WaitInv, NodesAlive
    <2> QED BY <1>3, <1>4, <1>7, <2>1, <2>2, <2>3 DEF NodesAlive
  <1>11. NodeExact'
    <2> SUFFICES ASSUME NEW t \in OSTCBList, t \in Tcb
                 PROVE  /\ OSTCBStat'[t] \subseteq {"FLAG", "SUSPEND"}
                        /\ t \in OSTCBFlagNode' <=> OSTCBPendTO'[t] \/ "FLAG" \in OSTCBStat'[t]
                        /\ OSTCBPendTO'[t] => OSTCBDly'[t] = 0
      BY <1>4 DEF NodeExact, FlagInv, KernelInv, CoreInv, KernelTypeOK
    <2>1. CASE t = me
      BY <1>3, <1>5, <2>1
    <2>2. CASE t # me
      BY <1>1, <1>3, <1>5, <2>2, NodeOf
    <2> QED BY <2>1, <2>2
  <1>12. \A t \in Tcb : /\ Inside(t)' => Inside(t)
                        /\ at'[t] = "pend" => at[t] = "pend"
                        /\ at'[t] = "tcblink" => at[t] = "tcblink"
    BY <1>1, <1>5 DEF Inside
  <1>13. GroupsKnown'
    <2>1. \A t \in OSTCBFlagNode' : t \in OSTCBList /\ at'[t] \in {"pendwait", "pendwake"}
      BY <1>1, <1>3, <1>5, LinkedIs
    <2> QED BY <1>3, <1>4, <1>12, <2>1 DEF GroupsKnown, FlagInv, KernelInv, WaitInv
  <1>14. FlagsRdyRight'
    <2> SUFFICES ASSUME NEW t \in Tcb, OSTCBFlagsRdy[t] # {}
                 PROVE  /\ at'[t] \in {"pendwait", "pendwake"} /\ t \notin OSTCBFlagNode'
                        /\ IF wait[t].all THEN OSTCBFlagsRdy[t] = mask[t]
                           ELSE OSTCBFlagsRdy[t] \subseteq mask[t]
      BY <1>3, <1>4 DEF FlagsRdyRight
    <2>1. /\ at[t] \in {"pendwait", "pendwake"} /\ t \notin OSTCBFlagNode
          /\ IF wait[t].all THEN OSTCBFlagsRdy[t] = mask[t] ELSE OSTCBFlagsRdy[t] \subseteq mask[t]
      BY DEF FlagInv, KernelInv, WaitInv, FlagsRdyRight
    <2> QED BY <1>1, <1>3, <1>5, <2>1
  <1>15. NewTcbsClean'
    BY <1>3, <1>5, <1>12 DEF FlagInv, WaitInv, NewTcbsClean, KernelInv, CoreInv, KernelTypeOK, Locals
  <1>16. OthersOutside' /\ NoPendLocked' /\ CurrentAwake'
    BY <1>1, <1>3, <1>4, <1>5 DEF FlagInv, KernelInv, WaitInv, OthersOutside, NoPendLocked, CurrentAwake
  <1>17. SensesAgree'
    BY <1>3, <1>4, <1>12 DEF FlagInv, KernelInv, WaitInv, SensesAgree
  <1>18. OneSense => NoMissedFlags'
    <2> SUFFICES ASSUME OneSense, NEW h \in Event, NEW t \in OSFlagWaitList'[h]
                 PROVE  ~Enough(OSFlagFlags[h], mask[t], wait[t])
      BY <1>3, <1>4 DEF NoMissedFlags, Enough, FlagsRdy
    <2>1. CASE t \in OSFlagWaitList[h]
      BY <2>1 DEF FlagInv, KernelInv, NoMissedFlags
    <2>2. CASE t \notin OSFlagWaitList[h]
      BY <1>3, <1>6, <2>2
    <2> QED BY <2>1, <2>2
  <1> QED BY <1>8, <1>9, <1>10, <1>11, <1>13, <1>14, <1>15, <1>16, <1>17, <1>18 DEF FlagInv, KernelInv, WaitInv

\* Every step of the services of the event flags keeps FlagInv.
LEMMA FlagStepKeeps == ASSUME FlagInv, FlagStep PROVE FlagInv'
  <1>1. /\ Masks \subseteq SUBSET Bit /\ Waits \subseteq WaitType /\ {} \in SUBSET Bit
        /\ 0 \in Ticks /\ NoWait \in WaitType
        /\ \A b \in BOOLEAN : [NoWait EXCEPT !.set = b] \in WaitType
    <2>1. Masks \subseteq SUBSET Bit /\ Waits \subseteq WaitType
      BY FlagAssumption
    <2>2. 0 \in Ticks
      BY CoreAssumption DEF Ticks
    <2>3. NoWait \in WaitType /\ \A b \in BOOLEAN : [NoWait EXCEPT !.set = b] \in WaitType
      BY DEF NoWait, WaitType
    <2> QED BY <2>1, <2>2, <2>3
  <1>2. CASE OSFlagPend_Take \/ OSFlagPend_Block \/ OSFlagPend_Timeout \/ OSFlagPend_Done
    BY <1>2, FlagTakes, FlagBlocks, FlagTimesOut, FlagDone
  <1>3. CASE \E F \in Masks \cup {{}} : OSFlagCreate(F)
    BY <1>1, <1>3, FlagCreates
  <1>4. ASSUME NEW g \in Event, NEW m \in Masks, NEW w \in Waits,
               \/ \E n \in Ticks : OSFlagPend(g, n, m, w)
               \/ Agree(g, w) /\ FlagCheck("OSFlagAccept", g, "accept", 0, m, w)
               \/ OSFlagAccept(g, m, w)
        PROVE  FlagInv'
    <2>0. m \in SUBSET Bit /\ w \in WaitType
      BY <1>1
    <2>1. CASE \E n \in Ticks : OSFlagPend(g, n, m, w)
      <3> PICK n \in Ticks : OSFlagPend(g, n, m, w)
        BY <2>1
      <3>1. OSLockNesting = 0 /\ Agree(g, w) /\ FlagCheck("OSFlagPend", g, "pend", n, m, w)
        BY DEF OSFlagPend
      <3> QED BY <2>0, <3>1, FlagChecks
    <2>2. CASE Agree(g, w) /\ FlagCheck("OSFlagAccept", g, "accept", 0, m, w)
      BY <1>1, <2>0, <2>2, FlagChecks
    <2>3. CASE OSFlagAccept(g, m, w)
      BY <2>0, <2>3, FlagAccepts
    <2> QED BY <1>4, <2>1, <2>2, <2>3
  <1>5. ASSUME NEW g \in Event, NEW m \in Masks, NEW b \in BOOLEAN,
               \/ FlagCheck("OSFlagPost", g, "post", 0, m, [NoWait EXCEPT !.set = b])
               \/ OSFlagPost(g, m, [NoWait EXCEPT !.set = b])
        PROVE  FlagInv'
    <2> DEFINE w == [NoWait EXCEPT !.set = b]
    <2>1. m \in SUBSET Bit /\ w \in WaitType
      BY <1>1
    <2>2. FlagCheck("OSFlagPost", g, "post", 0, m, w) \/ OSFlagPost(g, m, w)
      BY <1>5
    <2> HIDE DEF w
    <2> QED BY <1>1, <2>1, <2>2, FlagChecks, FlagPosts
  <1>6. ASSUME NEW g \in Event,
               \/ FlagCheck("OSFlagDel", g, "del", 0, {}, NoWait) \/ OSFlagDel_NoPend(g)
               \/ FlagCheck("OSFlagDelAlways", g, "delalways", 0, {}, NoWait) \/ OSFlagDel_Always(g)
        PROVE  FlagInv'
    BY <1>1, <1>6, FlagChecks, FlagDeletes, FlagDeletesAlways
  <1> QED BY <1>2, <1>3, <1>4, <1>5, <1>6 DEF FlagStep

\* A stuttering step keeps FlagInv.
LEMMA FlagStutters == ASSUME FlagInv, UNCHANGED vars PROVE FlagInv'
  <1>1. KernelInv'
    BY StutterKeeps DEF vars, FlagInv, KernelInv, Kept, Inherits
  <1>2. /\ UNCHANGED <<OSTCBStat, OSTCBPendTO, OSTCBDly, OSTCBList, OSTCBCur, OSLockNesting, at, loc>>
        /\ UNCHANGED <<OSFlagType, OSFlagFlags, OSFlagWaitList, OSFlagFreeList, OSTCBFlagNode,
                       OSTCBFlagsRdy, mask, wait>>
    BY DEF vars, coreVars, tcbVars, tblVars, cpuVars, flagVars, argVars
  <1>3. KernelPart
    <2>1. UnlinkDeleted
      BY <1>2 DEF UnlinkDeleted
    <2>2. DropArgs
      BY <1>2 DEF DropArgs, FlagInv, KernelInv, FlagTypeOK
    <2> QED BY <1>2, <2>1, <2>2 DEF KernelPart
  <1>4. (\A t \in Tcb : Deleting(t)' <=> Deleting(t)) /\ NoPendLocked' /\ CurrentAwake'
    BY <1>2 DEF Deleting, NoPendLocked, CurrentAwake, FlagInv, KernelInv, WaitInv
  <1> QED BY <1>1, <1>2, <1>3, <1>4, FlagSame

\* The initial states satisfy FlagInv.
LEMMA FlagInitHolds == ASSUME ~Inherits PROVE FlagInit => FlagInv
  <1> SUFFICES ASSUME FlagInit PROVE FlagInv
    OBVIOUS
  <1>1. KernelInv
    BY InitHolds DEF FlagInit, KernelInv
  <1>2. /\ OSTCBStat = [t \in Tcb |-> {}] /\ OSTCBPendTO = [t \in Tcb |-> FALSE]
        /\ OSTCBDly = [t \in Tcb |-> 0] /\ at = [t \in Tcb |-> "app"] /\ OSLockNesting = 0
        /\ OSTCBList \subseteq Tcb /\ OSTCBCur \in Tcb
        /\ OSTCBFlagNode = {} /\ OSFlagWaitList = [g \in Event |-> {}]
        /\ OSTCBFlagsRdy = [t \in Tcb |-> {}]
    BY <1>1 DEF FlagInit, CoreInit, KernelInv, CoreInv, KernelTypeOK
  <1>3. FlagTypeOK
    BY <1>1, FlagAssumption DEF FlagInit, FlagTypeOK, KernelInv, CoreInv, NoWait, WaitType
  <1>4. WaitInv /\ NoMissedFlags
    BY <1>2 DEF WaitInv, NodesAlive, NodeExact, GroupsKnown, FlagsRdyRight, NewTcbsClean,
                OthersOutside, NoPendLocked, CurrentAwake, SensesAgree, NoMissedFlags, Inside
  <1> QED BY <1>1, <1>3, <1>4 DEF FlagInv, KernelInv

---------------------------------------------------------------------------
\* The inductive invariant of the kernel and its event flags together, whatever the
\* tasks, their priorities, the groups, their flags and the interleaving of tasks,
\* posts by handlers, timeouts and deletions.
THEOREM FlagCorrect == ASSUME SafeUse, ~Inherits PROVE Spec => []FlagInv
  <1>1. FlagInv /\ [Next]_vars => FlagInv'
    BY FlagStepKeeps, KernelKeepsFlags, FlagStutters DEF Next, KernelPart
  <1> QED BY <1>1, FlagInitHolds, PTL DEF Spec

\* Every variable of the event flags keeps its type.
THEOREM FlagTypeCorrect == ASSUME SafeUse, ~Inherits PROVE Spec => []FlagTypeOK
  <1>1. FlagInv => FlagTypeOK
    BY DEF FlagInv, KernelInv
  <1> QED BY <1>1, FlagCorrect, PTL

\* No wait list ever holds a node of a stack frame that is gone, and no TCB points to
\* a node that is in no list.
THEOREM NodesStayAlive == ASSUME SafeUse, ~Inherits PROVE Spec => []NodesAlive
  <1>1. FlagInv => NodesAlive
    BY DEF FlagInv, KernelInv, WaitInv
  <1> QED BY <1>1, FlagCorrect, PTL

\* A task that goes on in OSFlagPend can tell a timeout from the flags it got, in
\* whatever order the tick and the post came.
THEOREM WokenTruthfully == ASSUME SafeUse, ~Inherits PROVE Spec => []WokenForAReason
  <1>1. FlagInv => WokenForAReason
    <2> SUFFICES ASSUME FlagInv, at[OSTCBCur] = "pendwake", OSTCBCur \in OSTCBList,
                        ~Deleting(OSTCBCur)
                 PROVE  /\ OSTCBPendTO[OSTCBCur] <=> OSTCBCur \in OSTCBFlagNode
                        /\ \/ OSTCBPendTO[OSTCBCur] \/ OSTCBFlagsRdy[OSTCBCur] = {}
                           \/ IF wait[OSTCBCur].all THEN OSTCBFlagsRdy[OSTCBCur] = mask[OSTCBCur]
                              ELSE OSTCBFlagsRdy[OSTCBCur] \subseteq mask[OSTCBCur]
      BY DEF WokenForAReason
    <2>1. OSTCBStat[OSTCBCur] = {}
      BY DEF FlagInv, KernelInv, WaitInv, CurrentAwake
    <2>2. /\ OSTCBCur \in Tcb
          /\ OSTCBCur \in OSTCBFlagNode <=> OSTCBPendTO[OSTCBCur] \/ "FLAG" \in OSTCBStat[OSTCBCur]
      BY NodeOf
    <2> QED BY <2>1, <2>2 DEF FlagInv, KernelInv, WaitInv, FlagsRdyRight
  <1> QED BY <1>1, FlagCorrect, PTL

\* Where the waits of a group are of one sense, no task waits for flags that are
\* there: whatever a woken task consumes later can complete no other wait.
THEOREM NoFlagsMissed == ASSUME SafeUse, ~Inherits, OneSense PROVE Spec => []NoMissedFlags
  <1>1. FlagInv => NoMissedFlags
    BY DEF FlagInv, KernelInv
  <1> QED BY <1>1, FlagCorrect, PTL

\* The kernel's promises survive the event flags.
THEOREM FlagsKeepKernel == ASSUME SafeUse, ~Inherits PROVE Spec => [](RunsHighest /\ ReadyIffNotWaiting)
  <1>1. FlagInv => RunsHighest /\ ReadyIffNotWaiting
    BY DEF FlagInv, KernelInv, CoreInv
  <1> QED BY <1>1, FlagCorrect, PTL
=============================================================================
