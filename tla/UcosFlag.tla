------------------------------ MODULE UcosFlag ------------------------------
(***************************************************************************)
(* Event flag groups (os_flag.c).  A task that waits links a node of its   *)
(* own stack into the group's list; the node stands for its task here, and *)
(* a wait list is the set of the tasks linked in it: a post looks at all   *)
(* of them, in whatever order.  UcosFlagList has the links themselves.     *)
(* Event is OSFlagTbl; OSEventTbl stays empty.                             *)
(***************************************************************************)
EXTENDS UcosKernel

CONSTANTS
  Bit,             \* the flags of a group: 16 in the code
  Masks,           \* the combinations of flags that calls name
  Waits,           \* the wait types that calls name
  OneSense,        \* rule of use: the tasks inside a group's OSFlagPend and OSFlagAccept
                   \* want its flags all to be set or all to be clear
  InitFlags        \* the groups created before OSStart

\* wait_type: for the flags to be set or to be clear, all of them or any, and
\* OS_FLAG_CONSUME.  OSFlagPost's option is "set" alone.
WaitType == [set : BOOLEAN, all : BOOLEAN, consume : BOOLEAN]

ASSUME FlagAssumption ==
  /\ InitFlags \subseteq Event
  /\ Masks \subseteq (SUBSET Bit) \ {{}} /\ Waits \subseteq WaitType
  /\ OneSense \in BOOLEAN

VARIABLES
  OSFlagType, OSFlagFlags,
  OSFlagWaitList,  \* the tasks whose nodes are linked
  OSFlagFreeList,  \* the groups that are free
  OSTCBFlagNode,   \* the tasks whose TCB points to a node
  OSTCBFlagsRdy,   \* the flags that made each task ready, until its OSFlagPend has read
                   \* them (OSFlagPendGetFlagsRdy, which reads them later, is left out)
  mask, wait       \* the arguments of each task's call; OS_FlagBlock copies them to
                   \* OSFlagNodeFlags and OSFlagNodeWaitType

flagVars == <<OSFlagType, OSFlagFlags, OSFlagWaitList, OSFlagFreeList, OSTCBFlagNode,
              OSTCBFlagsRdy>>
argVars == <<mask, wait>>
vars == <<coreVars, flagVars, argVars>>

NoWait == [set |-> TRUE, all |-> TRUE, consume |-> FALSE]

FlagInit ==
  /\ CoreInit
  /\ OSFlagType = [g \in Event |-> IF g \in InitFlags THEN "FLAG" ELSE "UNUSED"]
  /\ OSFlagFlags = [g \in Event |-> {}]
  /\ OSFlagWaitList = [g \in Event |-> {}]
  /\ OSFlagFreeList = Event \ InitFlags
  /\ OSTCBFlagNode = {}
  /\ OSTCBFlagsRdy = [t \in Tcb |-> {}]
  /\ mask = [t \in Tcb |-> {}]
  /\ wait = [t \in Tcb |-> NoWait]

---------------------------------------------------------------------------
\* The unsynchronised type check at the start of a task's call, with its arguments.
FlagCheck(s, g, l, n, m, w) ==
  /\ TaskCall(s) /\ OSFlagType[g] = "FLAG"
  /\ Goto(l) /\ Keep([NoLocals EXCEPT !.ev = g, !.arg = n])
  /\ mask' = [mask EXCEPT ![OSTCBCur] = m]
  /\ wait' = [wait EXCEPT ![OSTCBCur] = w]
  /\ UNCHANGED <<OSRdyTbl, OSEventTbl, OSLockNesting, tcbVars, tblVars, cpuVars, flagVars>>

\* A region of service l for group g with arguments m and w: of the task that
\* checked, or of a handler.
FlagRuns(s, g, l, m, w) ==
  \/ InTask(l) /\ loc[OSTCBCur].ev = g /\ mask[OSTCBCur] = m /\ wait[OSTCBCur] = w
  \/ IsrCall(s) /\ OSFlagType[g] = "FLAG"

FlagReturn(l) ==
  /\ Return(l)
  /\ IF OSIntNesting > 0 THEN UNCHANGED argVars
     ELSE /\ mask' = [mask EXCEPT ![OSTCBCur] = {}]
          /\ wait' = [wait EXCEPT ![OSTCBCur] = NoWait]

\* flags_rdy: those of the flags m that are as a wait of type w wants them; whether
\* that is enough; and what OS_FLAG_CONSUME leaves of the group's flags F.
FlagsRdy(F, m, w) == IF w.set THEN F \cap m ELSE m \ F
Enough(F, m, w) == IF w.all THEN FlagsRdy(F, m, w) = m ELSE FlagsRdy(F, m, w) # {}
Consumed(F, rdy, w) == IF ~w.consume THEN F ELSE IF w.set THEN F \ rdy ELSE F \cup rdy

---------------------------------------------------------------------------
OSFlagCreate(F) ==
  /\ TaskCall("OSFlagCreate")
  /\ \E g \in OSFlagFreeList :
       /\ OSFlagFreeList' = OSFlagFreeList \ {g}
       /\ OSFlagType' = [OSFlagType EXCEPT ![g] = "FLAG"]
       /\ OSFlagFlags' = [OSFlagFlags EXCEPT ![g] = F]
       /\ OSFlagWaitList' = [OSFlagWaitList EXCEPT ![g] = {}]
  /\ UNCHANGED <<coreVars, argVars, OSTCBFlagNode, OSTCBFlagsRdy>>

\* A task inside OSFlagPend or OSFlagAccept, and the rule of use, for a call of wait
\* type w by a task or a handler.
Inside(t) == at[t] \in {"pend", "pendwait", "pendwake", "accept"}
Agree(g, w) == OneSense => \A t \in Tcb : Inside(t) /\ loc[t].ev = g => wait[t].set = w.set

OSFlagAccept(g, m, w) ==
  /\ Agree(g, w) /\ FlagRuns("OSFlagAccept", g, "accept", m, w)
  /\ LET F == OSFlagFlags[g]
     IN OSFlagFlags' = [OSFlagFlags EXCEPT ![g] =
          IF Enough(F, m, w) THEN Consumed(F, FlagsRdy(F, m, w), w) ELSE F]
  /\ FlagReturn("app")
  /\ UNCHANGED <<OSRdyTbl, OSEventTbl, OSLockNesting, tcbVars, tblVars, cpuVars, OSFlagType,
                 OSFlagWaitList, OSFlagFreeList, OSTCBFlagNode, OSTCBFlagsRdy>>

\* No pend under the scheduler lock.
OSFlagPend(g, n, m, w) ==
  OSLockNesting = 0 /\ Agree(g, w) /\ FlagCheck("OSFlagPend", g, "pend", n, m, w)

OSFlagPend_Take ==
  /\ InTask("pend")
  /\ LET g == loc[OSTCBCur].ev
         F == OSFlagFlags[g]
         w == wait[OSTCBCur]
         rdy == FlagsRdy(F, mask[OSTCBCur], w)
     IN  /\ Enough(F, mask[OSTCBCur], w)
         /\ OSFlagFlags' = [OSFlagFlags EXCEPT ![g] = Consumed(F, rdy, w)]
  /\ FlagReturn("app")
  /\ UNCHANGED <<OSRdyTbl, OSEventTbl, OSLockNesting, tcbVars, tblVars, cpuVars, OSFlagType,
                 OSFlagWaitList, OSFlagFreeList, OSTCBFlagNode, OSTCBFlagsRdy>>

\* OS_FlagBlock
OSFlagPend_Block ==
  /\ InTask("pend")
  /\ LET g == loc[OSTCBCur].ev
     IN  /\ ~Enough(OSFlagFlags[g], mask[OSTCBCur], wait[OSTCBCur])
         /\ OSFlagWaitList' = [OSFlagWaitList EXCEPT ![g] = @ \cup {OSTCBCur}]
  /\ OSTCBFlagNode' = OSTCBFlagNode \cup {OSTCBCur}
  /\ OSTCBStat' = [OSTCBStat EXCEPT ![OSTCBCur] = @ \cup {"FLAG"}]
  /\ OSTCBPendTO' = [OSTCBPendTO EXCEPT ![OSTCBCur] = FALSE]
  /\ OSTCBDly' = [OSTCBDly EXCEPT ![OSTCBCur] = loc[OSTCBCur].arg]
  /\ OSTCBEventPtr' = [OSTCBEventPtr EXCEPT ![OSTCBCur] = NullEvent]
  /\ OSRdyTbl' = OSRdyTbl \ {OSTCBPrio[OSTCBCur]}
  /\ Goto("pendwait")
  /\ UNCHANGED <<OSEventTbl, OSLockNesting, loc, OSTCBPrio, tblVars, cpuVars, OSFlagType,
                 OSFlagFlags, OSFlagFreeList, OSTCBFlagsRdy, argVars>>

\* OS_FlagUnlink, for each of T: their nodes leave g's list.
OS_FlagUnlink(g, T) ==
  /\ OSFlagWaitList' = [OSFlagWaitList EXCEPT ![g] = @ \ T]
  /\ OSTCBFlagNode' = OSTCBFlagNode \ T

OSFlagPend_Timeout ==
  /\ InTask("pendwake") /\ OSTCBPendTO[OSTCBCur]
  /\ OS_FlagUnlink(loc[OSTCBCur].ev, {OSTCBCur})
  /\ OSTCBPendTO' = [OSTCBPendTO EXCEPT ![OSTCBCur] = FALSE]
  /\ OSTCBStat' = [OSTCBStat EXCEPT ![OSTCBCur] = {}]
  /\ FlagReturn("app")
  /\ UNCHANGED <<OSRdyTbl, OSEventTbl, OSLockNesting, OSTCBPrio, OSTCBDly, OSTCBEventPtr,
                 tblVars, cpuVars, OSFlagType, OSFlagFlags, OSFlagFreeList, OSTCBFlagsRdy>>

\* The flags that woke the task are consumed only now, without another look at them.
OSFlagPend_Done ==
  /\ InTask("pendwake") /\ ~OSTCBPendTO[OSTCBCur]
  /\ OSFlagFlags' = [OSFlagFlags EXCEPT ![loc[OSTCBCur].ev] =
                       Consumed(@, OSTCBFlagsRdy[OSTCBCur], wait[OSTCBCur])]
  /\ OSTCBFlagsRdy' = [OSTCBFlagsRdy EXCEPT ![OSTCBCur] = {}]
  /\ FlagReturn("app")
  /\ UNCHANGED <<OSRdyTbl, OSEventTbl, OSLockNesting, tcbVars, tblVars, cpuVars, OSFlagType,
                 OSFlagWaitList, OSFlagFreeList, OSTCBFlagNode>>

---------------------------------------------------------------------------
\* Mutant: a timeout that came first still counts.
OS_FlagTaskRdy_PendTO(g, T, rdy) ==
  /\ OSTCBDly' = [t \in Tcb |-> IF t \in T THEN 0 ELSE OSTCBDly[t]]
  /\ OSTCBFlagsRdy' = [t \in Tcb |-> IF t \in T THEN rdy[t] ELSE OSTCBFlagsRdy[t]]
  /\ OSTCBStat' = [t \in Tcb |-> IF t \in T THEN OSTCBStat[t] \ {"FLAG"} ELSE OSTCBStat[t]]
  /\ OSRdyTbl' = OSRdyTbl \cup {OSTCBPrio[t] : t \in {u \in T : OSTCBStat[u] \subseteq {"FLAG"}}}
  /\ OS_FlagUnlink(g, T)
  /\ UNCHANGED <<OSTCBPrio, OSTCBEventPtr, OSTCBPendTO>>

\* OS_FlagTaskRdy, for each of T: the wait in g's list ends with the flags rdy, and a
\* task that waits for nothing else is ready.
OS_FlagTaskRdy(g, T, rdy) ==
  /\ OSTCBDly' = [t \in Tcb |-> IF t \in T THEN 0 ELSE OSTCBDly[t]]
  /\ OSTCBFlagsRdy' = [t \in Tcb |-> IF t \in T THEN rdy[t] ELSE OSTCBFlagsRdy[t]]
  /\ OSTCBStat' = [t \in Tcb |-> IF t \in T THEN OSTCBStat[t] \ {"FLAG"} ELSE OSTCBStat[t]]
  /\ OSTCBPendTO' = [t \in Tcb |-> IF t \in T THEN FALSE ELSE OSTCBPendTO[t]]
  /\ OSRdyTbl' = OSRdyTbl \cup {OSTCBPrio[t] : t \in {u \in T : OSTCBStat[u] \subseteq {"FLAG"}}}
  /\ OS_FlagUnlink(g, T)
  /\ UNCHANGED <<OSTCBPrio, OSTCBEventPtr>>

\* The waiting tasks that the flags F are enough for.  Mutant: a post wakes one.
Woken_First(g, F) ==
  {t \in OSFlagWaitList[g] : Enough(F, mask[t], wait[t])
                             /\ \A u \in OSFlagWaitList[g] : OSTCBPrio[t] <= OSTCBPrio[u]}
Woken(g, F) == {t \in OSFlagWaitList[g] : Enough(F, mask[t], wait[t])}

\* Mutant: the woken tasks are not scheduled.
OSFlagPost_NoSched(g, m, w) ==
  LET F == IF w.set THEN OSFlagFlags[g] \cup m ELSE OSFlagFlags[g] \ m
      T == Woken(g, F)
  IN  /\ FlagRuns("OSFlagPost", g, "post", m, w)
      /\ OSFlagFlags' = [OSFlagFlags EXCEPT ![g] = F]
      /\ OS_FlagTaskRdy(g, T, [t \in T |-> FlagsRdy(F, mask[t], wait[t])])
      /\ FlagReturn("app")
      /\ UNCHANGED <<OSEventTbl, OSLockNesting, tblVars, cpuVars, OSFlagType, OSFlagFreeList>>

\* The flags of m are set or cleared, and every task for which they are then enough
\* is woken; none of them consumes here.  (The new value that the caller gets is read
\* in a region of its own after OS_Sched.)
OSFlagPost(g, m, w) ==
  LET F == IF w.set THEN OSFlagFlags[g] \cup m ELSE OSFlagFlags[g] \ m
      T == Woken(g, F)
  IN  /\ FlagRuns("OSFlagPost", g, "post", m, w)
      /\ OSFlagFlags' = [OSFlagFlags EXCEPT ![g] = F]
      /\ OS_FlagTaskRdy(g, T, [t \in T |-> FlagsRdy(F, mask[t], wait[t])])
      /\ IF \E t \in T : OSTCBStat[t] \subseteq {"FLAG"} THEN FlagReturn("sched")
         ELSE FlagReturn("app")
      /\ UNCHANGED <<OSEventTbl, OSLockNesting, tblVars, cpuVars, OSFlagType, OSFlagFreeList>>

---------------------------------------------------------------------------
\* Mutant: the type of a free group stays.
FreeGroup_Typed(g) ==
  /\ OSFlagFlags' = [OSFlagFlags EXCEPT ![g] = {}]
  /\ OSFlagFreeList' = OSFlagFreeList \cup {g}
  /\ UNCHANGED OSFlagType

\* The group returns to the free list.
FreeGroup(g) ==
  /\ OSFlagType' = [OSFlagType EXCEPT ![g] = "UNUSED"]
  /\ OSFlagFlags' = [OSFlagFlags EXCEPT ![g] = {}]
  /\ OSFlagFreeList' = OSFlagFreeList \cup {g}

OSFlagDel_NoPend(g) ==
  /\ InTask("del") /\ loc[OSTCBCur].ev = g /\ Apart(g)
  /\ IF OSFlagWaitList[g] = {} THEN FreeGroup(g)
     ELSE UNCHANGED <<OSFlagType, OSFlagFlags, OSFlagFreeList>>
  /\ FlagReturn("app")
  /\ UNCHANGED <<OSRdyTbl, OSEventTbl, OSLockNesting, tcbVars, tblVars, cpuVars,
                 OSFlagWaitList, OSTCBFlagNode, OSTCBFlagsRdy>>

OSFlagDel_Always(g) ==
  /\ InTask("delalways") /\ loc[OSTCBCur].ev = g /\ Apart(g)
  /\ OS_FlagTaskRdy(g, OSFlagWaitList[g], [t \in OSFlagWaitList[g] |-> {}])
  /\ FreeGroup(g)
  /\ IF OSFlagWaitList[g] = {} THEN FlagReturn("app") ELSE FlagReturn("sched")
  /\ UNCHANGED <<OSEventTbl, OSLockNesting, tblVars, cpuVars>>

---------------------------------------------------------------------------
FlagStep ==
  \/ OSFlagPend_Take \/ OSFlagPend_Block \/ OSFlagPend_Timeout \/ OSFlagPend_Done
  \/ \E F \in Masks \cup {{}} : OSFlagCreate(F)
  \/ \E g \in Event, m \in Masks :
       \/ \E w \in Waits :
            \/ \E n \in Ticks : OSFlagPend(g, n, m, w)
            \/ Agree(g, w) /\ FlagCheck("OSFlagAccept", g, "accept", 0, m, w)
            \/ OSFlagAccept(g, m, w)
       \/ \E b \in BOOLEAN :
            \/ FlagCheck("OSFlagPost", g, "post", 0, m, [NoWait EXCEPT !.set = b])
            \/ OSFlagPost(g, m, [NoWait EXCEPT !.set = b])
  \/ \E g \in Event :
       \/ FlagCheck("OSFlagDel", g, "del", 0, {}, NoWait) \/ OSFlagDel_NoPend(g)
       \/ FlagCheck("OSFlagDelAlways", g, "delalways", 0, {}, NoWait) \/ OSFlagDel_Always(g)

\* Mutant: OSTaskDel forgets the node on the deleted task's stack.
UnlinkDeleted_Not == UNCHANGED <<OSFlagWaitList, OSTCBFlagNode>>

\* OSTaskDel unlinks the node of the task it disables.
UnlinkDeleted ==
  LET v == loc'[OSTCBCur].tcb
      del == at'[OSTCBCur] = "delwin" /\ at[OSTCBCur] # "delwin"
  IN  IF del /\ v \in OSTCBFlagNode THEN OS_FlagUnlink(loc[v].ev, {v})
      ELSE UNCHANGED <<OSFlagWaitList, OSTCBFlagNode>>

\* What a deleted task had on its stack, and in its TCB, goes with it.
DropArgs ==
  LET gone == {t \in Tcb : at[t] \notin {"app", "sched"} /\ at'[t] = "app"}
  IN  /\ mask' = [t \in Tcb |-> IF t \in gone THEN {} ELSE mask[t]]
      /\ wait' = [t \in Tcb |-> IF t \in gone THEN NoWait ELSE wait[t]]
      /\ OSTCBFlagsRdy' = [t \in Tcb |-> IF t \in gone THEN {} ELSE OSTCBFlagsRdy[t]]

Next ==
  \/ FlagStep
  \/ /\ KernelStep /\ UnlinkDeleted /\ DropArgs
     /\ UNCHANGED <<OSFlagType, OSFlagFlags, OSFlagFreeList>>

Spec == FlagInit /\ [][Next]_vars

---------------------------------------------------------------------------
\* Types of the event flags' own variables.
FlagTypeOK ==
  /\ KernelTypeOK
  /\ OSFlagType \in [Event -> {"FLAG", "UNUSED"}]
  /\ OSFlagFlags \in [Event -> SUBSET Bit]
  /\ OSFlagWaitList \in [Event -> SUBSET Tcb]
  /\ OSFlagFreeList = {g \in Event : OSFlagType[g] = "UNUSED"}
  /\ OSTCBFlagNode \subseteq Tcb
  /\ OSTCBFlagsRdy \in [Tcb -> SUBSET Bit]
  /\ mask \in [Tcb -> SUBSET Bit] /\ wait \in [Tcb -> WaitType]

\* No list holds a node of a dead stack frame: every linked node is the one of a
\* task in use that is inside OSFlagPend for that very group, its TCB points to the
\* node, and no TCB points to a node that is not linked, whatever combination of
\* post, timeout, deletion of the task and deletion of the group went before.
NodesAlive ==
  /\ \A g \in Event : \A t \in OSFlagWaitList[g] :
       /\ t \in OSTCBList /\ ~Deleting(t)
       /\ at[t] \in {"pendwait", "pendwake"} /\ loc[t].ev = g
       /\ t \in OSTCBFlagNode
  /\ \A t \in OSTCBFlagNode : t \in OSFlagWaitList[loc[t].ev]
  /\ \A g \in Event : OSFlagType[g] = "UNUSED" => OSFlagWaitList[g] = {}

\* No task waits for flags that are there.  (With OneSense what a wait consumes can
\* complete no other wait; without it nobody tells the others.)
NoMissedFlags ==
  \A g \in Event : \A t \in OSFlagWaitList[g] : ~Enough(OSFlagFlags[g], mask[t], wait[t])

\* A task that runs on in OSFlagPend knows why: its node is still linked exactly if
\* it timed out; otherwise OSTCBFlagsRdy holds flags that were enough for it, or
\* none, if the group was deleted.  (A post may come after the tick that timed the
\* task out and before the task runs: then it is the post that counts.)
WokenForAReason ==
  LET t == OSTCBCur
      rdy == OSTCBFlagsRdy[t]
  IN  at[t] = "pendwake" /\ t \in OSTCBList /\ ~Deleting(t) =>
        /\ OSTCBPendTO[t] <=> t \in OSTCBFlagNode
        /\ \/ OSTCBPendTO[t] \/ rdy = {}
           \/ IF wait[t].all THEN rdy = mask[t] ELSE rdy \subseteq mask[t]

---------------------------------------------------------------------------
\* A task has a node exactly while it waits for flags or has timed out unnoticed.
NodeExact ==
  \A t \in OSTCBList : ~Deleting(t) =>
    /\ OSTCBStat[t] \subseteq {"FLAG", "SUSPEND"}
    /\ t \in OSTCBFlagNode <=> OSTCBPendTO[t] \/ "FLAG" \in OSTCBStat[t]
    /\ OSTCBPendTO[t] => OSTCBDly[t] = 0

\* Whoever is inside OSFlagPend or OSFlagAccept named a group, which stays in use at
\* least until the region of a pend; nodes belong to tasks in the middle of one.
GroupsKnown ==
  /\ \A t \in Tcb : Inside(t) => loc[t].ev \in Event
  /\ \A t \in Tcb : at[t] = "pend" => OSFlagType[loc[t].ev] = "FLAG"
  /\ \A t \in OSTCBFlagNode : t \in OSTCBList /\ at[t] \in {"pendwait", "pendwake"}

\* Flags left in a TCB are those of a pend that a post has ended and that has not run
\* since, and were enough for it.
FlagsRdyRight ==
  \A t \in Tcb : OSTCBFlagsRdy[t] # {} =>
    /\ at[t] \in {"pendwait", "pendwake"} /\ t \notin OSTCBFlagNode
    /\ IF wait[t].all THEN OSTCBFlagsRdy[t] = mask[t] ELSE OSTCBFlagsRdy[t] \subseteq mask[t]

\* A TCB about to be linked has not timed out; outside OSTCBList nobody is inside a
\* service; nobody pends with the scheduler locked; and the running task is past its
\* pend only if it waits for nothing.
NewTcbsClean == \A t \in Tcb : at[t] = "tcblink" => ~OSTCBPendTO[loc[t].tcb]
OthersOutside == \A t \in Tcb \ OSTCBList : at[t] \in {"app", "sched"}
NoPendLocked == OSLockNesting > 0 => at[OSTCBCur] \notin {"pend", "pendwait", "pendwake"}
CurrentAwake == at[OSTCBCur] = "pendwake" => OSTCBStat[OSTCBCur] = {} /\ OSTCBDly[OSTCBCur] = 0

\* The rule of use, as the calls leave it.
SensesAgree ==
  OneSense => \A t, u \in Tcb :
    Inside(t) /\ Inside(u) /\ loc[t].ev = loc[u].ev => wait[t].set = wait[u].set

\* The inductive invariant.
WaitInv ==
  /\ NodesAlive /\ NodeExact /\ GroupsKnown /\ FlagsRdyRight /\ NewTcbsClean
  /\ OthersOutside /\ NoPendLocked /\ CurrentAwake /\ SensesAgree
FlagInv == KernelInv /\ FlagTypeOK /\ WaitInv /\ (OneSense => NoMissedFlags)
=============================================================================
