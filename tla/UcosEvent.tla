----------------------------- MODULE UcosEvent -----------------------------
(***************************************************************************)
(* Event control blocks: what semaphores, mutexes, mailboxes and message   *)
(* queues have in common.  A service called by a task checks the type of   *)
(* its block before it masks interrupts, so the check is a step of its     *)
(* own; in a handler, where interrupts are masked already, check and       *)
(* service are one step.                                                   *)
(***************************************************************************)
EXTENDS UcosKernel

VARIABLES
  OSEventType, OSEventCnt,
  OSEventPtr,      \* what the block is for, and the link of the list of free ones
  OSEventFreeList  \* the head of that list

ecbVars == <<OSEventType, OSEventCnt, OSEventPtr, OSEventFreeList>>

\* OS_InitEventList links the free blocks in some order; type and cnt
\* are those of the blocks created before OSStart.
EventInit(type, cnt) ==
  LET free == Event \ DOMAIN type
  IN  /\ OSEventType = [e \in Event |-> IF e \in DOMAIN type THEN type[e] ELSE "UNUSED"]
      /\ OSEventCnt = [e \in Event |-> IF e \in DOMAIN type THEN cnt[e] ELSE 0]
      /\ \E rank \in [free -> 1 .. Cardinality(free)] :
           /\ \A e, f \in free : rank[e] = rank[f] => e = f
           /\ OSEventPtr = [e \in Event |->
                IF \E f \in free : e \in free /\ rank[f] = rank[e] + 1
                THEN CHOOSE f \in free : rank[f] = rank[e] + 1 ELSE NullEvent]
           /\ OSEventFreeList = IF free = {} THEN NullEvent
                                ELSE CHOOSE e \in free : rank[e] = 1

---------------------------------------------------------------------------
\* The unsynchronised type check that a task's call of a service begins with.
Check(s, type, e, l, n) ==
  /\ TaskCall(s) /\ OSEventType[e] = type
  /\ Goto(l) /\ Keep([NoLocals EXCEPT !.ev = e, !.arg = n])
  /\ UNCHANGED <<OSRdyTbl, OSEventTbl, OSLockNesting, tcbVars, tblVars, cpuVars, ecbVars>>

\* A region of service l runs for e: in the task that checked, or in a handler.
Runs(s, type, e, l) == \/ InTask(l) /\ loc[OSTCBCur].ev = e
                       \/ IsrCall(s) /\ OSEventType[e] = type

\* A create service takes the first free block; a delete service frees one.
TakeEvent ==
  /\ OSEventFreeList # NullEvent
  /\ OSEventFreeList' = OSEventPtr[OSEventFreeList]
FreeEvent(e) ==
  /\ OSEventType' = [OSEventType EXCEPT ![e] = "UNUSED"]
  /\ OSEventCnt' = [OSEventCnt EXCEPT ![e] = 0]
  /\ OSEventPtr' = [OSEventPtr EXCEPT ![e] = OSEventFreeList]
  /\ OSEventFreeList' = e

\* The region of a pend that makes the caller wait: for type, at most n ticks.
PendWait(e, type, n) ==
  /\ OS_EventTaskWait(e)
  /\ OSTCBStat' = [OSTCBStat EXCEPT ![OSTCBCur] = @ \cup {type}]
  /\ OSTCBPendTO' = [OSTCBPendTO EXCEPT ![OSTCBCur] = FALSE]
  /\ OSTCBDly' = [OSTCBDly EXCEPT ![OSTCBCur] = n]
  /\ Goto("pendwait")

---------------------------------------------------------------------------
\* A wait list and OSTCBEventPtr agree: every priority in e's list belongs to a
\* task that waits for e, and every task that waits for e is in its list, also
\* after its timeout until it has run OS_EventTO, and after a suspension.
WaitListExact ==
  /\ \A e \in Event : \A p \in OSEventTbl[e] :
       HasTcb(p) /\ OSTCBEventPtr[OSTCBPrioTbl[p]] = e
  /\ \A t \in OSTCBList : OSTCBEventPtr[t] # NullEvent /\ ~Deleting(t)
       => OSTCBPrio[t] \in OSEventTbl[OSTCBEventPtr[t]]

\* Whatever OS_EventTaskRdy looks up in OSTCBPrioTbl for a priority of a wait list
\* is a task: it is going to write to that TCB, whatever it is.
WaitersAreTasks == \A e \in Event : \A p \in OSEventTbl[e] : HasTcb(p)

\* The block a create service takes next is not in use: a delete service returns
\* OS_ERR_EVENT_TYPE to a task that deletes what was deleted before.
FreeEventsUnused ==
  OSEventFreeList # NullEvent => OSEventType[OSEventFreeList] = "UNUSED"

\* The list of free blocks ends, and holds exactly the blocks that are not in use
\* and that no create service has taken: none is lost and none is there twice.
Making(t) == at[t] \in {"take", "qinit", "create"}
Taken == {loc[t].ev : t \in {u \in Tcb : Making(u)}}
Untaken == {e \in Event : OSEventType[e] = "UNUSED"} \ Taken
Linked(k, blk) ==
  /\ OSEventFreeList = IF k = 0 THEN NullEvent ELSE blk[1]
  /\ \A i \in 1 .. k : OSEventPtr[blk[i]] = IF i = k THEN NullEvent ELSE blk[i + 1]
  /\ \A i, j \in 1 .. k : blk[i] = blk[j] => i = j
FreeListExact ==
  \E k \in 0 .. Cardinality(Event) : \E blk \in [1 .. k -> Event] :
    Linked(k, blk) /\ {blk[i] : i \in 1 .. k} = Untaken

---------------------------------------------------------------------------
\* What the services that use OSTCBEventPtr rely on, whatever kind of event it is.

\* A task inside a pend, past the region that made it wait.
Pending(t) == at[t] \in {"pendwait", "pendwake"}

\* OSTCBEventPtr is set exactly while a task waits or has timed out unnoticed; then it
\* is the block that the task is inside its pend for, and of the kind it waits for.
PendLinked ==
  \A t \in OSTCBList : ~Deleting(t) =>
    /\ OSTCBEventPtr[t] # NullEvent <=> OSTCBPendTO[t] \/ OSTCBStat[t] \cap PendAny # {}
    /\ OSTCBEventPtr[t] # NullEvent =>
         /\ Pending(t) /\ loc[t].ev = OSTCBEventPtr[t]
         /\ OSTCBStat[t] \cap PendAny \subseteq {OSEventType[OSTCBEventPtr[t]]}
    /\ OSTCBPendTO[t] => OSTCBDly[t] = 0

\* The victim of a deletion under way has left every wait list, and who waits is
\* listed at the priority it has; a TCB about to be linked waits for nothing.
WaitersStay == \A e \in Event : \A p \in OSEventTbl[e] : ~Deleting(OSTCBPrioTbl[p])
WaitersRanked == \A e \in Event : \A p \in OSEventTbl[e] : OSTCBPrio[OSTCBPrioTbl[p]] = p
NewTcbsClean ==
  \A t \in Tcb : at[t] = "tcblink" =>
    ~OSTCBPendTO[loc[t].tcb] /\ OSTCBEventPtr[loc[t].tcb] = NullEvent

\* Who is inside a pend knows its block; nobody waits with the scheduler locked, and
\* the running task is ready.
PendersKnow == \A t \in Tcb : at[t] = "pend" \/ Pending(t) => loc[t].ev \in Event
NoPendLocked == OSLockNesting > 0 => at[OSTCBCur] # "pend" /\ ~Pending(OSTCBCur)
RunnerReady == Settled => OSTCBPrio[OSTCBCur] \in OSRdyTbl

\* Nobody waits for a block that is not in use; a block taken by a create service is
\* that service's alone.
BlocksApart ==
  /\ \A e \in Event : OSEventType[e] = "UNUSED" => OSEventTbl[e] = {}
  /\ \A t \in Tcb : Making(t) => loc[t].ev \in Event /\ OSEventType[loc[t].ev] = "UNUSED"
  /\ \A t, u \in Tcb : t # u /\ Making(t) /\ Making(u) => loc[t].ev # loc[u].ev

\* FreeListExact, but for the block that a create service has taken when its task is
\* deleted: that one is lost.
FreeListSound ==
  \E k \in 0 .. Cardinality(Event) : \E blk \in [1 .. k -> Event] :
    /\ Linked(k, blk) /\ {blk[i] : i \in 1 .. k} \subseteq Untaken
    /\ "OSTaskDel" \notin TaskCalls => Untaken \subseteq {blk[i] : i \in 1 .. k}

WaitsExact ==
  /\ WaitListExact /\ PendLinked /\ WaitersStay /\ WaitersRanked /\ NewTcbsClean
  /\ PendersKnow /\ NoPendLocked /\ RunnerReady

\* What the services of all kinds of blocks keep.
EventInv == CoreInv /\ WaitsExact /\ BlocksApart
=============================================================================
