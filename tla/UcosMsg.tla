------------------------------ MODULE UcosMsg ------------------------------
(***************************************************************************)
(* Message queues (os_q.c) and mailboxes (os_mbox.c) on the kernel.  The   *)
(* messages of a block are a sequence here: the ring of an OS_Q, which     *)
(* UcosRing shows to implement one, or OSEventPtr of a mailbox, which      *)
(* holds one message at most.                                              *)
(***************************************************************************)
EXTENDS UcosEvent, Sequences

CONSTANTS
  Msg,             \* the messages: pointers other than 0
  NoMsg,           \* (void *)0
  QSize,           \* the size of the rings (the application's)
  OS_MAX_QS,       \* the number of OS_Q blocks
  InitType,        \* the queues and mailboxes made before OSStart
  PostOpts         \* the options posts are made with

ASSUME MsgAssumption ==
  /\ IsFiniteSet(Event) /\ IsFiniteSet(Task)
  /\ NoMsg \notin Msg /\ QSize \in Nat \ {0} /\ OS_MAX_QS \in Nat
  /\ DOMAIN InitType \subseteq Event
  /\ \A e \in DOMAIN InitType : InitType[e] \in {"Q", "MBOX"}
  /\ Cardinality({e \in DOMAIN InitType : InitType[e] = "Q"}) <= OS_MAX_QS
  /\ PostOpts \subseteq SUBSET {"BROADCAST", "FRONT", "NO_SCHED"}

VARIABLES
  msgs,            \* the messages of each block, the next one to be taken first
  OSQFree,         \* the length of OSQFreeList
  OSTCBMsg,        \* the message a post has left for a waiting task
  got,             \* history: the block of each task's last pend, and what it returned:
                   \* a message, "timeout", or "none" as yet; forgotten at the next call
  unscheduled      \* history: OS_POST_OPT_NO_SCHED, and no scheduler has run since

msgVars == <<ecbVars, msgs, OSQFree, OSTCBMsg, got, unscheduled>>
vars == <<coreVars, msgVars>>

MsgInit ==
  /\ CoreInit /\ EventInit(InitType, [e \in DOMAIN InitType |-> 0])
  /\ OSQFree = OS_MAX_QS - Cardinality({e \in DOMAIN InitType : InitType[e] = "Q"})
  /\ msgs = [e \in Event |-> <<>>]
  /\ OSTCBMsg = [t \in Tcb |-> NoMsg]
  /\ got = [t \in Tcb |-> [ev |-> NullEvent, val |-> "none"]]
  /\ unscheduled = FALSE

Forget == got' = [got EXCEPT ![OSTCBCur] = [ev |-> NullEvent, val |-> "none"]]
Cap(e) == IF OSEventType[e] = "Q" THEN QSize ELSE 1
In(s, type, e, l) == Runs(s, type, e, l) /\ OSEventType[e] = type

---------------------------------------------------------------------------
\* OSQPend and OSMboxPend: the check, with no pend under the scheduler lock.
PendCheck(s, type, e, n) ==
  /\ OSLockNesting = 0
  /\ Check(s, type, e, "pend", n)
  /\ got' = [got EXCEPT ![OSTCBCur] = [ev |-> e, val |-> "none"]]
  /\ UNCHANGED <<msgs, OSQFree, OSTCBMsg, unscheduled>>

\* A message is there: the first is taken.
Receive(type) ==
  /\ InTask("pend")
  /\ LET e == loc[OSTCBCur].ev
     IN  /\ OSEventType[e] = type /\ msgs[e] # <<>>
         /\ msgs' = [msgs EXCEPT ![e] = Tail(@)]
         /\ got' = [got EXCEPT ![OSTCBCur].val = Head(msgs[e])]
  /\ Return("app")
  /\ UNCHANGED <<OSRdyTbl, OSEventTbl, OSLockNesting, tcbVars, tblVars, cpuVars, ecbVars,
                 OSQFree, OSTCBMsg, unscheduled>>
OSQPend_Receive == Receive("Q")
OSMboxPend_Receive == Receive("MBOX")

\* None is there: the task waits.
WaitFor(type) ==
  /\ InTask("pend")
  /\ LET e == loc[OSTCBCur].ev
     IN OSEventType[e] = type /\ msgs[e] = <<>> /\ PendWait(e, type, loc[OSTCBCur].arg)
  /\ UNCHANGED <<OSTCBPrio, OSLockNesting, loc, tblVars, cpuVars, msgVars>>
OSQPend_Wait == WaitFor("Q")
OSMboxPend_Wait == WaitFor("MBOX")

\* Back from OS_Sched, as in OSSemPend; the message is the one left in the TCB.
Pend_Timeout ==
  /\ InTask("pendwake") /\ OSTCBPendTO[OSTCBCur]
  /\ OS_EventTO(loc[OSTCBCur].ev)
  /\ got' = [got EXCEPT ![OSTCBCur].val = "timeout"]
  /\ Return("app")
  /\ UNCHANGED <<OSRdyTbl, OSLockNesting, OSTCBPrio, OSTCBDly, tblVars, cpuVars, ecbVars,
                 msgs, OSQFree, OSTCBMsg, unscheduled>>

\* Mutant: the message stays in the TCB.
Pend_Done_Keep ==
  /\ InTask("pendwake") /\ ~OSTCBPendTO[OSTCBCur]
  /\ OSTCBEventPtr' = [OSTCBEventPtr EXCEPT ![OSTCBCur] = NullEvent]
  /\ OSTCBStat' = [OSTCBStat EXCEPT ![OSTCBCur] = {}]
  /\ got' = [got EXCEPT ![OSTCBCur].val = OSTCBMsg[OSTCBCur]]
  /\ Return("app")
  /\ UNCHANGED <<OSRdyTbl, OSEventTbl, OSLockNesting, OSTCBPrio, OSTCBDly, OSTCBPendTO,
                 tblVars, cpuVars, ecbVars, msgs, OSQFree, OSTCBMsg, unscheduled>>

Pend_Done ==
  /\ InTask("pendwake") /\ ~OSTCBPendTO[OSTCBCur]
  /\ OSTCBEventPtr' = [OSTCBEventPtr EXCEPT ![OSTCBCur] = NullEvent]
  /\ OSTCBStat' = [OSTCBStat EXCEPT ![OSTCBCur] = {}]
  /\ got' = [got EXCEPT ![OSTCBCur].val = OSTCBMsg[OSTCBCur]]
  /\ OSTCBMsg' = [OSTCBMsg EXCEPT ![OSTCBCur] = NoMsg]
  /\ Return("app")
  /\ UNCHANGED <<OSRdyTbl, OSEventTbl, OSLockNesting, OSTCBPrio, OSTCBDly, OSTCBPendTO,
                 tblVars, cpuVars, ecbVars, msgs, OSQFree, unscheduled>>

---------------------------------------------------------------------------
\* OS_EventTaskRdy with a message, for the waiting priorities P.
Ready(e, P, m) ==
  /\ OS_EventTaskRdy(e, P, OSEventType[e])
  /\ LET woken == {OSTCBPrioTbl[p] : p \in P}
     IN OSTCBMsg' = [t \in Tcb |-> IF t \in woken THEN m ELSE OSTCBMsg[t]]

Highest(e) == {p \in OSEventTbl[e] : HighestIn(p, OSEventTbl[e])}

\* A post: m to the waiting tasks P, or the messages become q if there is room; l is
\* where the service goes on after it readied a task.
\* Mutants: there is always room; the waiting tasks are served only if there is none;
\* a task that was readied is not scheduled.
Send_NoLimit(e, m, P, q, l) ==
  /\ IF OSEventTbl[e] # {}
     THEN Ready(e, P, m) /\ Return(l) /\ UNCHANGED msgs
     ELSE /\ msgs' = [msgs EXCEPT ![e] = IF Len(@) <= Cap(e) THEN q ELSE @]
          /\ Return("app")
          /\ UNCHANGED <<OSRdyTbl, OSEventTbl, tcbVars, OSTCBMsg>>
  /\ UNCHANGED <<OSLockNesting, tblVars, cpuVars, ecbVars, OSQFree, got, unscheduled>>
Send_NoSched(e, m, P, q, l) ==
  /\ IF OSEventTbl[e] # {}
     THEN Ready(e, P, m) /\ UNCHANGED msgs
     ELSE /\ msgs' = [msgs EXCEPT ![e] = IF Len(@) < Cap(e) THEN q ELSE @]
          /\ UNCHANGED <<OSRdyTbl, OSEventTbl, tcbVars, OSTCBMsg>>
  /\ Return("app")
  /\ UNCHANGED <<OSLockNesting, tblVars, cpuVars, ecbVars, OSQFree, got, unscheduled>>
Send_Blind(e, m, P, q, l) ==
  /\ IF OSEventTbl[e] # {} /\ Len(msgs[e]) = Cap(e)
     THEN Ready(e, P, m) /\ Return(l) /\ UNCHANGED msgs
     ELSE /\ msgs' = [msgs EXCEPT ![e] = IF Len(@) < Cap(e) THEN q ELSE @]
          /\ Return("app")
          /\ UNCHANGED <<OSRdyTbl, OSEventTbl, tcbVars, OSTCBMsg>>
  /\ UNCHANGED <<OSLockNesting, tblVars, cpuVars, ecbVars, OSQFree, got, unscheduled>>

Send(e, m, P, q, l) ==
  /\ IF OSEventTbl[e] # {}
     THEN Ready(e, P, m) /\ Return(l) /\ UNCHANGED msgs
     ELSE /\ msgs' = [msgs EXCEPT ![e] = IF Len(@) < Cap(e) THEN q ELSE @]
          /\ Return("app")
          /\ UNCHANGED <<OSRdyTbl, OSEventTbl, tcbVars, OSTCBMsg>>
  /\ unscheduled' = (unscheduled \/ (OSIntNesting = 0 /\ OSEventTbl[e] # {} /\ l = "app"))
  /\ UNCHANGED <<OSLockNesting, tblVars, cpuVars, ecbVars, OSQFree, got>>

OSQPost(e, m) ==
  In("OSQPost", "Q", e, "post") /\ Send(e, m, Highest(e), Append(msgs[e], m), "sched")

OSQPostFront(e, m) ==
  In("OSQPost", "Q", e, "post") /\ Send(e, m, Highest(e), <<m>> \o msgs[e], "sched")

\* Whom a post with options serves.
Receivers(e, opt) == IF "BROADCAST" \in opt THEN OSEventTbl[e] ELSE Highest(e)

OSQPostOpt(e, m, opt) ==
  /\ In("OSQPost", "Q", e, "post")
  /\ Send(e, m, Receivers(e, opt),
          IF "FRONT" \in opt THEN <<m>> \o msgs[e] ELSE Append(msgs[e], m),
          IF "NO_SCHED" \in opt THEN "app" ELSE "sched")

OSMboxPost(e, m) ==
  In("OSMboxPost", "MBOX", e, "post") /\ Send(e, m, Highest(e), <<m>>, "sched")

OSMboxPostOpt(e, m, opt) ==
  /\ In("OSMboxPost", "MBOX", e, "post")
  /\ Send(e, m, Receivers(e, opt), <<m>>, IF "NO_SCHED" \in opt THEN "app" ELSE "sched")

---------------------------------------------------------------------------
\* The first message leaves, if there is one.
Drop(e) ==
  /\ msgs' = [msgs EXCEPT ![e] = IF @ = <<>> THEN @ ELSE Tail(@)]
  /\ Return("app")
  /\ UNCHANGED <<OSRdyTbl, OSEventTbl, OSLockNesting, tcbVars, tblVars, cpuVars, ecbVars,
                 OSQFree, OSTCBMsg, got, unscheduled>>
OSQAccept(e) == In("OSQAccept", "Q", e, "accept") /\ Drop(e)
OSMboxAccept(e) == In("OSMboxAccept", "MBOX", e, "accept") /\ Drop(e)

OSQFlush(e) ==
  /\ In("OSQFlush", "Q", e, "flush")
  /\ msgs' = [msgs EXCEPT ![e] = <<>>]
  /\ Return("app")
  /\ UNCHANGED <<OSRdyTbl, OSEventTbl, OSLockNesting, tcbVars, tblVars, cpuVars, ecbVars,
                 OSQFree, OSTCBMsg, got, unscheduled>>

---------------------------------------------------------------------------
\* A create service takes an event block first.
CreateAt(s, l) ==
  /\ TaskCall(s) /\ TakeEvent
  /\ Goto(l) /\ Keep([NoLocals EXCEPT !.ev = OSEventFreeList]) /\ Forget
  /\ UNCHANGED <<OSRdyTbl, OSEventTbl, OSLockNesting, tcbVars, tblVars, cpuVars, OSEventType,
                 OSEventCnt, OSEventPtr, msgs, OSQFree, OSTCBMsg, unscheduled>>
OSQCreate == CreateAt("OSQCreate", "take")
OSMboxCreate == CreateAt("OSMboxCreate", "create")

\* Mutant: without a queue block the event block is not given back.
OSQCreate_Take_Leak ==
  /\ InTask("take")
  /\ IF OSQFree > 0
     THEN OSQFree' = OSQFree - 1 /\ Goto("qinit") /\ UNCHANGED <<OSEventPtr, OSEventFreeList, loc>>
     ELSE Return("app") /\ UNCHANGED <<OSQFree, OSEventPtr, OSEventFreeList>>
  /\ UNCHANGED <<OSRdyTbl, OSEventTbl, OSLockNesting, tcbVars, tblVars, cpuVars, OSEventType,
                 OSEventCnt, msgs, OSTCBMsg, got, unscheduled>>

\* OSQCreate, second region: a queue block, or the event block goes back.
OSQCreate_Take ==
  /\ InTask("take")
  /\ IF OSQFree > 0
     THEN OSQFree' = OSQFree - 1 /\ Goto("qinit") /\ UNCHANGED <<OSEventPtr, OSEventFreeList, loc>>
     ELSE /\ OSEventPtr' = [OSEventPtr EXCEPT ![loc[OSTCBCur].ev] = OSEventFreeList]
          /\ OSEventFreeList' = loc[OSTCBCur].ev
          /\ Return("app") /\ UNCHANGED OSQFree
  /\ UNCHANGED <<OSRdyTbl, OSEventTbl, OSLockNesting, tcbVars, tblVars, cpuVars, OSEventType,
                 OSEventCnt, msgs, OSTCBMsg, got, unscheduled>>

\* The block is initialised with interrupts enabled: only its creator knows it.
Initialise(l, type, q) ==
  /\ InTask(l)
  /\ LET e == loc[OSTCBCur].ev
     IN  /\ OSEventType' = [OSEventType EXCEPT ![e] = type]
         /\ OSEventCnt' = [OSEventCnt EXCEPT ![e] = 0]
         /\ OSEventPtr' = [OSEventPtr EXCEPT ![e] = NullEvent]   \* not a link any more
         /\ OSEventTbl' = [OSEventTbl EXCEPT ![e] = {}]
         /\ msgs' = [msgs EXCEPT ![e] = q]
  /\ Return("app")
  /\ UNCHANGED <<OSRdyTbl, OSLockNesting, tcbVars, tblVars, cpuVars, OSEventFreeList,
                 OSQFree, OSTCBMsg, got, unscheduled>>
OSQCreate_Init == Initialise("qinit", "Q", <<>>)
OSMboxCreate_Init(m) == Initialise("create", "MBOX", IF m = NoMsg THEN <<>> ELSE <<m>>)

\* The block goes back to the free list, and the OS_Q of a queue to its own.
Delete(e) ==
  /\ FreeEvent(e)
  /\ msgs' = [msgs EXCEPT ![e] = <<>>]
  /\ OSQFree' = IF OSEventType[e] = "Q" THEN OSQFree + 1 ELSE OSQFree

\* OS_DEL_NO_PEND
DelNoPend(type, e) ==
  /\ InTask("del") /\ loc[OSTCBCur].ev = e /\ OSEventType[e] = type /\ Apart(e)
  /\ IF OSEventTbl[e] = {} THEN Delete(e) ELSE UNCHANGED <<ecbVars, msgs, OSQFree>>
  /\ Return("app")
  /\ UNCHANGED <<OSRdyTbl, OSEventTbl, OSLockNesting, tcbVars, tblVars, cpuVars, OSTCBMsg,
                 got, unscheduled>>
OSQDel_NoPend(e) == DelNoPend("Q", e)
OSMboxDel_NoPend(e) == DelNoPend("MBOX", e)

\* OS_DEL_ALWAYS: the waiting tasks get the message 0.
DelAlways(type, e) ==
  /\ InTask("delalways") /\ loc[OSTCBCur].ev = e /\ OSEventType[e] = type /\ Apart(e)
  /\ Ready(e, OSEventTbl[e], NoMsg) /\ Delete(e)
  /\ IF OSEventTbl[e] = {} THEN Return("app") ELSE Return("sched")
  /\ UNCHANGED <<OSLockNesting, tblVars, cpuVars, got, unscheduled>>
OSQDel_Always(e) == DelAlways("Q", e)
OSMboxDel_Always(e) == DelAlways("MBOX", e)

---------------------------------------------------------------------------
\* The check of a service other than a pend.
Enter(s, type, e, l) ==
  Check(s, type, e, l, 0) /\ Forget /\ UNCHANGED <<msgs, OSQFree, OSTCBMsg, unscheduled>>

QStep ==
  \/ OSQPend_Receive \/ OSQPend_Wait
  \/ OSQCreate \/ OSQCreate_Take \/ OSQCreate_Init
  \/ \E e \in Event :
       \/ \E n \in Ticks : PendCheck("OSQPend", "Q", e, n)
       \/ Enter("OSQPost", "Q", e, "post")
       \/ \E m \in Msg : \/ OSQPost(e, m) \/ OSQPostFront(e, m)
                         \/ \E opt \in PostOpts : OSQPostOpt(e, m, opt)
       \/ Enter("OSQAccept", "Q", e, "accept") \/ OSQAccept(e)
       \/ Enter("OSQFlush", "Q", e, "flush") \/ OSQFlush(e)
       \/ Enter("OSQDel", "Q", e, "del") \/ OSQDel_NoPend(e)
       \/ Enter("OSQDel", "Q", e, "delalways") \/ OSQDel_Always(e)

MboxStep ==
  \/ OSMboxPend_Receive \/ OSMboxPend_Wait
  \/ OSMboxCreate
  \/ \E m \in Msg \cup {NoMsg} : OSMboxCreate_Init(m)
  \/ \E e \in Event :
       \/ \E n \in Ticks : PendCheck("OSMboxPend", "MBOX", e, n)
       \/ Enter("OSMboxPost", "MBOX", e, "post")
       \/ \E m \in Msg : \/ OSMboxPost(e, m)
                         \/ \E opt \in PostOpts : OSMboxPostOpt(e, m, opt)
       \/ Enter("OSMboxAccept", "MBOX", e, "accept") \/ OSMboxAccept(e)
       \/ Enter("OSMboxDel", "MBOX", e, "del") \/ OSMboxDel_NoPend(e)
       \/ Enter("OSMboxDel", "MBOX", e, "delalways") \/ OSMboxDel_Always(e)

Next ==
  \/ QStep \/ MboxStep \/ Pend_Timeout \/ Pend_Done
  \/ /\ KernelStep
     /\ unscheduled' = (unscheduled /\ ~(OSLockNesting = 0 /\ (OS_Sched \/ OSIntExit)))
     /\ UNCHANGED <<ecbVars, msgs, OSQFree, OSTCBMsg, got>>

Spec == MsgInit /\ [][Next]_vars

---------------------------------------------------------------------------
\* Types of the messages' own variables; no block holds more than it has room for.
MsgTypeOK ==
  /\ KernelTypeOK
  /\ OSEventType \in [Event -> {"Q", "MBOX", "UNUSED"}]
  /\ msgs \in [Event -> Seq(Msg)] /\ \A e \in Event : Len(msgs[e]) <= Cap(e)
  /\ OSEventPtr \in [Event -> Event \cup {NullEvent}]
  /\ OSEventFreeList \in Event \cup {NullEvent}
  /\ OSQFree \in 0 .. OS_MAX_QS
  /\ OSTCBMsg \in [Tcb -> Msg \cup {NoMsg}]
  /\ got \in [Tcb -> [ev : Event \cup {NullEvent}, val : Msg \cup {NoMsg, "none", "timeout"}]]
  /\ unscheduled \in BOOLEAN

\* No message waits in a queue or mailbox while a task waits for one.
NoMessageWhileWaiting == \A e \in Event : msgs[e] # <<>> => OSEventTbl[e] = {}

\* Neither pool loses a block or has one twice, also when OSQCreate finds the second
\* one empty and has to give back what it took from the first.
QBlocks == OSQFree + Cardinality({e \in Event : OSEventType[e] = "Q"})
             + Cardinality({t \in Tcb : at[t] = "qinit"})
PoolsExact == FreeListExact /\ QBlocks = OS_MAX_QS

\* Nothing ready outranks the running task past its OS_Sched, except from a post
\* with OS_POST_OPT_NO_SCHED to the next OS_Sched or interrupt.
OutrankedOnlyByChoice == Settled /\ ~HighestIn(OSTCBPrio[OSTCBCur], OSRdyTbl) => unscheduled

---------------------------------------------------------------------------
\* The rules of use under which all of this holds, for any number of tasks, queues,
\* mailboxes and messages: the kernel's, and no change of priority (it may leave a
\* phantom in a wait list), by inheritance neither.
MsgSafeUse == SafeUse /\ ~Inherits /\ "OSTaskChangePrio" \notin TaskCalls

\* The OS_Q of a task that is deleted in OSQCreate is lost, as its event block is.
QBlocksCounted ==
  QBlocks <= OS_MAX_QS /\ ("OSTaskDel" \notin TaskCalls => QBlocks = OS_MAX_QS)

\* The inductive invariant.
MsgInv ==
  /\ EventInv /\ ~Inherits /\ MsgTypeOK /\ FreeListSound /\ QBlocksCounted
  /\ NoMessageWhileWaiting /\ OutrankedOnlyByChoice
=============================================================================
