--------------------------- MODULE UcosMsgProofs ---------------------------
(***************************************************************************)
(* Queues and mailboxes keep their promises for any number of tasks,       *)
(* blocks and messages: UcosEventProofs says what each region does to wait *)
(* lists, TCBs and free blocks, and here is what becomes of the messages,  *)
(* of the OS_Q blocks and of the scheduler's promise.                      *)
(***************************************************************************)
EXTENDS UcosMsgRefinement, UcosEventProofs, SequenceTheorems

---------------------------------------------------------------------------
\* What MsgTypeOK says beyond the kernel's types.
Got == [ev : Event \cup {NullEvent}, val : Msg \cup {NoMsg, "none", "timeout"}]
MsgTypes ==
  /\ OSEventType \in [Event -> {"Q", "MBOX", "UNUSED"}]
  /\ msgs \in [Event -> Seq(Msg)] /\ \A e \in Event : Len(msgs[e]) <= Cap(e)
  /\ OSEventPtr \in [Event -> Event \cup {NullEvent}]
  /\ OSEventFreeList \in Event \cup {NullEvent}
  /\ OSQFree \in 0 .. OS_MAX_QS
  /\ OSTCBMsg \in [Tcb -> Msg \cup {NoMsg}]
  /\ got \in [Tcb -> Got] /\ unscheduled \in BOOLEAN
LEMMA TypesAre == MsgTypeOK <=> KernelTypeOK /\ MsgTypes
  BY DEF MsgTypeOK, MsgTypes, Got
LEMMA TypesAreNext == MsgTypeOK' <=> KernelTypeOK' /\ MsgTypes'
  BY DEF MsgTypeOK, MsgTypes, Got

LEMMA MsgFacts ==
  ASSUME MsgInv
  PROVE  /\ EventInv /\ CoreInv /\ MsgTypes /\ FreeListSound /\ QBlocksCounted
         /\ NoMessageWhileWaiting /\ OutrankedOnlyByChoice
         /\ IsFiniteSet(Event) /\ IsFiniteSet(Tcb) /\ OSTCBCur \in Tcb
  <1>1. IsFiniteSet(Tcb)
    BY MsgAssumption, FS_AddElement DEF Tcb
  <1> QED BY <1>1, MsgAssumption, TypesAre DEF MsgInv, EventInv, CoreInv, KernelTypeOK

\* A step keeps the scheduler's promise, as far as it is made: from a step that broke it
\* for the sake of OS_POST_OPT_NO_SCHED to the scheduler's next run, nothing is.
LEMMA PromiseKept ==
  ASSUME OutrankedOnlyByChoice,
         ~unscheduled' => (~unscheduled /\ (RunsHighest => RunsHighest')) \/ RunsHighest'
  PROVE  OutrankedOnlyByChoice'
  BY DEF OutrankedOnlyByChoice, RunsHighest

\* The history of a pend.
LEMMA GotKeeps ==
  ASSUME MsgInv, NEW v \in Msg \cup {NoMsg, "none", "timeout"}, NEW e \in Event \cup {NullEvent},
         \/ got' = [got EXCEPT ![OSTCBCur].val = v]
         \/ got' = [got EXCEPT ![OSTCBCur] = [ev |-> e, val |-> v]]
  PROVE  got' \in [Tcb -> Got]
  <1>1. got \in [Tcb -> Got] /\ OSTCBCur \in Tcb
    BY MsgFacts DEF MsgTypes
  <1> QED BY <1>1 DEF Got

\* A region that leaves the event blocks and the OS_Q blocks alone keeps MsgInv if it
\* keeps the types of the rest and what is said of the messages.
LEMMA RegionKeeps ==
  ASSUME MsgInv, EventInv', UNCHANGED <<ecbVars, OSQFree>>, NEW P, NEW l, Moves(P, l),
         {l} \cup P \subseteq Label \ {"take", "qinit", "create"},
         msgs' \in [Event -> Seq(Msg)], \A e \in Event : Len(msgs'[e]) <= Cap(e),
         OSTCBMsg' \in [Tcb -> Msg \cup {NoMsg}], got' \in [Tcb -> Got], unscheduled' \in BOOLEAN,
         NoMessageWhileWaiting', OutrankedOnlyByChoice'
  PROVE  MsgInv'
  <1>1. FreeListSound'
    BY MsgFacts, ServiceKeepsList
  <1>2. \A e \in Event : Cap(e)' = Cap(e)
    BY DEF Cap, ecbVars
  <1>3. MsgTypes'
    BY <1>2, MsgFacts, Zenon DEF MsgTypes, ecbVars
  <1>4. MsgTypeOK'
    BY <1>3, TypesAreNext DEF EventInv, CoreInv
  <1>5. \A t \in Tcb : at'[t] = "qinit" <=> at[t] = "qinit"
    BY DEF Moves
  <1>6. {t \in Tcb : at'[t] = "qinit"} = {t \in Tcb : at[t] = "qinit"}
    BY <1>5
  <1>7. QBlocksCounted'
    BY <1>6, MsgFacts DEF QBlocksCounted, QBlocks, ecbVars
  <1> QED BY <1>1, <1>4, <1>7 DEF MsgInv, Inherits

---------------------------------------------------------------------------
\* Counting the OS_Q blocks: the queues, and the tasks that are making one.
Queues == {e \in Event : OSEventType[e] = "Q"}
Makers == {t \in Tcb : at[t] = "qinit"}
LEMMA CountIs ==
  /\ QBlocks = OSQFree + Cardinality(Queues) + Cardinality(Makers)
  /\ QBlocks' = OSQFree' + Cardinality(Queues') + Cardinality(Makers')
  BY DEF QBlocks, Queues, Makers

LEMMA Counted ==
  ASSUME MsgInv
  PROVE  /\ IsFiniteSet(Queues) /\ IsFiniteSet(Makers)
         /\ Cardinality(Queues) \in Nat /\ Cardinality(Makers) \in Nat /\ OSQFree \in Nat
         /\ OS_MAX_QS \in Nat /\ OSQFree + Cardinality(Queues) + Cardinality(Makers) <= OS_MAX_QS
  <1>1. IsFiniteSet(Queues) /\ IsFiniteSet(Makers)
    BY MsgFacts, FS_Subset DEF Queues, Makers
  <1> QED BY <1>1, FS_CardinalityType, MsgFacts, CountIs, MsgAssumption DEF MsgTypes, QBlocksCounted

---------------------------------------------------------------------------
\* Initially every list is empty.
LEMMA MsgInitHolds == ASSUME MsgInit, ~Inherits PROVE MsgInv
  <1>1. EventInv /\ RunsHighest /\ FreeListSound
    BY MsgAssumption, EventInitHolds DEF MsgInit
  <1>2. /\ OSEventType = [e \in Event |-> IF e \in DOMAIN InitType THEN InitType[e] ELSE "UNUSED"]
        /\ OSEventTbl = [e \in Event |-> {}] /\ at = [t \in Tcb |-> "app"]
    BY DEF MsgInit, EventInit, CoreInit
  <1>3. OSEventType \in [Event -> {"Q", "MBOX", "UNUSED"}]
    BY <1>2, MsgAssumption
  <1>4. OSEventPtr \in [Event -> Event \cup {NullEvent}] /\ OSEventFreeList \in Event \cup {NullEvent}
    <2> DEFINE free == Event \ DOMAIN InitType
    <2>1. PICK rank \in [free -> 1 .. Cardinality(free)] :
            /\ OSEventPtr = [e \in Event |->
                 IF \E f \in free : e \in free /\ rank[f] = rank[e] + 1
                 THEN CHOOSE f \in free : rank[f] = rank[e] + 1 ELSE NullEvent]
            /\ OSEventFreeList = IF free = {} THEN NullEvent
                                 ELSE CHOOSE e \in free : rank[e] = 1
            /\ \A e, f \in free : rank[e] = rank[f] => e = f
      BY DEF MsgInit, EventInit
    <2>2. OSEventPtr \in [Event -> Event \cup {NullEvent}]
      BY <2>1
    <2>3. OSEventFreeList \in Event \cup {NullEvent}
      BY <1>1 DEF FreeListSound, Linked
    <2> QED BY <2>2, <2>3
  <1>5. QBlocks = OS_MAX_QS /\ OSQFree \in 0 .. OS_MAX_QS
    <2> DEFINE inits == {e \in DOMAIN InitType : InitType[e] = "Q"}
    <2>1. Queues = inits /\ Makers = {}
      BY <1>2, MsgAssumption DEF Queues, Makers
    <2>2. IsFiniteSet(inits)
      <3>1. inits \subseteq Event
        BY MsgAssumption
      <3> QED BY <3>1, FS_Subset, MsgAssumption
    <2>3. Cardinality(inits) \in Nat /\ Cardinality({}) = 0
      BY <2>2, FS_CardinalityType, FS_EmptySet
    <2>4. OSQFree = OS_MAX_QS - Cardinality(inits)
      BY DEF MsgInit
    <2> QED BY <2>1, <2>3, <2>4, CountIs, MsgAssumption
  <1>6. /\ msgs = [e \in Event |-> <<>>] /\ OSTCBMsg = [t \in Tcb |-> NoMsg]
        /\ got = [t \in Tcb |-> [ev |-> NullEvent, val |-> "none"]] /\ unscheduled = FALSE
    BY DEF MsgInit
  <1>7. msgs \in [Event -> Seq(Msg)] /\ \A e \in Event : Len(msgs[e]) <= Cap(e)
    BY <1>6, EmptySeq, MsgAssumption DEF Cap
  <1>8. MsgTypes
    BY <1>3, <1>4, <1>5, <1>6, <1>7 DEF MsgTypes, Got
  <1>9. MsgTypeOK
    BY <1>1, <1>8, TypesAre DEF EventInv, CoreInv
  <1> QED BY <1>1, <1>2, <1>5, <1>9, MsgAssumption
         DEF MsgInv, QBlocksCounted, NoMessageWhileWaiting, OutrankedOnlyByChoice, RunsHighest

\* A step of the kernel.
LEMMA MsgKernelKeeps ==
  ASSUME MsgInv, MsgSafeUse, KernelStep, UNCHANGED <<ecbVars, msgs, OSQFree, OSTCBMsg, got>>,
         unscheduled' = (unscheduled /\ ~(OSLockNesting = 0 /\ (OS_Sched \/ OSIntExit)))
  PROVE  MsgInv'
  <1>1. /\ EventInv' /\ PlacesKept /\ (RunsHighest => RunsHighest')
        /\ \A e \in Event : OSEventTbl'[e] \subseteq OSEventTbl[e]
    BY MsgFacts, KernelKeepsEvents DEF MsgSafeUse, ecbVars
  <1>2. FreeListSound'
    BY <1>1, MsgFacts, KernelKeepsList
  <1>3. \A e \in Event : Cap(e)' = Cap(e)
    BY DEF Cap, ecbVars
  <1>4. unscheduled' \in BOOLEAN
    OBVIOUS
  <1>5. MsgTypes'
    BY <1>3, <1>4, MsgFacts, Zenon DEF MsgTypes, ecbVars
  <1>6. MsgTypeOK'
    BY <1>1, <1>5, TypesAreNext DEF EventInv, CoreInv
  <1>7. Makers' \subseteq Makers /\ ("OSTaskDel" \notin TaskCalls => Makers' = Makers)
    BY <1>1 DEF Makers, PlacesKept, Elsewhere, Making
  <1>8. Cardinality(Makers') <= Cardinality(Makers) /\ Cardinality(Makers') \in Nat
    BY <1>7, Counted, FS_Subset, FS_CardinalityType
  <1>9. Queues' = Queues /\ OSQFree' = OSQFree
    BY DEF Queues, ecbVars
  <1>10. QBlocksCounted'
    BY <1>7, <1>8, <1>9, Counted, CountIs, MsgFacts DEF QBlocksCounted
  <1>11. NoMessageWhileWaiting'
    BY <1>1, MsgFacts DEF NoMessageWhileWaiting
  <1>12. OutrankedOnlyByChoice'
    <2>1. CASE OSLockNesting = 0 /\ (OS_Sched \/ OSIntExit)
      BY <2>1, SchedSettles, MsgFacts, PromiseKept
    <2>2. CASE ~(OSLockNesting = 0 /\ (OS_Sched \/ OSIntExit))
      BY <2>2, <1>1, MsgFacts, PromiseKept DEF MsgTypes
    <2> QED BY <2>1, <2>2
  <1> QED BY <1>1, <1>2, <1>6, <1>10, <1>11, <1>12 DEF MsgInv, MsgSafeUse, Inherits

---------------------------------------------------------------------------
\* The check a task's call of a service begins with.
LEMMA MsgCheckKeeps ==
  ASSUME MsgInv, NEW s, NEW type, NEW e \in Event, NEW n \in Ticks,
         NEW l \in {"pend", "post", "accept", "flush", "del", "delalways"},
         l = "pend" => OSLockNesting = 0, Check(s, type, e, l, n),
         UNCHANGED <<msgs, OSQFree, OSTCBMsg, unscheduled>>,
         NEW f \in Event \cup {NullEvent}, got' = [got EXCEPT ![OSTCBCur] = [ev |-> f, val |-> "none"]]
  PROVE  MsgInv'
  <1>1. /\ EventInv' /\ (RunsHighest => RunsHighest') /\ Moves({"app"}, l)
        /\ UNCHANGED <<OSEventTbl, ecbVars>>
    BY MsgFacts, CheckKeeps DEF Points
  <1>2. got' \in [Tcb -> Got]
    BY GotKeeps
  <1>3. NoMessageWhileWaiting'
    BY <1>1, MsgFacts DEF NoMessageWhileWaiting
  <1>4. OutrankedOnlyByChoice'
    BY <1>1, MsgFacts, PromiseKept
  <1>5. \A g \in Event : Len(msgs'[g]) <= Cap(g)
    BY MsgFacts DEF MsgTypes
  <1>6. msgs' \in [Event -> Seq(Msg)] /\ OSTCBMsg' \in [Tcb -> Msg \cup {NoMsg}] /\ unscheduled' \in BOOLEAN
    BY MsgFacts DEF MsgTypes
  <1> QED BY <1>1, <1>2, <1>3, <1>4, <1>5, <1>6, RegionKeeps DEF Label

---------------------------------------------------------------------------
\* Messages leave a block: none comes where a task waits.
LEMMA MessagesLeave ==
  ASSUME MsgInv, NEW e \in Event, NEW q \in Seq(Msg), Len(q) <= Len(msgs[e]),
         q # <<>> => msgs[e] # <<>>, msgs' = [msgs EXCEPT ![e] = q], UNCHANGED <<OSEventTbl>>
  PROVE  /\ msgs' \in [Event -> Seq(Msg)] /\ \A f \in Event : Len(msgs'[f]) <= Cap(f)
         /\ NoMessageWhileWaiting'
  <1>1. msgs \in [Event -> Seq(Msg)] /\ \A f \in Event : Len(msgs[f]) <= Cap(f)
    BY MsgFacts DEF MsgTypes
  <1>2. Len(q) \in Nat /\ Len(msgs[e]) \in Nat /\ Cap(e) \in Nat
    BY <1>1, LenProperties, MsgAssumption DEF Cap
  <1> QED BY <1>1, <1>2, MsgFacts DEF NoMessageWhileWaiting

\* The running task, or a handler, takes messages out of a block and is done.
LEMMA TakeKeeps ==
  ASSUME MsgInv, NEW P \in SUBSET {"pend", "accept", "flush"}, OSIntNesting = 0 => at[OSTCBCur] \in P,
         NEW e \in Event, NEW q \in Seq(Msg), Len(q) <= Len(msgs[e]), q # <<>> => msgs[e] # <<>>,
         msgs' = [msgs EXCEPT ![e] = q], Return("app"), got' \in [Tcb -> Got],
         UNCHANGED <<OSRdyTbl, OSEventTbl, OSLockNesting, tcbVars, tblVars, cpuVars, ecbVars,
                     OSQFree, OSTCBMsg, unscheduled>>
  PROVE  MsgInv'
  <1>1. EventInv' /\ (RunsHighest => RunsHighest')
    BY MsgFacts, ReturnKeeps DEF Points, ecbVars
  <1>2. Moves(P, "app")
    BY MsgFacts, ReturnMoves DEF Points
  <1>3. OutrankedOnlyByChoice'
    BY <1>1, MsgFacts, PromiseKept
  <1>4. /\ msgs' \in [Event -> Seq(Msg)] /\ \A f \in Event : Len(msgs'[f]) <= Cap(f)
        /\ NoMessageWhileWaiting'
    BY MessagesLeave
  <1>5. OSTCBMsg' \in [Tcb -> Msg \cup {NoMsg}] /\ unscheduled' \in BOOLEAN
    BY MsgFacts DEF MsgTypes
  <1>6. {"app"} \cup P \subseteq Label \ {"take", "qinit", "create"}
    BY DEF Label
  <1> QED BY <1>1, <1>2, <1>3, <1>4, <1>5, <1>6, RegionKeeps

LEMMA ReceiveKeeps == ASSUME MsgInv, NEW type, Receive(type) PROVE MsgInv'
  <1> DEFINE e == loc[OSTCBCur].ev
  <1>1. e \in Event
    BY MsgFacts, RunnerAt DEF Receive, InTask, Points
  <1>2. msgs[e] \in Seq(Msg) /\ msgs[e] # <<>>
    BY <1>1, MsgFacts DEF MsgTypes, Receive
  <1>3. Head(msgs[e]) \in Msg /\ Tail(msgs[e]) \in Seq(Msg) /\ Len(Tail(msgs[e])) <= Len(msgs[e])
    BY <1>2, HeadTailProperties, LenProperties
  <1>4. got' \in [Tcb -> Got]
    <2>1. got' = [got EXCEPT ![OSTCBCur].val = Head(msgs[e])]
      BY DEF Receive
    <2> QED BY <1>1, <1>3, <2>1, GotKeeps
  <1>5. msgs' = [msgs EXCEPT ![e] = Tail(msgs[e])]
    BY DEF Receive
  <1> QED BY <1>1, <1>2, <1>3, <1>4, <1>5, TakeKeeps DEF Receive, InTask

LEMMA DropKeeps ==
  ASSUME MsgInv, NEW e \in Event, OSQAccept(e) \/ OSMboxAccept(e) \/ OSQFlush(e) PROVE MsgInv'
  <1>1. msgs \in [Event -> Seq(Msg)] /\ got' \in [Tcb -> Got]
    BY MsgFacts DEF MsgTypes, OSQAccept, OSMboxAccept, OSQFlush, Drop
  <1>2. PICK q : msgs' = [msgs EXCEPT ![e] = q] /\ (q = msgs[e] \/ q = <<>> \/ (msgs[e] # <<>> /\ q = Tail(msgs[e])))
    <2>1. CASE OSQFlush(e)
      BY <2>1 DEF OSQFlush
    <2>2. CASE Drop(e)
      BY <2>2 DEF Drop
    <2> QED BY <2>1, <2>2 DEF OSQAccept, OSMboxAccept
  <1>3. q \in Seq(Msg) /\ Len(q) <= Len(msgs[e]) /\ (q # <<>> => msgs[e] # <<>>)
    <2>1. msgs[e] \in Seq(Msg) /\ Len(msgs[e]) \in Nat /\ <<>> \in Seq(Msg) /\ Len(<<>>) = 0
      BY <1>1, LenProperties, EmptySeq
    <2>2. Len(msgs[e]) <= Len(msgs[e]) /\ 0 <= Len(msgs[e])
      BY <2>1
    <2>3. CASE q = msgs[e]
      BY <2>1, <2>2, <2>3, Zenon
    <2>4. CASE q = <<>>
      BY <2>1, <2>2, <2>4, Zenon
    <2>5. CASE msgs[e] # <<>> /\ q = Tail(msgs[e])
      <3>1. q \in Seq(Msg) /\ Len(q) = Len(msgs[e]) - 1
        BY <2>1, <2>5, HeadTailProperties
      <3>2. Len(q) <= Len(msgs[e])
        BY <2>1, <3>1
      <3> QED BY <2>5, <3>1, <3>2, Zenon
    <2> QED BY <1>2, <2>3, <2>4, <2>5
  <1>4. OSIntNesting = 0 => at[OSTCBCur] \in {"accept", "flush"}
    BY DEF OSQAccept, OSMboxAccept, OSQFlush, In, Runs, InTask, IsrCall
  <1> QED BY <1>1, <1>2, <1>3, <1>4, TakeKeeps DEF OSQAccept, OSMboxAccept, OSQFlush, Drop

\* None is there: the caller waits, and no message with it.
LEMMA WaitForKeeps == ASSUME MsgInv, NEW type \in {"Q", "MBOX"}, WaitFor(type) PROVE MsgInv'
  <1> DEFINE e == loc[OSTCBCur].ev
  <1>1. e \in Event /\ OSTCBCur # Idle
    BY MsgFacts, RunnerAt DEF WaitFor, InTask, Points
  <1>2. loc[OSTCBCur].arg \in Ticks
    BY MsgFacts DEF CoreInv, KernelTypeOK, Locals
  <1>3. type \in PendAny /\ OSEventType[e] = type /\ PendWait(e, type, loc[OSTCBCur].arg) /\ msgs[e] = <<>>
    BY DEF WaitFor, PendAny
  <1>4. /\ EventInv' /\ (RunsHighest => RunsHighest')
        /\ OSEventTbl' = [OSEventTbl EXCEPT ![e] = @ \cup {OSTCBPrio[OSTCBCur]}]
    BY <1>2, <1>3, WaitKeeps, MsgFacts DEF WaitFor, ecbVars, msgVars
  <1>5. Moves({"pend"}, "pendwait")
    BY <1>1, MsgFacts DEF Moves, WaitFor, PendWait, Goto, InTask, CoreInv, KernelTypeOK
  <1>6. NoMessageWhileWaiting'
    <2>1. OSEventTbl \in [Event -> SUBSET Prio] /\ UNCHANGED msgs
      BY MsgFacts DEF CoreInv, KernelTypeOK, WaitFor, msgVars
    <2> QED BY <1>1, <1>3, <1>4, <2>1, MsgFacts DEF NoMessageWhileWaiting
  <1>7. OutrankedOnlyByChoice'
    BY <1>4, MsgFacts, PromiseKept DEF WaitFor, msgVars
  <1>8. UNCHANGED <<ecbVars, msgs, OSQFree, OSTCBMsg, got, unscheduled>>
    BY DEF WaitFor, msgVars
  <1>9. /\ msgs' \in [Event -> Seq(Msg)] /\ \A f \in Event : Len(msgs'[f]) <= Cap(f)
        /\ OSTCBMsg' \in [Tcb -> Msg \cup {NoMsg}] /\ got' \in [Tcb -> Got] /\ unscheduled' \in BOOLEAN
    BY <1>8, MsgFacts DEF MsgTypes
  <1> QED BY <1>4, <1>5, <1>6, <1>7, <1>8, <1>9, RegionKeeps DEF Label

\* Back from the scheduler: the wait timed out, or a message was left.
LEMMA PendEndsKeeps == ASSUME MsgInv, Pend_Timeout \/ Pend_Done PROVE MsgInv'
  <1>1. PlaceTypes /\ Moves({"pendwake"}, "app") /\ OSTCBCur \in Tcb
    BY MsgFacts, ReturnMoves DEF Pend_Timeout, Pend_Done, InTask, Points
  <1>2. /\ EventInv' /\ (RunsHighest => RunsHighest')
        /\ \A f \in Event : OSEventTbl'[f] \subseteq OSEventTbl[f]
    <2>1. CASE Pend_Timeout
      BY <1>1, <2>1, MsgFacts, TimeoutKeeps DEF Pend_Timeout, ecbVars
    <2>2. CASE Pend_Done
      BY <2>2, MsgFacts, DoneKeeps DEF Pend_Done, ecbVars
    <2> QED BY <2>1, <2>2
  <1>3. OSTCBMsg' \in [Tcb -> Msg \cup {NoMsg}]
    BY MsgFacts DEF MsgTypes, Pend_Timeout, Pend_Done
  <1>4. got' \in [Tcb -> Got]
    <2>1. OSTCBMsg[OSTCBCur] \in Msg \cup {NoMsg}
      BY MsgFacts DEF MsgTypes
    <2>2. PICK v \in Msg \cup {NoMsg, "none", "timeout"} : got' = [got EXCEPT ![OSTCBCur].val = v]
      BY <2>1 DEF Pend_Timeout, Pend_Done
    <2> QED BY <2>2, GotKeeps
  <1>5. UNCHANGED <<ecbVars, msgs, OSQFree, unscheduled>>
    BY DEF Pend_Timeout, Pend_Done
  <1>6. /\ msgs' \in [Event -> Seq(Msg)] /\ \A f \in Event : Len(msgs'[f]) <= Cap(f)
        /\ unscheduled' \in BOOLEAN
    BY <1>5, MsgFacts DEF MsgTypes
  <1>7. NoMessageWhileWaiting'
    BY <1>2, <1>5, MsgFacts DEF NoMessageWhileWaiting
  <1>8. OutrankedOnlyByChoice'
    BY <1>2, <1>5, MsgFacts, PromiseKept
  <1> QED BY <1>1, <1>2, <1>3, <1>4, <1>5, <1>6, <1>7, <1>8, RegionKeeps DEF Label

---------------------------------------------------------------------------
\* A post: the message goes to tasks that wait, or into the block if there is room.
LEMMA SendKeeps ==
  ASSUME MsgInv, NEW e \in Event, NEW m \in Msg, NEW P \in SUBSET OSEventTbl[e], NEW q \in Seq(Msg),
         Len(msgs[e]) < Cap(e) => Len(q) <= Cap(e), NEW l \in {"app", "sched"},
         OSIntNesting = 0 => at[OSTCBCur] = "post", Send(e, m, P, q, l)
  PROVE  MsgInv'
  <1>1. /\ msgs \in [Event -> Seq(Msg)] /\ \A f \in Event : Len(msgs[f]) <= Cap(f)
        /\ OSTCBMsg \in [Tcb -> Msg \cup {NoMsg}] /\ got \in [Tcb -> Got] /\ unscheduled \in BOOLEAN
    BY MsgFacts DEF MsgTypes
  <1>2. /\ unscheduled' = (unscheduled \/ (OSIntNesting = 0 /\ OSEventTbl[e] # {} /\ l = "app"))
        /\ UNCHANGED <<OSLockNesting, tblVars, cpuVars, ecbVars, OSQFree, got>>
    BY DEF Send
  <1>3. unscheduled' \in BOOLEAN
    BY <1>2
  <1>4. CASE OSEventTbl[e] # {}
    <2>1. Ready(e, P, m) /\ Return(l) /\ UNCHANGED msgs
      BY <1>4 DEF Send
    <2>2. PlaceTypes /\ Moves({"post"}, l) /\ OSTCBCur \in Tcb
      BY <2>1, MsgFacts, ReturnMoves DEF Points
    <2>3. Moves(Points \ {"pendwake"}, l)
      BY <2>2 DEF Moves, Points
    <2>4. /\ EventInv' /\ \A f \in Event : OSEventTbl'[f] \subseteq OSEventTbl[f]
          /\ RunsHighest /\ (OSIntNesting # 0 \/ l = "sched") => RunsHighest'
      BY <1>2, <2>1, <2>2, <2>3, MsgFacts, ServeKeeps DEF Ready, ecbVars
    <2>5. NoMessageWhileWaiting'
      BY <2>1, <2>4, MsgFacts DEF NoMessageWhileWaiting
    <2>6. OutrankedOnlyByChoice'
      BY <1>1, <1>2, <1>4, <2>4, MsgFacts, PromiseKept
    <2>7. OSTCBMsg' \in [Tcb -> Msg \cup {NoMsg}]
      BY <1>1, <2>1 DEF Ready
    <2>8. /\ msgs' \in [Event -> Seq(Msg)] /\ \A f \in Event : Len(msgs'[f]) <= Cap(f)
          /\ got' \in [Tcb -> Got]
      BY <1>1, <1>2, <2>1
    <2> QED BY <1>2, <1>3, <2>2, <2>4, <2>5, <2>6, <2>7, <2>8, RegionKeeps DEF Label
  <1>5. CASE OSEventTbl[e] = {}
    <2>1. /\ msgs' = [msgs EXCEPT ![e] = IF Len(@) < Cap(e) THEN q ELSE @] /\ Return("app")
          /\ UNCHANGED <<OSRdyTbl, OSEventTbl, tcbVars, OSTCBMsg>>
      BY <1>5 DEF Send
    <2>2. Moves({"post"}, "app")
      BY <2>1, MsgFacts, ReturnMoves DEF Points
    <2>3. EventInv' /\ (RunsHighest => RunsHighest')
      BY <1>2, <2>1, MsgFacts, ReturnKeeps DEF Points, ecbVars
    <2>4. NoMessageWhileWaiting'
      BY <1>1, <1>5, <2>1, MsgFacts DEF NoMessageWhileWaiting
    <2>5. OutrankedOnlyByChoice'
      BY <1>1, <1>2, <2>3, MsgFacts, PromiseKept
    <2>6. msgs' \in [Event -> Seq(Msg)] /\ \A f \in Event : Len(msgs'[f]) <= Cap(f)
      BY <1>1, <2>1
    <2>7. OSTCBMsg' \in [Tcb -> Msg \cup {NoMsg}] /\ got' \in [Tcb -> Got]
      BY <1>1, <1>2, <2>1
    <2> QED BY <1>2, <1>3, <2>2, <2>3, <2>4, <2>5, <2>6, <2>7, RegionKeeps DEF Label
  <1> QED BY <1>4, <1>5

LEMMA OneMoreFits ==
  ASSUME NEW n \in Nat, NEW k \in Nat, NEW c \in Nat, n < c, k = 1 \/ k = n + 1 PROVE k <= c
  OBVIOUS

LEMMA PostKeeps ==
  ASSUME MsgInv, NEW e \in Event, NEW m \in Msg,
         \/ OSQPost(e, m) \/ OSQPostFront(e, m) \/ OSMboxPost(e, m)
         \/ \E opt \in PostOpts : OSQPostOpt(e, m, opt) \/ OSMboxPostOpt(e, m, opt)
  PROVE  MsgInv'
  <1>1. msgs[e] \in Seq(Msg) /\ <<m>> \in Seq(Msg) /\ Len(<<m>>) = 1 /\ Len(msgs[e]) \in Nat /\ Cap(e) \in Nat
    BY MsgFacts, LenProperties, MsgAssumption DEF MsgTypes, Cap
  <1>2. /\ Append(msgs[e], m) \in Seq(Msg) /\ Len(Append(msgs[e], m)) = Len(msgs[e]) + 1
        /\ <<m>> \o msgs[e] \in Seq(Msg) /\ Len(<<m>> \o msgs[e]) = 1 + Len(msgs[e])
    BY <1>1, AppendProperties, ConcatProperties
  <1>3. OSIntNesting = 0 => at[OSTCBCur] = "post"
    BY DEF OSQPost, OSQPostFront, OSMboxPost, OSQPostOpt, OSMboxPostOpt, In, Runs, InTask, IsrCall
  <1>4. Highest(e) \in SUBSET OSEventTbl[e] /\ \A opt \in PostOpts : Receivers(e, opt) \in SUBSET OSEventTbl[e]
    BY DEF Highest, Receivers
  <1>5. ASSUME NEW P \in SUBSET OSEventTbl[e], NEW l \in {"app", "sched"}, NEW q \in Seq(Msg),
               Len(q) \in {1, Len(msgs[e]) + 1}, Send(e, m, P, q, l)
        PROVE  MsgInv'
    <2>1. Len(msgs[e]) \in Nat /\ Cap(e) \in Nat
      BY <1>1
    <2>2. Len(msgs[e]) < Cap(e) => Len(q) <= Cap(e)
      <3>1. Len(q) \in Nat /\ (Len(q) = 1 \/ Len(q) = Len(msgs[e]) + 1)
        BY <1>5, LenProperties
      <3> QED BY <2>1, <3>1, OneMoreFits
    <2> QED BY <1>3, <1>5, <2>2, SendKeeps
  <1>6. CASE OSQPost(e, m) \/ OSQPostFront(e, m) \/ OSMboxPost(e, m)
    <2>1. Len(<<m>>) \in {1, Len(msgs[e]) + 1}
      BY <1>1
    <2>2. Len(Append(msgs[e], m)) \in {1, Len(msgs[e]) + 1} /\ Len(<<m>> \o msgs[e]) \in {1, Len(msgs[e]) + 1}
      BY <1>1, <1>2
    <2>3. CASE OSQPost(e, m)
      BY <1>2, <1>4, <1>5, <2>2, <2>3 DEF OSQPost
    <2>4. CASE OSQPostFront(e, m)
      BY <1>2, <1>4, <1>5, <2>2, <2>4 DEF OSQPostFront
    <2>5. CASE OSMboxPost(e, m)
      BY <1>1, <1>4, <1>5, <2>1, <2>5 DEF OSMboxPost
    <2> QED BY <1>6, <2>3, <2>4, <2>5
  <1>7. ASSUME NEW opt \in PostOpts, OSQPostOpt(e, m, opt) PROVE MsgInv'
    <2> DEFINE q == IF "FRONT" \in opt THEN <<m>> \o msgs[e] ELSE Append(msgs[e], m)
    <2>1. q \in Seq(Msg) /\ Len(q) \in {1, Len(msgs[e]) + 1}
      <3>1. CASE "FRONT" \in opt
        BY <1>1, <1>2, <3>1
      <3>2. CASE "FRONT" \notin opt
        BY <1>1, <1>2, <3>2
      <3> QED BY <3>1, <3>2
    <2> QED BY <1>4, <1>5, <1>7, <2>1 DEF OSQPostOpt
  <1>8. ASSUME NEW opt \in PostOpts, OSMboxPostOpt(e, m, opt) PROVE MsgInv'
    BY <1>1, <1>4, <1>5, <1>8 DEF OSMboxPostOpt
  <1> QED BY <1>6, <1>7, <1>8

---------------------------------------------------------------------------
\* A region that changes an event block or the OS_Q blocks keeps MsgInv if it keeps the
\* lists and counts of both, and what is said of the messages.
LEMMA BlockKeeps ==
  ASSUME MsgInv, EventInv', RunsHighest => RunsHighest', FreeListSound', UNCHANGED unscheduled,
         OSQFree' \in Int, OSQFree' >= 0,
         OSQFree' + Cardinality(Queues') + Cardinality(Makers') =
           OSQFree + Cardinality(Queues) + Cardinality(Makers),
         Cardinality(Queues') \in Nat, Cardinality(Makers') \in Nat,
         OSEventType' \in [Event -> {"Q", "MBOX", "UNUSED"}],
         OSEventPtr' \in [Event -> Event \cup {NullEvent}],
         OSEventFreeList' \in Event \cup {NullEvent},
         msgs' \in [Event -> Seq(Msg)], \A e \in Event : Len(msgs'[e]) <= Cap(e)',
         OSTCBMsg' \in [Tcb -> Msg \cup {NoMsg}], got' \in [Tcb -> Got],
         NoMessageWhileWaiting'
  PROVE  MsgInv'
  <1>1. QBlocks' = QBlocks
    BY CountIs
  <1>2. QBlocksCounted'
    BY <1>1, MsgFacts DEF QBlocksCounted
  <1>3. OSQFree' \in 0 .. OS_MAX_QS
    BY Counted
  <1>4. unscheduled' \in BOOLEAN /\ OutrankedOnlyByChoice'
    BY MsgFacts, PromiseKept DEF MsgTypes
  <1>5. MsgTypes'
    BY <1>3, <1>4, Zenon DEF MsgTypes
  <1>6. MsgTypeOK'
    BY <1>5, TypesAreNext DEF EventInv, CoreInv
  <1> QED BY <1>2, <1>4, <1>6 DEF MsgInv, Inherits

\* OSQCreate and OSMboxCreate take an event block.
LEMMA MsgCreateKeeps == ASSUME MsgInv, OSQCreate \/ OSMboxCreate PROVE MsgInv'
  <1>1. PICK l \in {"take", "create"} : \E s : CreateAt(s, l)
    BY DEF OSQCreate, OSMboxCreate
  <1>2. PICK s : CreateAt(s, l)
    BY <1>1
  <1>3. /\ TaskCall(s) /\ TakeEvent /\ Goto(l) /\ Keep([NoLocals EXCEPT !.ev = OSEventFreeList]) /\ Forget
        /\ UNCHANGED <<OSRdyTbl, OSEventTbl, OSLockNesting, tcbVars, tblVars, cpuVars, OSEventType,
                       OSEventCnt, OSEventPtr, msgs, OSQFree, OSTCBMsg, unscheduled>>
    BY <1>2 DEF CreateAt
  <1>4. /\ EventInv' /\ (RunsHighest => RunsHighest') /\ FreeListSound'
        /\ Moves({"app"}, l) /\ OSEventFreeList \in Event
    BY <1>3, MsgFacts, CreateKeeps
  <1>5. Makers' = Makers /\ Queues' = Queues
    BY <1>3, <1>4 DEF Makers, Queues, Moves
  <1>6. got' \in [Tcb -> Got]
    BY <1>3, GotKeeps DEF Forget
  <1>7. OSEventFreeList' \in Event \cup {NullEvent}
    BY <1>3, <1>4, MsgFacts DEF TakeEvent, MsgTypes
  <1>8. /\ OSEventType' \in [Event -> {"Q", "MBOX", "UNUSED"}]
        /\ OSEventPtr' \in [Event -> Event \cup {NullEvent}]
        /\ msgs' \in [Event -> Seq(Msg)] /\ \A e \in Event : Len(msgs'[e]) <= Cap(e)'
        /\ OSTCBMsg' \in [Tcb -> Msg \cup {NoMsg}]
    BY <1>3, MsgFacts DEF MsgTypes, Cap
  <1>9. NoMessageWhileWaiting'
    BY <1>3, MsgFacts DEF NoMessageWhileWaiting
  <1>10. OSQFree' \in Int /\ OSQFree' >= 0 /\ Cardinality(Queues') \in Nat /\ Cardinality(Makers') \in Nat
    BY <1>3, <1>5, Counted
  <1> QED BY <1>3, <1>4, <1>5, <1>6, <1>7, <1>8, <1>9, <1>10, BlockKeeps

\* OSQCreate takes an OS_Q block, or there is none and the event block goes back.
LEMMA TakeQKeeps == ASSUME MsgInv, OSQCreate_Take PROVE MsgInv'
  <1> DEFINE me == OSTCBCur
  <1>1. /\ InTask("take") /\ me \in Tcb /\ OSIntNesting = 0 /\ at[me] = "take" /\ Making(me)
        /\ UNCHANGED <<OSRdyTbl, OSEventTbl, OSLockNesting, tcbVars, tblVars, cpuVars, OSEventType,
                       OSEventCnt, msgs, OSTCBMsg, got, unscheduled>>
    BY MsgFacts DEF OSQCreate_Take, InTask, Making
  <1>2. /\ OSEventType' \in [Event -> {"Q", "MBOX", "UNUSED"}]
        /\ msgs' \in [Event -> Seq(Msg)] /\ \A e \in Event : Len(msgs'[e]) <= Cap(e)'
        /\ OSTCBMsg' \in [Tcb -> Msg \cup {NoMsg}] /\ got' \in [Tcb -> Got]
    BY <1>1, MsgFacts DEF MsgTypes, Cap
  <1>3. NoMessageWhileWaiting'
    BY <1>1, MsgFacts DEF NoMessageWhileWaiting
  <1>4. Queues' = Queues
    BY <1>1 DEF Queues
  <1>5. loc[me].ev \in Event /\ OSEventPtr \in [Event -> Event \cup {NullEvent}] /\ OSEventFreeList \in Event \cup {NullEvent}
    BY <1>1, MsgFacts DEF EventInv, BlocksApart, MsgTypes
  <1>6. CASE OSQFree > 0
    <2>1. OSQFree' = OSQFree - 1 /\ Goto("qinit") /\ UNCHANGED <<OSEventPtr, OSEventFreeList, loc>>
      BY <1>6 DEF OSQCreate_Take
    <2>2. at' = [at EXCEPT ![me] = "qinit"] /\ UNCHANGED served
      BY <1>1, <2>1 DEF Goto
    <2>3. PlaceTypes /\ Moves(Points, "qinit")
      <3>1. me # Idle /\ at \in [Tcb -> Label] /\ loc \in [Tcb -> Locals] /\ served \in BOOLEAN
        BY <1>1, MsgFacts DEF CoreInv, IdleStays, KernelTypeOK
      <3> QED BY <1>1, <2>1, <2>2, <3>1 DEF PlaceTypes, Moves, Points, Label
    <2>4. OSTCBEventPtr[me] = NullEvent
      BY <1>1, MsgFacts, RunnerAt DEF Points
    <2>5. \A t \in Tcb : (Making(t)' <=> Making(t)) /\ loc'[t].ev = loc[t].ev
      BY <1>1, <2>1, <2>2, MsgFacts DEF Making, CoreInv, KernelTypeOK
    <2>6. EventInv' /\ (RunsHighest => RunsHighest')
      <3>1. /\ loc'[me].ev \in Event /\ OSEventType[loc'[me].ev] = "UNUSED"
            /\ \A t \in Tcb \ {me} : Making(t) => loc[t].ev # loc'[me].ev
        BY <1>1, <2>1, MsgFacts DEF EventInv, BlocksApart
      <3> QED BY <1>1, <2>3, <2>4, <3>1, MsgFacts, QuietKeeps DEF Points
    <2>7. FreeListSound'
      <3>1. Untaken' = Untaken
        BY <1>1, <2>5, TakenSame DEF Untaken
      <3> QED BY <2>1, <3>1, MsgFacts, FreeListStays
    <2>8. Makers' = Makers \cup {me} /\ me \notin Makers
      BY <1>1, <2>2, MsgFacts DEF Makers, CoreInv, KernelTypeOK
    <2>9. Cardinality(Makers') = Cardinality(Makers) + 1
      BY <2>8, Counted, FS_AddElement
    <2>10. /\ OSQFree' \in Int /\ OSQFree' >= 0 /\ Cardinality(Queues') \in Nat /\ Cardinality(Makers') \in Nat
           /\ OSQFree' + Cardinality(Queues') + Cardinality(Makers') =
                OSQFree + Cardinality(Queues) + Cardinality(Makers)
      BY <1>4, <1>6, <2>1, <2>9, Counted
    <2> QED BY <1>1, <1>2, <1>3, <1>5, <2>1, <2>6, <2>7, <2>10, BlockKeeps
  <1>7. CASE ~(OSQFree > 0)
    <2>1. /\ OSEventPtr' = [OSEventPtr EXCEPT ![loc[me].ev] = OSEventFreeList]
          /\ OSEventFreeList' = loc[me].ev /\ Return("app") /\ UNCHANGED OSQFree
      BY <1>7 DEF OSQCreate_Take
    <2>2. EventInv' /\ (RunsHighest => RunsHighest') /\ FreeListSound'
      BY <1>1, <1>5, <2>1, MsgFacts, GiveBackKeeps
    <2>3. Makers' = Makers
      <3>1. at' = [at EXCEPT ![me] = "app"]
        BY <1>1, <2>1 DEF Return, Goto
      <3> QED BY <1>1, <3>1, MsgFacts DEF Makers, CoreInv, KernelTypeOK
    <2>4. /\ OSQFree' \in Int /\ OSQFree' >= 0 /\ Cardinality(Queues') \in Nat /\ Cardinality(Makers') \in Nat
          /\ OSQFree' + Cardinality(Queues') + Cardinality(Makers') =
               OSQFree + Cardinality(Queues) + Cardinality(Makers)
      BY <1>4, <2>1, <2>3, Counted
    <2>5. OSEventPtr' \in [Event -> Event \cup {NullEvent}] /\ OSEventFreeList' \in Event \cup {NullEvent}
      BY <1>5, <2>1
    <2> QED BY <1>1, <1>2, <1>3, <2>2, <2>4, <2>5, BlockKeeps
  <1> QED BY <1>6, <1>7

\* OSQCreate and OSMboxCreate initialise the block and return.
LEMMA MsgCreated ==
  ASSUME MsgInv, NEW l \in {"qinit", "create"}, NEW type \in {"Q", "MBOX"},
         l = "qinit" <=> type = "Q", NEW q \in Seq(Msg), Len(q) = 0 \/ (type = "MBOX" /\ Len(q) = 1),
         Initialise(l, type, q)
  PROVE  MsgInv'
  <1> DEFINE me == OSTCBCur
             e == loc[me].ev
  <1>1. /\ InTask(l) /\ me \in Tcb /\ OSIntNesting = 0 /\ at[me] = l /\ Return("app")
        /\ UNCHANGED <<OSRdyTbl, OSLockNesting, tcbVars, tblVars, cpuVars, OSEventFreeList,
                       OSQFree, OSTCBMsg, got, unscheduled>>
    BY MsgFacts DEF Initialise, InTask
  <1>2. /\ OSEventType' = [OSEventType EXCEPT ![e] = type]
        /\ OSEventPtr' = [OSEventPtr EXCEPT ![e] = NullEvent]
        /\ OSEventTbl' = [OSEventTbl EXCEPT ![e] = {}]
        /\ msgs' = [msgs EXCEPT ![e] = q]
    BY DEF Initialise
  <1>3. /\ OSEventType \in [Event -> {"Q", "MBOX", "UNUSED"}] /\ msgs \in [Event -> Seq(Msg)]
        /\ OSEventPtr \in [Event -> Event \cup {NullEvent}] /\ OSEventFreeList \in Event \cup {NullEvent}
        /\ OSTCBMsg \in [Tcb -> Msg \cup {NoMsg}] /\ got \in [Tcb -> Got]
        /\ \A f \in Event : Len(msgs[f]) <= Cap(f)
    BY MsgFacts DEF MsgTypes
  <1>4. e \in Event /\ OSEventType[e] = "UNUSED" /\ OSEventTbl[e] = {}
    BY <1>1, MsgFacts, MakerLeaves
  <1>5. /\ EventInv' /\ (RunsHighest => RunsHighest') /\ FreeListSound' /\ UNCHANGED OSEventTbl
    BY <1>1, <1>2, <1>3, MsgFacts, InitKeeps
  <1>6. /\ OSEventType' \in [Event -> {"Q", "MBOX", "UNUSED"}]
        /\ OSEventPtr' \in [Event -> Event \cup {NullEvent}] /\ OSEventFreeList' \in Event \cup {NullEvent}
        /\ OSTCBMsg' \in [Tcb -> Msg \cup {NoMsg}] /\ got' \in [Tcb -> Got]
        /\ msgs' \in [Event -> Seq(Msg)]
    BY <1>1, <1>2, <1>3
  <1>7. ASSUME NEW f \in Event PROVE Len(msgs'[f]) <= Cap(f)'
    <2>1. CASE f = e
      <3>1. msgs'[f] = q /\ OSEventType'[f] = type
        BY <1>2, <1>3, <1>4, <2>1
      <3>2. Cap(f)' = IF type = "Q" THEN QSize ELSE 1
        BY <3>1 DEF Cap
      <3>3. CASE Len(q) = 0
        <4>1. Len(msgs'[f]) = 0 /\ Cap(f)' \in Nat
          BY <3>1, <3>2, <3>3, MsgAssumption
        <4> QED BY <4>1
      <3>4. CASE type = "MBOX" /\ Len(q) = 1
        <4>1. Len(msgs'[f]) = 1 /\ Cap(f)' = 1
          BY <3>1, <3>2, <3>4
        <4> QED BY <4>1
      <3> QED BY <3>3, <3>4
    <2>2. CASE f # e
      <3>1. msgs'[f] = msgs[f] /\ Cap(f)' = Cap(f)
        BY <1>2, <1>3, <2>2 DEF Cap
      <3> QED BY <1>3, <3>1
    <2> QED BY <2>1, <2>2
  <1>8. NoMessageWhileWaiting'
    BY <1>2, <1>3, <1>4, <1>5, MsgFacts DEF NoMessageWhileWaiting
  <1>9. at' = [at EXCEPT ![me] = "app"] /\ at \in [Tcb -> Label]
    BY <1>1, MsgFacts DEF Return, Goto, CoreInv, KernelTypeOK
  <1>10. /\ OSQFree' \in Int /\ OSQFree' >= 0 /\ Cardinality(Queues') \in Nat /\ Cardinality(Makers') \in Nat
         /\ OSQFree' + Cardinality(Queues') + Cardinality(Makers') =
              OSQFree + Cardinality(Queues) + Cardinality(Makers)
    <2>1. CASE type = "Q"
      <3>1. Queues' = Queues \cup {e} /\ e \notin Queues
        BY <1>2, <1>3, <1>4, <2>1 DEF Queues
      <3>2. Makers' = Makers \ {me} /\ me \in Makers
        BY <1>1, <1>9, <2>1 DEF Makers
      <3>3. Cardinality(Queues') = Cardinality(Queues) + 1 /\ Cardinality(Makers') = Cardinality(Makers) - 1
        BY <3>1, <3>2, Counted, FS_AddElement, FS_RemoveElement
      <3>4. Cardinality(Makers') \in Nat
        BY <3>2, Counted, FS_RemoveElement, FS_CardinalityType
      <3> QED BY <1>1, <3>3, <3>4, Counted
    <2>2. CASE type # "Q"
      <3>1. Queues' = Queues
        BY <1>2, <1>3, <1>4, <2>2 DEF Queues
      <3>2. Makers' = Makers
        BY <1>1, <1>9, <2>2 DEF Makers
      <3> QED BY <1>1, <3>1, <3>2, Counted
    <2> QED BY <2>1, <2>2
  <1> QED BY <1>1, <1>5, <1>6, <1>7, <1>8, <1>10, BlockKeeps

LEMMA MsgInitialiseKeeps ==
  ASSUME MsgInv, OSQCreate_Init \/ \E m \in Msg \cup {NoMsg} : OSMboxCreate_Init(m) PROVE MsgInv'
  <1>1. <<>> \in Seq(Msg) /\ Len(<<>>) = 0 /\ \A m \in Msg : <<m>> \in Seq(Msg) /\ Len(<<m>>) = 1
    BY EmptySeq
  <1>2. CASE OSQCreate_Init
    BY <1>1, <1>2, MsgCreated DEF OSQCreate_Init
  <1>3. ASSUME NEW m \in Msg \cup {NoMsg}, OSMboxCreate_Init(m) PROVE MsgInv'
    BY <1>1, <1>3, MsgCreated DEF OSMboxCreate_Init
  <1> QED BY <1>2, <1>3

---------------------------------------------------------------------------
\* A delete service frees the block, and its OS_Q block.
LEMMA DeleteCounts ==
  ASSUME MsgInv, NEW e \in Event, OSEventType[e] \in {"Q", "MBOX"}, Delete(e), Makers' = Makers
  PROVE  /\ OSQFree' \in Int /\ OSQFree' >= 0 /\ Cardinality(Queues') \in Nat /\ Cardinality(Makers') \in Nat
         /\ OSQFree' + Cardinality(Queues') + Cardinality(Makers') =
              OSQFree + Cardinality(Queues) + Cardinality(Makers)
         /\ OSEventType' \in [Event -> {"Q", "MBOX", "UNUSED"}]
         /\ OSEventPtr' \in [Event -> Event \cup {NullEvent}] /\ OSEventFreeList' \in Event \cup {NullEvent}
         /\ msgs' \in [Event -> Seq(Msg)] /\ \A f \in Event : Len(msgs'[f]) <= Cap(f)'
         /\ \A f \in Event \ {e} : OSEventType'[f] = OSEventType[f] /\ msgs'[f] = msgs[f]
         /\ msgs'[e] = <<>>
  <1>1. /\ OSEventType' = [OSEventType EXCEPT ![e] = "UNUSED"]
        /\ OSEventPtr' = [OSEventPtr EXCEPT ![e] = OSEventFreeList] /\ OSEventFreeList' = e
        /\ msgs' = [msgs EXCEPT ![e] = <<>>]
        /\ OSQFree' = IF OSEventType[e] = "Q" THEN OSQFree + 1 ELSE OSQFree
    BY DEF Delete, FreeEvent
  <1>2. /\ OSEventType \in [Event -> {"Q", "MBOX", "UNUSED"}] /\ msgs \in [Event -> Seq(Msg)]
        /\ OSEventPtr \in [Event -> Event \cup {NullEvent}] /\ OSEventFreeList \in Event \cup {NullEvent}
        /\ \A f \in Event : Len(msgs[f]) <= Cap(f)
    BY MsgFacts DEF MsgTypes
  <1>3. /\ OSEventType' \in [Event -> {"Q", "MBOX", "UNUSED"}]
        /\ OSEventPtr' \in [Event -> Event \cup {NullEvent}] /\ OSEventFreeList' \in Event \cup {NullEvent}
        /\ \A f \in Event \ {e} : OSEventType'[f] = OSEventType[f] /\ msgs'[f] = msgs[f]
    BY <1>1, <1>2
  <1>4. msgs' \in [Event -> Seq(Msg)] /\ msgs'[e] = <<>>
    BY <1>1, <1>2, EmptySeq
  <1>5. \A f \in Event : Len(msgs'[f]) <= Cap(f)'
    <2>1. Len(msgs'[e]) = 0
      BY <1>4, EmptySeq
    <2>2. \A f \in Event \ {e} : Len(msgs'[f]) = Len(msgs[f]) /\ Cap(f)' = Cap(f)
      BY <1>3 DEF Cap
    <2>3. Cap(e)' \in Nat
      BY MsgAssumption DEF Cap
    <2> QED BY <1>2, <2>1, <2>2, <2>3
  <1>6. /\ OSQFree' \in Int /\ OSQFree' >= 0 /\ Cardinality(Queues') \in Nat /\ Cardinality(Makers') \in Nat
        /\ OSQFree' + Cardinality(Queues') + Cardinality(Makers') =
             OSQFree + Cardinality(Queues) + Cardinality(Makers)
    <2>1. CASE OSEventType[e] = "Q"
      <3>1. Queues' = Queues \ {e} /\ e \in Queues
        BY <1>1, <1>2, <2>1 DEF Queues
      <3>2. Cardinality(Queues') = Cardinality(Queues) - 1
        BY <3>1, Counted, FS_RemoveElement
      <3>3. Cardinality(Queues') \in Nat
        BY <3>1, Counted, FS_RemoveElement, FS_CardinalityType
      <3> QED BY <1>1, <2>1, <3>2, <3>3, Counted
    <2>2. CASE OSEventType[e] # "Q"
      <3>1. Queues' = Queues
        BY <1>1, <1>2, <2>2 DEF Queues
      <3> QED BY <1>1, <2>2, <3>1, Counted
    <2> QED BY <2>1, <2>2
  <1> QED BY <1>3, <1>4, <1>5, <1>6

LEMMA MsgDelNoPendKeeps ==
  ASSUME MsgInv, NEW e \in Event, NEW type \in {"Q", "MBOX"}, DelNoPend(type, e) PROVE MsgInv'
  <1>1. /\ InTask("del") /\ OSEventType[e] = type /\ Return("app") /\ OSIntNesting = 0
        /\ UNCHANGED <<OSRdyTbl, OSEventTbl, OSLockNesting, tcbVars, tblVars, cpuVars, OSTCBMsg,
                       got, unscheduled>>
    BY DEF DelNoPend, InTask
  <1>2. PlaceTypes /\ Moves({"del"}, "app") /\ OSTCBCur \in Tcb
    BY <1>1, MsgFacts, ReturnMoves DEF InTask, Points
  <1>3. OSTCBMsg' \in [Tcb -> Msg \cup {NoMsg}] /\ got' \in [Tcb -> Got]
    BY <1>1, MsgFacts DEF MsgTypes
  <1>4. CASE OSEventTbl[e] = {}
    <2>1. Delete(e) /\ FreeEvent(e)
      BY <1>4 DEF DelNoPend, Delete
    <2>2. FreeListSound' /\ \A t \in Tcb : Making(t)' => loc'[t].ev # e
      <3>1. DOMAIN OSEventType = Event /\ OSEventPtr \in [Event -> Event \cup {NullEvent}]
        BY MsgFacts DEF MsgTypes
      <3> QED BY <1>1, <1>2, <2>1, <3>1, MsgFacts, DeleteFrees DEF Label
    <2>3. Makers' = Makers
      BY <1>1, <1>2, MsgFacts DEF Makers, Moves
    <2>4. \A f \in Event \ {e} : OSEventType'[f] = OSEventType[f] /\ msgs'[f] = msgs[f]
      BY <1>1, <2>1, <2>3, DeleteCounts
    <2>5. EventInv' /\ (RunsHighest => RunsHighest')
      BY <1>1, <1>4, <2>2, <2>4, MsgFacts, ReturnKeeps DEF InTask, Points
    <2>6. NoMessageWhileWaiting'
      BY <1>1, <1>4, <2>4, MsgFacts DEF NoMessageWhileWaiting
    <2> QED BY <1>1, <1>3, <2>1, <2>2, <2>3, <2>5, <2>6, DeleteCounts, BlockKeeps
  <1>5. CASE OSEventTbl[e] # {}
    <2>1. UNCHANGED <<ecbVars, msgs, OSQFree>>
      BY <1>5 DEF DelNoPend
    <2>2. EventInv' /\ (RunsHighest => RunsHighest')
      BY <1>1, <2>1, MsgFacts, ReturnKeeps DEF InTask, Points, ecbVars
    <2>3. NoMessageWhileWaiting'
      BY <1>1, <2>1, MsgFacts DEF NoMessageWhileWaiting
    <2>4. OutrankedOnlyByChoice'
      BY <1>1, <2>2, MsgFacts, PromiseKept
    <2>5. /\ msgs' \in [Event -> Seq(Msg)] /\ \A f \in Event : Len(msgs'[f]) <= Cap(f)
          /\ unscheduled' \in BOOLEAN
      BY <1>1, <2>1, MsgFacts DEF MsgTypes
    <2> QED BY <1>2, <1>3, <2>1, <2>2, <2>3, <2>4, <2>5, RegionKeeps DEF Label
  <1> QED BY <1>4, <1>5

\* With OS_DEL_ALWAYS all the tasks that wait are readied first, with the message 0.
LEMMA MsgDelAlwaysKeeps ==
  ASSUME MsgInv, NEW e \in Event, NEW type \in {"Q", "MBOX"}, DelAlways(type, e) PROVE MsgInv'
  <1>1. /\ InTask("delalways") /\ OSEventType[e] = type /\ OSIntNesting = 0
        /\ Ready(e, OSEventTbl[e], NoMsg) /\ Delete(e) /\ FreeEvent(e)
        /\ UNCHANGED <<OSLockNesting, tblVars, cpuVars, got, unscheduled>>
    BY DEF DelAlways, InTask, Delete
  <1>2. PICK l \in {"app", "sched"} : Return(l) /\ (l = "sched" \/ OSEventTbl[e] = {})
    BY DEF DelAlways
  <1>3. PlaceTypes /\ Moves({"delalways"}, l) /\ OSTCBCur \in Tcb
    BY <1>1, <1>2, MsgFacts, ReturnMoves DEF InTask, Points
  <1>4. FreeListSound' /\ \A t \in Tcb : Making(t)' => loc'[t].ev # e
    <2>1. DOMAIN OSEventType = Event /\ OSEventPtr \in [Event -> Event \cup {NullEvent}]
      BY MsgFacts DEF MsgTypes
    <2> QED BY <1>1, <1>2, <1>3, <2>1, MsgFacts, DeleteFrees DEF Label
  <1>5. Makers' = Makers
    BY <1>1, <1>3, MsgFacts DEF Makers, Moves
  <1>6. /\ \A f \in Event \ {e} : OSEventType'[f] = OSEventType[f] /\ msgs'[f] = msgs[f]
        /\ msgs'[e] = <<>>
    BY <1>1, <1>5, DeleteCounts
  <1>7. OSEventTbl'[e] = {} /\ \A f \in Event \ {e} : OSEventTbl'[f] = OSEventTbl[f]
    BY <1>1, MsgFacts DEF Ready, OS_EventTaskRdy, EventTaskRdy, CoreInv, KernelTypeOK
  <1>8. EventInv' /\ (RunsHighest => RunsHighest')
    <2>1. Moves(Points \ {"pendwake"}, l)
      BY <1>3 DEF Moves, Points
    <2>2. OS_EventTaskRdy(e, OSEventTbl[e], OSEventType[e])
      BY <1>1 DEF Ready
    <2> QED BY <1>1, <1>2, <1>3, <1>4, <1>6, <1>7, <2>1, <2>2, MsgFacts, ServeKeeps
  <1>9. NoMessageWhileWaiting'
    BY <1>6, <1>7, MsgFacts DEF NoMessageWhileWaiting
  <1>10. OSTCBMsg' \in [Tcb -> Msg \cup {NoMsg}] /\ got' \in [Tcb -> Got]
    BY <1>1, MsgFacts DEF MsgTypes, Ready
  <1> QED BY <1>1, <1>4, <1>5, <1>8, <1>9, <1>10, DeleteCounts, BlockKeeps

---------------------------------------------------------------------------
\* Every step, and doing nothing.
LEMMA MsgStutterKeeps == ASSUME MsgInv, UNCHANGED vars PROVE MsgInv'
  <1>1. UNCHANGED coreVars /\ UNCHANGED msgVars
    BY DEF vars
  <1>2. UNCHANGED <<at, OSEventTbl, ecbVars, msgs, OSQFree, OSTCBMsg, got, unscheduled>>
    BY <1>1 DEF coreVars, msgVars
  <1>3. EventInv' /\ PlacesKept /\ (RunsHighest => RunsHighest')
    BY <1>1, <1>2, MsgFacts, EventStutters DEF ecbVars
  <1>4. FreeListSound'
    BY <1>2, <1>3, MsgFacts, KernelKeepsList
  <1>5. Makers' = Makers /\ Queues' = Queues
    BY <1>2 DEF Makers, Queues, ecbVars
  <1>6. NoMessageWhileWaiting'
    BY <1>2, MsgFacts DEF NoMessageWhileWaiting
  <1>7. MsgTypes'
    BY <1>2, MsgFacts DEF MsgTypes, Cap, ecbVars
  <1>8. OSQFree' \in Int /\ OSQFree' >= 0 /\ Cardinality(Queues') \in Nat /\ Cardinality(Makers') \in Nat
    BY <1>2, <1>5, Counted
  <1> QED BY <1>2, <1>3, <1>4, <1>5, <1>6, <1>7, <1>8, BlockKeeps DEF MsgTypes

LEMMA MsgStepKeeps == ASSUME MsgInv, MsgSafeUse, [Next]_vars PROVE MsgInv'
  <1>1. ASSUME NEW s, NEW type, NEW e \in Event, NEW n \in Ticks, PendCheck(s, type, e, n) PROVE MsgInv'
    BY <1>1, MsgCheckKeeps DEF PendCheck
  <1>2. ASSUME NEW s, NEW type, NEW e \in Event,
               NEW l \in {"post", "accept", "flush", "del", "delalways"}, Enter(s, type, e, l)
        PROVE  MsgInv'
    <2>1. 0 \in Ticks
      BY CoreAssumption DEF Ticks
    <2> QED BY <1>2, <2>1, MsgCheckKeeps DEF Enter, Forget
  <1>3. CASE QStep
    BY <1>1, <1>2, <1>3, ReceiveKeeps, WaitForKeeps, MsgCreateKeeps, TakeQKeeps, MsgInitialiseKeeps,
       PostKeeps, DropKeeps, MsgDelNoPendKeeps, MsgDelAlwaysKeeps
       DEF QStep, OSQPend_Receive, OSQPend_Wait, OSQDel_NoPend, OSQDel_Always
  <1>4. CASE MboxStep
    BY <1>1, <1>2, <1>4, ReceiveKeeps, WaitForKeeps, MsgCreateKeeps, MsgInitialiseKeeps,
       PostKeeps, DropKeeps, MsgDelNoPendKeeps, MsgDelAlwaysKeeps
       DEF MboxStep, OSMboxPend_Receive, OSMboxPend_Wait, OSMboxDel_NoPend, OSMboxDel_Always
  <1> QED BY <1>3, <1>4, PendEndsKeeps, MsgKernelKeeps, MsgStutterKeeps DEF Next

\* Queues and mailboxes, their wait lists and both pools of blocks stay as they should,
\* whatever tasks and handlers do with them and in whatever order.
THEOREM MsgCorrect == ASSUME MsgSafeUse PROVE Spec => []MsgInv
  <1>1. MsgInit => MsgInv
    BY MsgInitHolds DEF MsgSafeUse
  <1>2. MsgInv /\ [Next]_vars => MsgInv'
    BY MsgStepKeeps
  <1> QED BY <1>1, <1>2, PTL DEF Spec

\* The variables keep their types, and no queue or mailbox holds more than it has room for.
THEOREM MsgTypesHold == ASSUME MsgSafeUse PROVE Spec => []MsgTypeOK
  <1>1. MsgInv => MsgTypeOK
    BY DEF MsgInv
  <1> QED BY <1>1, MsgCorrect, PTL

\* No message is left in a block while a task waits for one: the posts serve the tasks
\* first, and a pend looks for a message and begins to wait in one region.
THEOREM NoMessageLeft == ASSUME MsgSafeUse PROVE Spec => []NoMessageWhileWaiting
  <1>1. MsgInv => NoMessageWhileWaiting
    BY DEF MsgInv
  <1> QED BY <1>1, MsgCorrect, PTL

\* The running task is outranked only as long as a post with OS_POST_OPT_NO_SCHED lasts.
THEOREM OutrankedByChoice == ASSUME MsgSafeUse PROVE Spec => []OutrankedOnlyByChoice
  <1>1. MsgInv => OutrankedOnlyByChoice
    BY DEF MsgInv
  <1> QED BY <1>1, MsgCorrect, PTL

\* Neither OSEventFreeList nor OSQFreeList loses a block or has one twice, where no task
\* is deleted in the middle of a create service.
THEOREM PoolsStayExact == ASSUME MsgSafeUse, "OSTaskDel" \notin TaskCalls PROVE Spec => []PoolsExact
  <1>1. MsgInv => PoolsExact
    BY DEF MsgInv, PoolsExact, QBlocksCounted, FreeListSound, FreeListExact
  <1> QED BY <1>1, MsgCorrect, PTL

(***************************************************************************)
(* Every queue and every mailbox of an application whose tasks are made    *)
(* before OSStart implements PrioQueue.  There is one lemma for each kind  *)
(* of step, saying which step of the abstract queue it is.                 *)
(***************************************************************************)
---------------------------------------------------------------------------
\* What RefInv says of tasks and blocks.
LEMMA RefFacts ==
  ASSUME MsgInv, OwnPrio, RefSafeUse
  PROVE  /\ EventInv /\ CoreInv /\ MsgTypes /\ NoMessageWhileWaiting
         /\ block \in Event /\ block # NullEvent /\ User \subseteq Tcb /\ Idle \notin User
         /\ OSTCBCur \in Tcb /\ at \in [Tcb -> Label] /\ at[Idle] = "app"
         /\ DOMAIN OSTCBEventPtr = Tcb /\ OSTCBPrio \in [Tcb -> Prio]
         /\ \A t \in Tcb : ~Creating(t) /\ at[t] # "delwin" /\ ~Deleting(t)
         /\ \A t \in User : t \in OSTCBList /\ OSTCBPrioTbl[InitPrio[t]] = t
  <1>1. EventInv /\ CoreInv /\ MsgTypes /\ NoMessageWhileWaiting
    BY MsgFacts
  <1>2. block \in Event /\ block # NullEvent /\ User \subseteq Tcb /\ Idle \notin User
    BY CoreAssumption DEF RefSafeUse, User, Tcb
  <1>3. /\ OSTCBCur \in Tcb /\ at \in [Tcb -> Label] /\ at[Idle] = "app"
        /\ DOMAIN OSTCBEventPtr = Tcb /\ OSTCBPrio \in [Tcb -> Prio]
    BY <1>1 DEF CoreInv, KernelTypeOK, IdleStays
  <1>4. \A t \in Tcb : ~Creating(t) /\ at[t] # "delwin"
    BY <1>1 DEF OwnPrio, CoreInv, DeletionHolds, RefSafeUse
  <1>5. \A t \in User : t \in OSTCBList /\ OSTCBPrioTbl[InitPrio[t]] = t
    BY <1>1 DEF OwnPrio, CoreInv, TablesAgree
  <1> QED BY <1>1, <1>2, <1>3, <1>4, <1>5 DEF Deleting

\* Whoever is in a wait list is a task inside its pend that has got no message.
LEMMA WaiterKnown ==
  ASSUME RefInv, RefSafeUse, NEW e \in Event, NEW p \in OSEventTbl[e]
  PROVE  LET t == OSTCBPrioTbl[p]
         IN  /\ t \in User /\ InitPrio[t] = p /\ OSTCBEventPtr[t] = e /\ Pending(t)
             /\ got[t].ev = e /\ got[t].val = "none" /\ OSTCBMsg[t] = NoMsg
  <1> PICK t : t = OSTCBPrioTbl[p]
    OBVIOUS
  <1>1. /\ p \in Prio /\ t \in OSTCBList /\ t \in Tcb /\ OSTCBPrio[t] = p /\ OSTCBEventPtr[t] = e
        /\ ~Deleting(t) /\ e # NullEvent
    BY RefFacts, WaiterAt, CoreAssumption DEF RefInv
  <1>2. Pending(t) /\ loc[t].ev = e
    BY <1>1, RefFacts, PenderAt DEF RefInv
  <1>3. t \in User
    BY <1>1, <1>2, RefFacts DEF RefInv, OwnPrio, Pending
  <1> QED BY <1>1, <1>2, <1>3 DEF RefInv, OwnPrio, GotExact

\* Who waits, abstractly, is who has OSTCBEventPtr at the block.
Shown(t) == IF OSTCBEventPtr[t] = block THEN "waiting"
            ELSE IF got[t].ev # block THEN "idle"
            ELSE IF OSTCBMsg[t] # NoMsg THEN OSTCBMsg[t]
            ELSE IF got[t].val \in Msg THEN got[t].val
            ELSE IF got[t].val = "timeout" THEN "timedout" ELSE "idle"
StatesTell == \A t \in User : State(t) = Shown(t)
LEMMA StatesByPtr == ASSUME RefSafeUse PROVE MsgInv /\ OwnPrio => StatesTell
  <1> SUFFICES ASSUME MsgInv, OwnPrio, NEW t \in User PROVE State(t) = Shown(t)
    BY DEF StatesTell
  <1>1. OSTCBPrio[t] \in OSEventTbl[block] <=> OSTCBEventPtr[t] = block
    <2>1. t \in OSTCBList /\ t \in Tcb /\ OSTCBPrio[t] \in Prio /\ OSTCBPrioTbl[OSTCBPrio[t]] = t /\ EventInv
      BY RefFacts DEF CoreInv, TablesAgree
    <2>2. \A u \in OSTCBList : OSTCBPrio[u] = OSTCBPrio[t] => u = t
      BY <2>1, RefFacts DEF CoreInv, TablesAgree
    <2> QED BY <2>1, <2>2, RefFacts, WaitersAre
  <1> QED BY <1>1 DEF State, Shown

LEMMA StatesByPtrNext == ASSUME RefSafeUse PROVE MsgInv' /\ OwnPrio' => StatesTell'
  <1>1. MsgInv /\ OwnPrio => StatesTell
    BY StatesByPtr
  <1> QED BY <1>1, PTL DEF RefSafeUse, MsgSafeUse, SafeUse, Inherits

---------------------------------------------------------------------------
\* What a step means to the abstract queue: one of its steps, or none.
AbsStep == Abstract!Next \/ UNCHANGED <<msgs[block], States, Room>>

LEMMA Becomes ==
  ASSUME StatesTell, StatesTell', NEW T, NEW s,
         \A t \in User : Shown(t)' = IF t \in T THEN s ELSE Shown(t)
  PROVE  Abstract!Become(T, s)
  <1>1. \A t \in User : State(t)' = IF t \in T THEN s ELSE State(t)
    BY DEF StatesTell, User
  <1> QED BY <1>1 DEF Abstract!Become, States, User

LEMMA NothingShown ==
  ASSUME StatesTell, StatesTell', \A t \in User : Shown(t)' = Shown(t) PROVE UNCHANGED States
  <1>1. \A t \in User : State(t)' = State(t)
    BY DEF StatesTell, User
  <1> QED BY <1>1 DEF States, User

LEMMA ShownSame ==
  ASSUME StatesTell, StatesTell', UNCHANGED <<OSTCBEventPtr, OSTCBMsg, got>> PROVE UNCHANGED States
  <1>1. \A t \in User : Shown(t)' = Shown(t)
    BY DEF Shown
  <1> QED BY <1>1, NothingShown

\* Who waits, abstractly: the tasks with OSTCBEventPtr at the block, which are those with
\* their priorities in its wait list.
LEMMA WaitingIs ==
  ASSUME RefInv, RefSafeUse, StatesTell
  PROVE  /\ Abstract!Waiting = {t \in User : OSTCBEventPtr[t] = block}
         /\ Abstract!Waiting = {t \in User : InitPrio[t] \in OSEventTbl[block]}
  <1>1. \A t \in User : t \in Tcb /\ OSTCBMsg[t] \in Msg \cup {NoMsg}
    BY RefFacts DEF RefInv, MsgTypes
  <1>2. \A t \in User : State(t) = "waiting" <=> OSTCBEventPtr[t] = block
    BY <1>1 DEF StatesTell, Shown, RefSafeUse
  <1>3. \A t \in User : State(t) = "waiting" <=> InitPrio[t] \in OSEventTbl[block]
    BY <1>1 DEF State, RefInv, OwnPrio, RefSafeUse
  <1> QED BY <1>2, <1>3 DEF Abstract!Waiting, States, User

LEMMA RoomSame == ASSUME OSEventType'[block] = OSEventType[block] PROVE UNCHANGED Room
  BY DEF Room, Cap

\* A task about to take a region of a service, other than one that has got its message.
LEMMA RunnerUnsent ==
  ASSUME RefInv, RefSafeUse, OSIntNesting = 0, OSTCBCur # Idle,
         at[OSTCBCur] \in Points \ {"pendwake"} \/ (at[OSTCBCur] = "pendwake" /\ OSTCBPendTO[OSTCBCur])
  PROVE  /\ OSTCBMsg[OSTCBCur] = NoMsg /\ OSTCBCur \in User
         /\ at[OSTCBCur] # "pendwake" => OSTCBEventPtr[OSTCBCur] = NullEvent
         /\ at[OSTCBCur] = "pendwake" =>
              OSTCBEventPtr[OSTCBCur] = loc[OSTCBCur].ev /\ OSTCBEventPtr[OSTCBCur] \in Event
  <1>1. EventInv /\ OSTCBCur \in Tcb /\ NullEvent \notin Event
    BY RefFacts, CoreAssumption DEF RefInv
  <1>2. OSTCBCur \in OSTCBList /\ ~Deleting(OSTCBCur)
    BY <1>1, RunnerAt DEF Points
  <1>3. OSTCBCur \in User
    BY <1>2 DEF RefInv, OwnPrio
  <1>4. at[OSTCBCur] # "pendwake" => OSTCBEventPtr[OSTCBCur] = NullEvent
    BY <1>1, RunnerAt DEF Points
  <1>5. at[OSTCBCur] = "pendwake" =>
          OSTCBEventPtr[OSTCBCur] = loc[OSTCBCur].ev /\ OSTCBEventPtr[OSTCBCur] \in Event
    BY <1>1, <1>2, PenderAt
  <1>6. OSTCBMsg[OSTCBCur] = NoMsg
    BY <1>1, <1>5 DEF RefInv, GotExact, Pending, Points
  <1> QED BY <1>3, <1>4, <1>5, <1>6

\* A region changes what its own task has got, and no more.
LEMMA RunnerGot ==
  ASSUME RefInv, RefSafeUse, NEW P, NEW l, Moves(P, l),
         \A t \in Tcb : \/ OSIntNesting = 0 /\ t = OSTCBCur
                        \/ /\ got'[t] = got[t] /\ OSTCBMsg'[t] = OSTCBMsg[t]
                           /\ OSTCBEventPtr'[t] = OSTCBEventPtr[t],
         OSIntNesting = 0 => OSTCBMsg'[OSTCBCur] = NoMsg,
         OSIntNesting = 0 /\ l \in {"pend", "pendwait", "pendwake"} =>
           got'[OSTCBCur].ev = loc'[OSTCBCur].ev /\ got'[OSTCBCur].val = "none"
  PROVE  GotExact'
  <1> SUFFICES ASSUME NEW t \in Tcb
               PROVE  /\ at'[t] = "pend" \/ Pending(t)' => got'[t].ev = loc'[t].ev /\ got'[t].val = "none"
                      /\ ~Pending(t)' \/ OSTCBEventPtr'[t] # NullEvent => OSTCBMsg'[t] = NoMsg
    BY DEF GotExact
  <1>1. CASE OSIntNesting = 0 /\ t = OSTCBCur
    BY <1>1 DEF Moves, Pending
  <1>2. CASE ~(OSIntNesting = 0 /\ t = OSTCBCur)
    <2>1. at'[t] = at[t] /\ loc'[t] = loc[t]
      BY <1>2 DEF Moves
    <2> QED BY <1>2, <2>1 DEF RefInv, GotExact, Pending
  <1> QED BY <1>1, <1>2

---------------------------------------------------------------------------
\* A call begins: the task forgets what its last pend told it.
LEMMA AskMaps ==
  ASSUME RefInv, RefSafeUse, StatesTell, StatesTell', OSIntNesting = 0,
         NEW l \in Label \ {"pendwait", "pendwake"}, Moves({"app"}, l),
         NEW f \in Event \cup {NullEvent}, got' = [got EXCEPT ![OSTCBCur] = [ev |-> f, val |-> "none"]],
         l = "pend" => loc'[OSTCBCur].ev = f,
         UNCHANGED <<OSTCBEventPtr, OSTCBMsg, msgs, OSEventType>>
  PROVE  GotExact' /\ AbsStep
  <1> PICK me : me = OSTCBCur
    OBVIOUS
  <1>1. me # Idle /\ at[me] = "app"
    BY DEF Moves
  <1>2. me \in User /\ me \in Tcb /\ OSTCBMsg[me] = NoMsg /\ OSTCBEventPtr[me] = NullEvent
    BY <1>1, RunnerUnsent, RefFacts DEF RefInv, Points
  <1>3. /\ got'[me] = [ev |-> f, val |-> "none"] /\ \A t \in Tcb \ {me} : got'[t] = got[t]
        /\ User \subseteq Tcb /\ block # NullEvent
    BY <1>2, RefFacts DEF RefInv, MsgTypes
  <1>4. GotExact'
    BY <1>2, <1>3, RunnerGot
  <1>5. Abstract!Become({me}, "idle")
    <2>1. \A t \in User : Shown(t)' = IF t \in {me} THEN "idle" ELSE Shown(t)
      BY <1>2, <1>3 DEF Shown, RefSafeUse
    <2> QED BY <2>1, Becomes
  <1>6. me \notin Abstract!Waiting
    BY <1>2, <1>3, WaitingIs
  <1>7. Abstract!Ask(me)
    BY <1>5, <1>6, RoomSame DEF Abstract!Ask
  <1> QED BY <1>2, <1>4, <1>7 DEF AbsStep, Abstract!Next, User

\* What a task that is inside its pend has got.
LEMMA PenderGot ==
  ASSUME RefInv, RefSafeUse, OSIntNesting = 0, at[OSTCBCur] \in {"pend", "pendwake"}
  PROVE  /\ OSTCBCur \in User /\ OSTCBCur \in Tcb /\ OSTCBCur # Idle /\ User \subseteq Tcb
         /\ loc[OSTCBCur].ev \in Event /\ NullEvent \notin Event /\ got \in [Tcb -> Got]
         /\ got[OSTCBCur].ev = loc[OSTCBCur].ev /\ got[OSTCBCur].val = "none"
         /\ OSTCBStat[OSTCBCur] = {}
  <1>1. EventInv /\ got \in [Tcb -> Got] /\ NullEvent \notin Event /\ User \subseteq Tcb
    BY RefFacts, CoreAssumption DEF RefInv, MsgTypes
  <1>2. /\ OSTCBCur \in Tcb /\ OSTCBCur \in OSTCBList /\ OSTCBCur # Idle
        /\ loc[OSTCBCur].ev \in Event /\ OSTCBStat[OSTCBCur] = {}
    BY <1>1, RunnerAt DEF Points
  <1>3. OSTCBCur \in User
    BY <1>2 DEF RefInv, OwnPrio
  <1> QED BY <1>1, <1>2, <1>3 DEF RefInv, GotExact, Pending

\* A pend takes a message.
LEMMA ReceiveMaps ==
  ASSUME RefInv, RefSafeUse, StatesTell, StatesTell', NEW type, Receive(type)
  PROVE  GotExact' /\ AbsStep
  <1> PICK me : me = OSTCBCur
    OBVIOUS
  <1> PICK e : e = loc[me].ev
    OBVIOUS
  <1>1. /\ OSIntNesting = 0 /\ at[me] = "pend" /\ msgs[e] # <<>>
        /\ msgs' = [msgs EXCEPT ![e] = Tail(@)] /\ got' = [got EXCEPT ![me].val = Head(msgs[e])]
        /\ Return("app") /\ UNCHANGED <<OSTCBEventPtr, OSTCBMsg, OSEventType>>
    BY DEF Receive, InTask, tcbVars, ecbVars
  <1>2. /\ me \in User /\ me \in Tcb /\ me # Idle /\ User \subseteq Tcb /\ e \in Event /\ NullEvent \notin Event
        /\ got[me].ev = e /\ got \in [Tcb -> Got]
    BY <1>1, PenderGot
  <1>3. OSTCBMsg[me] = NoMsg /\ OSTCBEventPtr[me] = NullEvent
    BY <1>1, <1>2, RunnerUnsent DEF Points
  <1>4. Moves({"pend"}, "app")
    BY <1>1, ReturnMoves, RefFacts DEF RefInv, Points
  <1>5. /\ got'[me].ev = e /\ got'[me].val = Head(msgs[e])
        /\ \A t \in Tcb \ {me} : got'[t] = got[t]
    BY <1>1, <1>2 DEF Got
  <1>6. GotExact'
    BY <1>1, <1>3, <1>4, <1>5, RunnerGot
  <1>7. msgs \in [Event -> Seq(Msg)] /\ block \in Event
    BY RefFacts DEF RefInv, MsgTypes
  <1>8. CASE e = block
    <2>1. Head(msgs[block]) \in Msg
      BY <1>1, <1>7, <1>8, HeadTailProperties
    <2>2. \A t \in User : Shown(t)' = IF t \in {me} THEN Head(msgs[block]) ELSE Shown(t)
      BY <1>1, <1>2, <1>3, <1>5, <1>8, <2>1 DEF Shown
    <2>3. Abstract!Become({me}, Head(msgs[block]))
      BY <2>2, Becomes
    <2>4. me \notin Abstract!Waiting
      BY <1>2, <1>3, <1>7, WaitingIs
    <2>5. msgs'[block] = Tail(msgs[block]) /\ msgs[block] # <<>> /\ UNCHANGED Room
      BY <1>1, <1>7, <1>8, RoomSame
    <2>6. Abstract!Receive(me)
      BY <2>3, <2>4, <2>5 DEF Abstract!Receive
    <2> QED BY <1>2, <1>6, <2>6 DEF AbsStep, Abstract!Next, User
  <1>9. CASE e # block
    <2>1. \A t \in User : Shown(t)' = Shown(t)
      BY <1>1, <1>2, <1>3, <1>5, <1>9 DEF Shown
    <2>2. msgs'[block] = msgs[block]
      BY <1>1, <1>7, <1>9
    <2> QED BY <1>1, <1>6, <2>1, <2>2, NothingShown, RoomSame DEF AbsStep
  <1> QED BY <1>8, <1>9

\* A pend finds none and waits.
LEMMA WaitForMaps ==
  ASSUME RefInv, RefSafeUse, StatesTell, StatesTell', NEW type, WaitFor(type)
  PROVE  GotExact' /\ AbsStep
  <1> PICK me : me = OSTCBCur
    OBVIOUS
  <1> PICK e : e = loc[me].ev
    OBVIOUS
  <1>1. /\ OSIntNesting = 0 /\ at[me] = "pend" /\ msgs[e] = <<>>
        /\ OSTCBEventPtr' = [OSTCBEventPtr EXCEPT ![me] = e] /\ Goto("pendwait")
        /\ UNCHANGED <<loc, OSTCBMsg, OSEventType, msgs, got>>
    BY DEF WaitFor, PendWait, OS_EventTaskWait, InTask, msgVars, ecbVars
  <1>2. /\ me \in User /\ me \in Tcb /\ me # Idle /\ User \subseteq Tcb /\ e \in Event /\ NullEvent \notin Event
        /\ got[me].ev = e /\ got[me].val = "none" /\ DOMAIN OSTCBEventPtr = Tcb /\ at \in [Tcb -> Label]
    BY <1>1, PenderGot, RefFacts DEF RefInv
  <1>3. OSTCBMsg[me] = NoMsg /\ OSTCBEventPtr[me] = NullEvent
    BY <1>1, <1>2, RunnerUnsent DEF Points
  <1>4. Moves({"pend"}, "pendwait")
    BY <1>1, <1>2 DEF Moves, Goto
  <1>5. OSTCBEventPtr'[me] = e /\ \A t \in Tcb \ {me} : OSTCBEventPtr'[t] = OSTCBEventPtr[t]
    BY <1>1, <1>2
  <1>6. GotExact'
    BY <1>1, <1>2, <1>3, <1>4, <1>5, RunnerGot
  <1>7. CASE e = block
    <2>1. \A t \in User : Shown(t)' = IF t \in {me} THEN "waiting" ELSE Shown(t)
      BY <1>1, <1>2, <1>5, <1>7 DEF Shown
    <2>2. Abstract!Become({me}, "waiting")
      BY <2>1, Becomes
    <2>3. me \notin Abstract!Waiting
      BY <1>2, <1>3, <1>7, WaitingIs
    <2>4. Abstract!Wait(me)
      BY <1>1, <1>7, <2>2, <2>3, RoomSame DEF Abstract!Wait
    <2> QED BY <1>2, <1>6, <2>4 DEF AbsStep, Abstract!Next, User
  <1>8. CASE e # block
    <2>1. \A t \in User : Shown(t)' = Shown(t)
      BY <1>1, <1>2, <1>3, <1>5, <1>8, RefFacts DEF Shown, RefInv
    <2> QED BY <1>1, <1>6, <2>1, NothingShown, RoomSame DEF AbsStep
  <1> QED BY <1>7, <1>8

\* OS_EventTO: the wait ends without a message.
LEMMA PendTimeoutMaps ==
  ASSUME RefInv, RefSafeUse, StatesTell, StatesTell', Pend_Timeout
  PROVE  GotExact' /\ AbsStep
  <1> PICK me : me = OSTCBCur
    OBVIOUS
  <1> PICK e : e = loc[me].ev
    OBVIOUS
  <1>1. /\ OSIntNesting = 0 /\ at[me] = "pendwake" /\ OSTCBPendTO[me]
        /\ OSTCBEventPtr' = [OSTCBEventPtr EXCEPT ![me] = NullEvent] /\ Return("app")
        /\ got' = [got EXCEPT ![me].val = "timeout"] /\ UNCHANGED <<OSTCBMsg, OSEventType, msgs>>
    BY DEF Pend_Timeout, OS_EventTO, InTask, ecbVars
  <1>2. /\ me \in User /\ me \in Tcb /\ me # Idle /\ User \subseteq Tcb /\ e \in Event /\ NullEvent \notin Event
        /\ got[me].ev = e /\ got \in [Tcb -> Got] /\ DOMAIN OSTCBEventPtr = Tcb
    BY <1>1, PenderGot, RefFacts DEF RefInv
  <1>3. OSTCBMsg[me] = NoMsg /\ OSTCBEventPtr[me] = e
    BY <1>1, <1>2, RunnerUnsent
  <1>4. Moves({"pendwake"}, "app")
    BY <1>1, ReturnMoves, RefFacts DEF RefInv, Points
  <1>5. /\ OSTCBEventPtr'[me] = NullEvent /\ got'[me].ev = e /\ got'[me].val = "timeout"
        /\ \A t \in Tcb \ {me} : OSTCBEventPtr'[t] = OSTCBEventPtr[t] /\ got'[t] = got[t]
    BY <1>1, <1>2 DEF Got
  <1>6. GotExact'
    BY <1>1, <1>3, <1>4, <1>5, RunnerGot
  <1>7. CASE e = block
    <2>1. \A t \in User : Shown(t)' = IF t \in {me} THEN "timedout" ELSE Shown(t)
      BY <1>1, <1>2, <1>3, <1>5, <1>7 DEF Shown, RefSafeUse
    <2>2. Abstract!Become({me}, "timedout")
      BY <2>1, Becomes
    <2>3. me \in Abstract!Waiting
      BY <1>2, <1>3, <1>7, WaitingIs
    <2>4. Abstract!TimeOut(me)
      BY <1>1, <2>2, <2>3, RoomSame DEF Abstract!TimeOut
    <2> QED BY <1>2, <1>6, <2>4 DEF AbsStep, Abstract!Next, User
  <1>8. CASE e # block
    <2>1. \A t \in User : Shown(t)' = Shown(t)
      BY <1>1, <1>2, <1>3, <1>5, <1>8, RefFacts DEF Shown, RefInv
    <2> QED BY <1>1, <1>6, <2>1, NothingShown, RoomSame DEF AbsStep
  <1> QED BY <1>7, <1>8

\* A task returns with the message that a post left it: it has had that since the post.
LEMMA PendDoneMaps ==
  ASSUME RefInv, RefSafeUse, StatesTell, StatesTell', Pend_Done
  PROVE  GotExact' /\ AbsStep
  <1> PICK me : me = OSTCBCur
    OBVIOUS
  <1> PICK e : e = loc[me].ev
    OBVIOUS
  <1>1. /\ OSIntNesting = 0 /\ at[me] = "pendwake" /\ ~OSTCBPendTO[me]
        /\ OSTCBEventPtr' = [OSTCBEventPtr EXCEPT ![me] = NullEvent] /\ Return("app")
        /\ got' = [got EXCEPT ![me].val = OSTCBMsg[me]]
        /\ OSTCBMsg' = [OSTCBMsg EXCEPT ![me] = NoMsg] /\ UNCHANGED <<OSEventType, msgs>>
    BY DEF Pend_Done, InTask, ecbVars
  <1>2. /\ me \in User /\ me \in Tcb /\ me # Idle /\ User \subseteq Tcb /\ e \in Event /\ NullEvent \notin Event
        /\ got[me].ev = e /\ got[me].val = "none" /\ got \in [Tcb -> Got] /\ OSTCBStat[me] = {}
        /\ DOMAIN OSTCBEventPtr = Tcb /\ OSTCBMsg \in [Tcb -> Msg \cup {NoMsg}] /\ EventInv
    BY <1>1, PenderGot, RefFacts DEF RefInv, MsgTypes
  <1>3. OSTCBEventPtr[me] = NullEvent
    <2>1. me \in OSTCBList /\ ~Deleting(me)
      BY <1>1, <1>2, RunnerAt DEF Points
    <2> QED BY <1>1, <1>2, <2>1, PenderAt
  <1>4. Moves({"pendwake"}, "app")
    BY <1>1, ReturnMoves, RefFacts DEF RefInv, Points
  <1>5. /\ OSTCBEventPtr'[me] = NullEvent /\ got'[me].ev = e /\ got'[me].val = OSTCBMsg[me]
        /\ OSTCBMsg'[me] = NoMsg
        /\ \A t \in Tcb \ {me} : /\ OSTCBEventPtr'[t] = OSTCBEventPtr[t] /\ got'[t] = got[t]
                                 /\ OSTCBMsg'[t] = OSTCBMsg[t]
    BY <1>1, <1>2 DEF Got
  <1>6. GotExact'
    BY <1>1, <1>4, <1>5, RunnerGot
  <1>7. \A t \in User \ {me} : Shown(t)' = Shown(t)
    BY <1>2, <1>5 DEF Shown
  <1>8. Shown(me)' = Shown(me)
    <2>1. OSTCBMsg[me] \in Msg \cup {NoMsg} /\ NoMsg \notin Msg /\ "none" \notin Msg /\ NoMsg # "timeout"
      BY <1>2, MsgAssumption DEF RefSafeUse
    <2> QED BY <1>2, <1>3, <1>5, <2>1 DEF Shown
  <1> QED BY <1>1, <1>6, <1>7, <1>8, NothingShown, RoomSame DEF AbsStep

---------------------------------------------------------------------------
\* Tasks that wait for e are readied with a message, or with the message 0.
LEMMA ReadyMaps ==
  ASSUME RefInv, RefSafeUse, StatesTell, StatesTell', NEW e \in Event, NEW P \in SUBSET OSEventTbl[e],
         NEW m \in Msg \cup {NoMsg}, Ready(e, P, m), UNCHANGED got,
         NEW l \in {"app", "sched"}, NEW Q \in SUBSET {"post", "delalways"}, Moves(Q, l)
  PROVE  /\ GotExact'
         /\ LET woken == {OSTCBPrioTbl[p] : p \in P}
            IN  IF e = block
                THEN Abstract!Become(woken, IF m = NoMsg THEN "idle" ELSE m) /\ woken \subseteq Abstract!Waiting
                ELSE UNCHANGED States
  <1> PICK W : W = {OSTCBPrioTbl[p] : p \in P}
    OBVIOUS
  <1>1. /\ User \subseteq Tcb /\ block \in Event /\ NullEvent \notin Event
        /\ m \notin {"idle", "waiting", "timedout", "none", "timeout"} /\ (m # NoMsg => m \in Msg)
    BY RefFacts, CoreAssumption DEF RefInv, RefSafeUse
  <1>2. \A t \in W : /\ t \in User /\ t \in Tcb /\ OSTCBEventPtr[t] = e /\ Pending(t)
                     /\ got[t].ev = e /\ got[t].val = "none"
    BY <1>1, WaiterKnown
  <1>3. \A t \in Tcb : /\ OSTCBEventPtr'[t] = IF t \in W THEN NullEvent ELSE OSTCBEventPtr[t]
                       /\ OSTCBMsg'[t] = IF t \in W THEN m ELSE OSTCBMsg[t]
    BY DEF Ready, OS_EventTaskRdy, EventTaskRdy
  <1>4. \A t \in Tcb : \/ at'[t] = at[t] /\ loc'[t] = loc[t]
                       \/ ~Pending(t) /\ at'[t] \in {"app", "sched"}
    BY DEF Moves, Pending
  <1>5. GotExact'
    <2> SUFFICES ASSUME NEW t \in Tcb
                 PROVE  /\ at'[t] = "pend" \/ Pending(t)' => got'[t].ev = loc'[t].ev /\ got'[t].val = "none"
                        /\ ~Pending(t)' \/ OSTCBEventPtr'[t] # NullEvent => OSTCBMsg'[t] = NoMsg
      BY DEF GotExact
    <2>1. CASE t \in W
      BY <1>2, <1>3, <1>4, <2>1 DEF RefInv, GotExact, Pending
    <2>2. CASE t \notin W
      BY <1>3, <1>4, <2>2 DEF RefInv, GotExact, Pending
    <2> QED BY <2>1, <2>2
  <1>6. CASE e = block
    <2> DEFINE s == IF m = NoMsg THEN "idle" ELSE m
    <2>1. ASSUME NEW t \in User PROVE Shown(t)' = IF t \in W THEN s ELSE Shown(t)
      <3>1. CASE t \in W
        <4>1. OSTCBEventPtr'[t] = NullEvent /\ OSTCBMsg'[t] = m /\ got'[t].ev = block /\ got'[t].val = "none"
          BY <1>2, <1>3, <1>6, <3>1
        <4>2. "none" \notin Msg
          BY DEF RefSafeUse
        <4> QED BY <1>1, <3>1, <4>1, <4>2 DEF Shown
      <3>2. CASE t \notin W
        BY <1>1, <1>3, <3>2 DEF Shown
      <3> QED BY <3>1, <3>2
    <2>2. Abstract!Become(W, s)
      BY <2>1, Becomes
    <2>3. W \subseteq Abstract!Waiting
      BY <1>2, <1>6, WaitingIs
    <2> QED BY <1>5, <1>6, <2>2, <2>3
  <1>7. CASE e # block
    <2>1. ASSUME NEW t \in User PROVE Shown(t)' = Shown(t)
      <3>1. CASE t \in W
        BY <1>1, <1>2, <1>3, <1>7, <3>1 DEF Shown
      <3>2. CASE t \notin W
        BY <1>1, <1>3, <3>2 DEF Shown
      <3> QED BY <3>1, <3>2
    <2> QED BY <1>5, <1>7, <2>1, NothingShown
  <1> QED BY <1>6, <1>7

\* A region that readies nobody: its task has got what it had got.
LEMMA StillGot ==
  ASSUME RefInv, RefSafeUse, NEW P \in SUBSET (Points \ {"pendwake"}),
         NEW l \in Label \ {"pend", "pendwait", "pendwake"}, Moves(P, l),
         UNCHANGED <<OSTCBEventPtr, OSTCBMsg, got>>
  PROVE  GotExact'
  <1>1. OSIntNesting = 0 => OSTCBCur # Idle /\ at[OSTCBCur] \in Points \ {"pendwake"}
    BY DEF Moves
  <1>2. OSIntNesting = 0 => OSTCBMsg[OSTCBCur] = NoMsg
    BY <1>1, RunnerUnsent
  <1> QED BY <1>2, RunnerGot

\* A post serves who waits; all the waiting tasks, or the one of the highest priority.
LEMMA ServeMaps ==
  ASSUME RefInv, RefSafeUse, StatesTell, StatesTell', NEW e \in Event, NEW m \in Msg, NEW P,
         P = Highest(e) \/ P = OSEventTbl[e], OSEventTbl[e] # {}, Ready(e, P, m), UNCHANGED <<got, msgs, OSEventType>>,
         NEW l \in {"app", "sched"}, Moves({"post"}, l)
  PROVE  GotExact' /\ AbsStep
  <1> PICK W : W = {OSTCBPrioTbl[p] : p \in P}
    OBVIOUS
  <1>1. P \in SUBSET OSEventTbl[e] /\ m # NoMsg
    BY MsgAssumption DEF Highest
  <1>2. GotExact' /\ IF e = block THEN Abstract!Become(W, m) /\ W \subseteq Abstract!Waiting ELSE UNCHANGED States
    BY <1>1, ReadyMaps
  <1>3. UNCHANGED Room
    BY RoomSame
  <1>4. CASE e # block
    BY <1>2, <1>3, <1>4 DEF AbsStep
  <1>5. CASE e = block
    <2>1. \A p \in OSEventTbl[e] : OSTCBPrioTbl[p] \in User /\ InitPrio[OSTCBPrioTbl[p]] = p
      BY WaiterKnown
    <2>2. \A u \in Abstract!Waiting : u \in User /\ InitPrio[u] \in OSEventTbl[e] /\ OSTCBPrioTbl[InitPrio[u]] = u
      BY <1>5, WaitingIs, RefFacts DEF RefInv
    <2>3. CASE P = OSEventTbl[e]
      <3>1. W = Abstract!Waiting
        BY <1>2, <1>5, <2>2, <2>3
      <3>2. W # {}
        BY <2>3
      <3> QED BY <1>2, <1>3, <1>5, <3>1, <3>2 DEF AbsStep, Abstract!Next, Abstract!Post
    <2>4. CASE P = Highest(e) /\ P # {}
      <3>1. PICK p \in OSEventTbl[e] : HighestIn(p, OSEventTbl[e])
        BY <2>4 DEF Highest
      <3>2. OSEventTbl[e] \subseteq Nat
        BY RefFacts, CoreAssumption DEF RefInv, CoreInv, KernelTypeOK, Prio
      <3>3. P = {p}
        BY <2>4, <3>1, <3>2 DEF Highest, HighestIn
      <3>4. PICK t : t = OSTCBPrioTbl[p]
        OBVIOUS
      <3>5. W = {t}
        BY <3>3, <3>4
      <3>6. t \in Abstract!Waiting /\ \A u \in Abstract!Waiting : InitPrio[t] <= InitPrio[u]
        BY <1>2, <1>5, <2>1, <2>2, <3>1, <3>4, <3>5 DEF HighestIn
      <3> QED BY <1>2, <1>3, <1>5, <3>5, <3>6 DEF AbsStep, Abstract!Next, Abstract!Post
    <2>5. CASE P = {}
      <3>1. Abstract!Become({}, m)
        BY <1>2, <1>5, <2>5
      <3>2. UNCHANGED States
        BY <3>1 DEF Abstract!Become, States, User
      <3> QED BY <1>2, <1>3, <3>2 DEF AbsStep
    <2> QED BY <2>3, <2>4, <2>5
  <1> QED BY <1>4, <1>5

\* A post that nobody waits for puts its message first or last, if there is room.
LEMMA PutMaps ==
  ASSUME RefInv, RefSafeUse, StatesTell, StatesTell', NEW e \in Event, NEW m \in Msg, NEW q,
         OSEventType[e] # "UNUSED", OSEventTbl[e] = {},
         Len(msgs[e]) < Cap(e) => q \in {Append(msgs[e], m), <<m>> \o msgs[e]},
         msgs' = [msgs EXCEPT ![e] = IF Len(@) < Cap(e) THEN q ELSE @],
         UNCHANGED <<OSTCBEventPtr, OSTCBMsg, got, OSEventType>>
  PROVE  AbsStep
  <1>1. msgs \in [Event -> Seq(Msg)] /\ block \in Event
    BY RefFacts DEF RefInv, MsgTypes
  <1>2. UNCHANGED States /\ UNCHANGED Room
    BY ShownSame, RoomSame
  <1>3. CASE e = block /\ Len(msgs[e]) < Cap(e)
    <2>1. msgs'[block] = q /\ Room = Cap(block)
      BY <1>1, <1>3 DEF Room
    <2>2. Abstract!Waiting = {}
      BY <1>3, WaitingIs
    <2>3. Abstract!Put(q)
      BY <1>2, <1>3, <2>1, <2>2 DEF Abstract!Put
    <2>4. Abstract!Post(m)
      BY <1>3, <2>3 DEF Abstract!Post
    <2> QED BY <2>4 DEF AbsStep, Abstract!Next
  <1>4. CASE ~(e = block /\ Len(msgs[e]) < Cap(e))
    <2>1. msgs'[block] = msgs[block]
      BY <1>1, <1>4
    <2> QED BY <1>2, <2>1 DEF AbsStep
  <1> QED BY <1>3, <1>4

LEMMA SendMaps ==
  ASSUME RefInv, RefSafeUse, StatesTell, StatesTell', NEW e \in Event, NEW m \in Msg, NEW P, NEW q,
         NEW l \in {"app", "sched"}, P = Highest(e) \/ P = OSEventTbl[e],
         OSEventType[e] # "UNUSED", OSIntNesting = 0 => at[OSTCBCur] = "post",
         Len(msgs[e]) < Cap(e) => q \in {Append(msgs[e], m), <<m>> \o msgs[e]}, Send(e, m, P, q, l)
  PROVE  GotExact' /\ AbsStep
  <1>1. UNCHANGED <<got, OSEventType>>
    BY DEF Send, ecbVars
  <1>2. CASE OSEventTbl[e] # {}
    <2>1. Ready(e, P, m) /\ Return(l) /\ UNCHANGED msgs
      BY <1>2 DEF Send
    <2>2. Moves({"post"}, l)
      BY <2>1, ReturnMoves, RefFacts DEF RefInv, Points
    <2> QED BY <1>1, <1>2, <2>1, <2>2, ServeMaps
  <1>3. CASE OSEventTbl[e] = {}
    <2>1. /\ msgs' = [msgs EXCEPT ![e] = IF Len(@) < Cap(e) THEN q ELSE @] /\ Return("app")
          /\ UNCHANGED <<OSTCBEventPtr, OSTCBMsg>>
      BY <1>3 DEF Send, tcbVars
    <2>2. Moves({"post"}, "app")
      BY <2>1, ReturnMoves, RefFacts DEF RefInv, Points
    <2>3. GotExact'
      BY <1>1, <2>1, <2>2, StillGot DEF Points, Label
    <2> QED BY <1>1, <1>3, <2>1, <2>3, PutMaps
  <1> QED BY <1>2, <1>3

LEMMA PostMaps ==
  ASSUME RefInv, RefSafeUse, StatesTell, StatesTell', NEW e \in Event, NEW m \in Msg,
         \/ OSQPost(e, m) \/ OSQPostFront(e, m) \/ OSMboxPost(e, m)
         \/ \E opt \in PostOpts : OSQPostOpt(e, m, opt) \/ OSMboxPostOpt(e, m, opt)
  PROVE  GotExact' /\ AbsStep
  <1>1. /\ OSIntNesting = 0 => at[OSTCBCur] = "post"
        /\ OSEventType[e] # "UNUSED"
    BY DEF OSQPost, OSQPostFront, OSMboxPost, OSQPostOpt, OSMboxPostOpt, In, Runs, InTask, IsrCall
  <1>2. \A opt : Receivers(e, opt) = Highest(e) \/ Receivers(e, opt) = OSEventTbl[e]
    BY DEF Receivers
  <1>3. ASSUME OSEventType[e] = "MBOX", Len(msgs[e]) < Cap(e) PROVE <<m>> = <<m>> \o msgs[e]
    <2>1. msgs[e] \in Seq(Msg) /\ <<m>> \in Seq(Msg)
      BY RefFacts DEF RefInv, MsgTypes
    <2>2. Len(msgs[e]) \in Nat /\ Len(msgs[e]) < 1
      BY <1>3, <2>1, LenProperties DEF Cap
    <2>3. msgs[e] = <<>>
      BY <2>1, <2>2, EmptySeq
    <2> QED BY <2>1, <2>3, ConcatEmptySeq
  <1>4. CASE OSQPost(e, m)
    BY <1>1, <1>4, SendMaps DEF OSQPost
  <1>5. CASE OSQPostFront(e, m)
    BY <1>1, <1>5, SendMaps DEF OSQPostFront
  <1>6. CASE OSMboxPost(e, m)
    BY <1>1, <1>3, <1>6, SendMaps DEF OSMboxPost, In
  <1>7. ASSUME NEW opt \in PostOpts, OSQPostOpt(e, m, opt) PROVE GotExact' /\ AbsStep
    <2> PICK q : q = IF "FRONT" \in opt THEN <<m>> \o msgs[e] ELSE Append(msgs[e], m)
      OBVIOUS
    <2> PICK l \in {"app", "sched"} : l = IF "NO_SCHED" \in opt THEN "app" ELSE "sched"
      OBVIOUS
    <2>1. Send(e, m, Receivers(e, opt), q, l) /\ q \in {Append(msgs[e], m), <<m>> \o msgs[e]}
      BY <1>7 DEF OSQPostOpt
    <2> QED BY <1>1, <1>2, <2>1, SendMaps
  <1>8. ASSUME NEW opt \in PostOpts, OSMboxPostOpt(e, m, opt) PROVE GotExact' /\ AbsStep
    <2> PICK l \in {"app", "sched"} : l = IF "NO_SCHED" \in opt THEN "app" ELSE "sched"
      OBVIOUS
    <2>1. Send(e, m, Receivers(e, opt), <<m>>, l) /\ OSEventType[e] = "MBOX"
      BY <1>8 DEF OSMboxPostOpt, In
    <2> QED BY <1>1, <1>2, <1>3, <2>1, SendMaps
  <1> QED BY <1>4, <1>5, <1>6, <1>7, <1>8

\* Messages leave a block without a pend.
LEMMA DropMaps ==
  ASSUME RefInv, RefSafeUse, StatesTell, StatesTell', NEW e \in Event,
         OSQAccept(e) \/ OSMboxAccept(e) \/ OSQFlush(e)
  PROVE  GotExact' /\ AbsStep
  <1>1. /\ Return("app") /\ UNCHANGED <<OSTCBEventPtr, OSTCBMsg, got, OSEventType>>
        /\ OSIntNesting = 0 => at[OSTCBCur] \in {"accept", "flush"}
    BY DEF OSQAccept, OSMboxAccept, OSQFlush, Drop, In, Runs, InTask, IsrCall, tcbVars, ecbVars
  <1>2. msgs \in [Event -> Seq(Msg)] /\ block \in Event
    BY RefFacts DEF RefInv, MsgTypes
  <1>3. \/ msgs'[block] = msgs[block] \/ msgs'[block] = <<>>
        \/ msgs[block] # <<>> /\ msgs'[block] = Tail(msgs[block])
    BY <1>2 DEF OSQAccept, OSMboxAccept, OSQFlush, Drop
  <1>4. Moves({"accept", "flush"}, "app")
    BY <1>1, ReturnMoves, RefFacts DEF RefInv, Points
  <1>5. GotExact'
    BY <1>1, <1>4, StillGot DEF Points, Label
  <1>6. UNCHANGED States /\ UNCHANGED Room
    BY <1>1, ShownSame, RoomSame
  <1> QED BY <1>3, <1>5, <1>6 DEF AbsStep, Abstract!Next, Abstract!Accept, Abstract!Flush

---------------------------------------------------------------------------
\* OSQCreate's second region touches no block's messages.
LEMMA TakeQMaps ==
  ASSUME RefInv, RefSafeUse, StatesTell, StatesTell', OSQCreate_Take PROVE GotExact' /\ AbsStep
  <1>1. InTask("take") /\ UNCHANGED <<OSTCBEventPtr, OSTCBMsg, got, OSEventType, msgs>>
    BY DEF OSQCreate_Take, tcbVars
  <1>2. PICK l \in {"qinit", "app"} : (Goto(l) /\ UNCHANGED loc) \/ (Return(l) /\ l = "app")
    BY DEF OSQCreate_Take
  <1>3. Moves({"take"}, l)
    <2>1. CASE Return(l) /\ l = "app"
      BY <1>1, <2>1, ReturnMoves, RefFacts DEF RefInv, Points, InTask
    <2>2. CASE Goto(l) /\ UNCHANGED loc
      BY <1>1, <2>2, RefFacts DEF RefInv, Moves, InTask, Goto
    <2> QED BY <1>2, <2>1, <2>2
  <1>4. GotExact'
    BY <1>1, <1>3, StillGot DEF Points, Label
  <1> QED BY <1>1, <1>4, ShownSame, RoomSame DEF AbsStep

\* A block that is made anew is the abstract queue opened.
LEMMA InitialiseMaps ==
  ASSUME RefInv, RefSafeUse, StatesTell, StatesTell', NEW l \in {"qinit", "create"},
         NEW type \in {"Q", "MBOX"}, NEW q \in {<<>>} \cup {<<m>> : m \in Msg}, Initialise(l, type, q)
  PROVE  GotExact' /\ AbsStep
  <1> PICK e : e = loc[OSTCBCur].ev
    OBVIOUS
  <1>1. /\ InTask(l) /\ Return("app") /\ OSEventType' = [OSEventType EXCEPT ![e] = type]
        /\ msgs' = [msgs EXCEPT ![e] = q] /\ UNCHANGED <<OSTCBEventPtr, OSTCBMsg, got>>
    BY DEF Initialise, tcbVars
  <1>2. /\ e \in Event /\ OSEventType[e] = "UNUSED" /\ OSEventTbl[e] = {}
        /\ Moves({"take", "qinit", "create"}, "app")
    BY <1>1, MakerLeaves, RefFacts DEF RefInv
  <1>3. /\ msgs \in [Event -> Seq(Msg)] /\ block \in Event
        /\ OSEventType \in [Event -> {"Q", "MBOX", "UNUSED"}]
    BY RefFacts DEF RefInv, MsgTypes
  <1>4. GotExact'
    BY <1>1, <1>2, StillGot DEF Points, Label
  <1>5. UNCHANGED States
    BY <1>1, ShownSame
  <1>6. CASE e = block
    <2>1. Abstract!Waiting = {}
      BY <1>2, <1>6, WaitingIs
    <2>2. Room = 0 /\ Room' \in Nat
      BY <1>1, <1>2, <1>3, <1>6, MsgAssumption DEF Room, Cap
    <2>3. msgs'[block] = q
      BY <1>1, <1>3, <1>6
    <2>4. Abstract!Open
      BY <1>5, <2>1, <2>2, <2>3 DEF Abstract!Open
    <2> QED BY <1>4, <2>4 DEF AbsStep, Abstract!Next
  <1>7. CASE e # block
    <2>1. msgs'[block] = msgs[block] /\ OSEventType'[block] = OSEventType[block]
      BY <1>1, <1>3, <1>7
    <2> QED BY <1>4, <1>5, <2>1, RoomSame DEF AbsStep
  <1> QED BY <1>6, <1>7

\* A block that is deleted is the abstract queue closed.
LEMMA DelNoPendMaps ==
  ASSUME RefInv, RefSafeUse, StatesTell, StatesTell', NEW e \in Event, NEW type, DelNoPend(type, e)
  PROVE  GotExact' /\ AbsStep
  <1>1. InTask("del") /\ Return("app") /\ UNCHANGED <<OSTCBEventPtr, OSTCBMsg, got>>
    BY DEF DelNoPend, tcbVars
  <1>2. Moves({"del"}, "app")
    BY <1>1, ReturnMoves, RefFacts DEF RefInv, Points, InTask
  <1>3. GotExact' /\ UNCHANGED States
    BY <1>1, <1>2, StillGot, ShownSame DEF Points, Label
  <1>4. /\ msgs \in [Event -> Seq(Msg)] /\ block \in Event
        /\ OSEventType \in [Event -> {"Q", "MBOX", "UNUSED"}]
    BY RefFacts DEF RefInv, MsgTypes
  <1>5. CASE OSEventTbl[e] = {} /\ e = block
    <2>1. msgs'[block] = <<>> /\ Room' = 0
      BY <1>4, <1>5 DEF DelNoPend, Delete, FreeEvent, Room
    <2>2. Abstract!Waiting = {}
      BY <1>5, WaitingIs
    <2>3. Abstract!Become({}, "idle")
      BY <1>3 DEF Abstract!Become, States, User
    <2>4. Abstract!Close
      BY <2>1, <2>2, <2>3 DEF Abstract!Close
    <2> QED BY <1>3, <2>4 DEF AbsStep, Abstract!Next
  <1>6. CASE ~(OSEventTbl[e] = {} /\ e = block)
    <2>1. msgs'[block] = msgs[block] /\ OSEventType'[block] = OSEventType[block]
      BY <1>4, <1>6 DEF DelNoPend, Delete, FreeEvent, ecbVars
    <2> QED BY <1>3, <2>1, RoomSame DEF AbsStep
  <1> QED BY <1>5, <1>6

LEMMA DelAlwaysMaps ==
  ASSUME RefInv, RefSafeUse, StatesTell, StatesTell', NEW e \in Event, NEW type, DelAlways(type, e)
  PROVE  GotExact' /\ AbsStep
  <1>1. /\ InTask("delalways") /\ Ready(e, OSEventTbl[e], NoMsg) /\ Delete(e) /\ UNCHANGED got
    BY DEF DelAlways
  <1>2. PICK l \in {"app", "sched"} : Return(l)
    BY DEF DelAlways
  <1>3. Moves({"delalways"}, l)
    BY <1>1, <1>2, ReturnMoves, RefFacts DEF RefInv, Points, InTask
  <1> PICK W : W = {OSTCBPrioTbl[p] : p \in OSEventTbl[e]}
    OBVIOUS
  <1>4. /\ GotExact'
        /\ IF e = block THEN Abstract!Become(W, "idle") /\ W \subseteq Abstract!Waiting ELSE UNCHANGED States
    BY <1>1, <1>3, ReadyMaps
  <1>5. /\ msgs \in [Event -> Seq(Msg)] /\ block \in Event
        /\ OSEventType \in [Event -> {"Q", "MBOX", "UNUSED"}]
    BY RefFacts DEF RefInv, MsgTypes
  <1>6. CASE e = block
    <2>1. \A u \in Abstract!Waiting : InitPrio[u] \in OSEventTbl[e] /\ OSTCBPrioTbl[InitPrio[u]] = u
      BY <1>6, WaitingIs, RefFacts DEF RefInv
    <2>2. W = Abstract!Waiting
      BY <1>4, <1>6, <2>1
    <2>3. msgs'[block] = <<>> /\ Room' = 0
      BY <1>1, <1>5, <1>6 DEF Delete, FreeEvent, Room
    <2>4. Abstract!Close
      BY <1>4, <1>6, <2>2, <2>3 DEF Abstract!Close
    <2> QED BY <1>4, <2>4 DEF AbsStep, Abstract!Next
  <1>7. CASE e # block
    <2>1. msgs'[block] = msgs[block] /\ OSEventType'[block] = OSEventType[block]
      BY <1>1, <1>5, <1>7 DEF Delete, FreeEvent
    <2> QED BY <1>4, <1>7, <2>1, RoomSame DEF AbsStep
  <1> QED BY <1>6, <1>7

---------------------------------------------------------------------------
\* A step of the kernel leaves priorities, pointers and messages alone, and moves tasks
\* to or from OS_Sched only.
LEMMA MsgKernelLeaves ==
  ASSUME RefInv, RefSafeUse, KernelStep
  PROVE  /\ UNCHANGED <<OSTCBPrio, OSTCBEventPtr, OSTCBList, loc>>
         /\ \A t \in Tcb : \/ at'[t] = at[t]
                           \/ at[t] = "pendwait" /\ at'[t] = "pendwake"
                           \/ at[t] \in {"app", "sched"} /\ at'[t] \in {"app", "sched"}
  <1> DEFINE Move == \A t \in Tcb : \/ at'[t] = at[t]
                                    \/ at[t] = "pendwait" /\ at'[t] = "pendwake"
                                    \/ at[t] \in {"app", "sched"} /\ at'[t] \in {"app", "sched"}
             Leave == UNCHANGED <<OSTCBPrio, OSTCBEventPtr, OSTCBList, loc>>
  <1>1. CoreInv /\ OSTCBCur \in Tcb /\ at \in [Tcb -> Label]
    BY RefFacts DEF RefInv
  <1>2. \A t \in Tcb : ~Creating(t) /\ at[t] # "delwin"
    BY RefFacts DEF RefInv
  <1>3. CASE OS_Sched \/ OSIntExit
    <2>1. Leave
      BY <1>3 DEF OS_Sched, OSIntExit, tcbVars, tblVars
    <2>2. Move
      BY <1>1, <1>3 DEF OS_Sched, OSIntExit, InTask
    <2> QED BY <2>1, <2>2
  <1>4. CASE OSIntEnter \/ OSTimeTick
    BY <1>4 DEF OSIntEnter, OSTimeTick, tcbVars, tblVars, cpuVars
  <1>5. ASSUME NEW s, Call(s), NEW l \in {"sched", "app"}, Goto(l), Leave
        PROVE  Leave /\ Move
    BY <1>1, <1>5, ServiceReturns
  <1>6. CASE OSSchedLock
    BY <1>6 DEF OSSchedLock, tcbVars, tblVars
  <1>7. CASE OSSchedUnlock
    BY <1>5, <1>7 DEF OSSchedUnlock, Call, tcbVars, tblVars
  <1>8. CASE TimeStep
    <2>1. ASSUME NEW n \in Ticks, OSTimeDly(n) PROVE Leave /\ Move
      BY <1>5, <2>1 DEF OSTimeDly, Call, tblVars, cpuVars
    <2>2. ASSUME NEW p \in UserPrio, OSTimeDlyResume(p) PROVE Leave /\ Move
      BY <1>5, <2>2 DEF OSTimeDlyResume, tblVars, cpuVars
    <2> QED BY <1>8, <2>1, <2>2 DEF TimeStep, UserPrio
  <1>9. CASE TaskStep
    <2>1. ~OS_TCBInit_Take /\ ~OS_TCBInit_Link /\ ~OSTaskCreate_Undo /\ ~OSTaskDel_Free
      BY <1>1, <1>2 DEF OS_TCBInit_Take, OS_TCBInit_Link, OSTaskCreate_Undo, OSTaskDel_Free, InTask, Creating
    <2>2. \A p \in UserPrio : /\ ~OSTaskCreate(p) /\ ~OSTaskDel(p)
                              /\ \A q \in UserPrio : ~OSTaskChangePrio(p, q)
      BY DEF RefSafeUse, MsgSafeUse, SafeUse, OSTaskCreate, OSTaskDel, OSTaskChangePrio, Call, TaskCall, IsrCall
    <2>3. ASSUME NEW p \in UserPrio, OSTaskSuspend(p) PROVE Leave /\ Move
      BY <1>5, <2>3 DEF OSTaskSuspend, tblVars, cpuVars
    <2>4. ASSUME NEW p \in UserPrio, OSTaskResume(p) PROVE Leave /\ Move
      BY <1>5, <2>4 DEF OSTaskResume, tblVars, cpuVars
    <2> QED BY <1>9, <2>1, <2>2, <2>3, <2>4 DEF TaskStep
  <1> QED BY <1>3, <1>4, <1>6, <1>7, <1>8, <1>9 DEF KernelStep

\* The kernel's steps mean nothing to the abstract queue.
LEMMA MsgKernelMaps ==
  ASSUME RefInv, RefSafeUse, StatesTell, StatesTell', KernelStep,
         UNCHANGED <<ecbVars, msgs, OSQFree, OSTCBMsg, got>>
  PROVE  GotExact' /\ AbsStep
  <1>1. UNCHANGED <<OSTCBEventPtr, OSTCBMsg, got, msgs, OSEventType, loc>>
    BY MsgKernelLeaves DEF ecbVars
  <1>2. GotExact'
    BY <1>1, MsgKernelLeaves DEF RefInv, GotExact, Pending
  <1> QED BY <1>1, <1>2, ShownSame, RoomSame DEF AbsStep

---------------------------------------------------------------------------
\* No region of the message services changes a priority, or which tasks there are.
LEMMA MsgKeepsPrio ==
  ASSUME RefInv, RefSafeUse, [Next]_vars PROVE OwnPrio'
  <1>1. /\ at \in [Tcb -> Label] /\ OSTCBCur \in Tcb /\ \A t \in Tcb : ~Creating(t)
    BY RefFacts DEF RefInv
  <1> DEFINE Calm(l) == l \notin {"tcbinit", "tcblink", "unreserve"}
             Moved == \A t \in Tcb : at'[t] = at[t] \/ Calm(at'[t])
             Fixed == OSTCBPrio' = OSTCBPrio /\ OSTCBList' = OSTCBList /\ Moved
  <1>2. \A l : Goto(l) /\ Calm(l) => Moved
    BY <1>1 DEF Goto
  <1> HIDE DEF Moved
  <1>3. (\E type : Receive(type) \/ WaitFor(type)) \/ Pend_Timeout \/ Pend_Done => Fixed
    BY <1>2 DEF Receive, WaitFor, Pend_Timeout, Pend_Done, PendWait, Return, tcbVars, tblVars
  <1>4. \A s, type, e, n, l : Check(s, type, e, l, n) /\ Calm(l) => Fixed
    BY <1>2 DEF Check, tcbVars, tblVars
  <1>5. ASSUME NEW e, NEW m, NEW P, NEW q, NEW l, Send(e, m, P, q, l), Calm(l) PROVE Fixed
    BY <1>2, <1>5 DEF Send, Ready, OS_EventTaskRdy, Return, tcbVars, tblVars
  <1>6. ASSUME NEW e \in Event, NEW m \in Msg,
               \/ OSQPost(e, m) \/ OSQPostFront(e, m) \/ OSMboxPost(e, m)
               \/ \E opt \in PostOpts : OSQPostOpt(e, m, opt) \/ OSMboxPostOpt(e, m, opt)
        PROVE  Fixed
    BY <1>5, <1>6 DEF OSQPost, OSQPostFront, OSMboxPost, OSQPostOpt, OSMboxPostOpt
  <1>7. ASSUME NEW e \in Event, OSQAccept(e) \/ OSMboxAccept(e) \/ OSQFlush(e) PROVE Fixed
    BY <1>2, <1>7 DEF OSQAccept, OSMboxAccept, OSQFlush, Drop, Return, tcbVars, tblVars
  <1>8. (\E s, l : l \in {"take", "create"} /\ CreateAt(s, l)) \/ OSQCreate_Take => Fixed
    BY <1>2 DEF CreateAt, OSQCreate_Take, Return, tcbVars, tblVars
  <1>9. \A l, type, q : Initialise(l, type, q) => Fixed
    BY <1>2 DEF Initialise, Return, tcbVars, tblVars
  <1>10. \A e, type : DelNoPend(type, e) \/ DelAlways(type, e) => Fixed
    BY <1>2 DEF DelNoPend, DelAlways, Ready, OS_EventTaskRdy, Return, tcbVars, tblVars
  <1>11. ASSUME QStep PROVE Fixed
    <2>1. ASSUME NEW e \in Event, \E n \in Ticks : PendCheck("OSQPend", "Q", e, n) PROVE Fixed
      BY <1>4, <2>1 DEF PendCheck
    <2>2. ASSUME NEW e \in Event, NEW s, NEW l \in {"post", "accept", "flush", "del", "delalways"},
                 Enter(s, "Q", e, l)
          PROVE  Fixed
      BY <1>4, <2>2 DEF Enter
    <2>3. OSQCreate \/ OSQCreate_Init => Fixed
      BY <1>8, <1>9 DEF OSQCreate, OSQCreate_Init
    <2> QED BY <1>3, <1>6, <1>7, <1>8, <1>10, <1>11, <2>1, <2>2, <2>3 DEF QStep, OSQPend_Receive,
           OSQPend_Wait, OSQDel_NoPend, OSQDel_Always
  <1>12. ASSUME MboxStep PROVE Fixed
    <2>1. ASSUME NEW e \in Event, \E n \in Ticks : PendCheck("OSMboxPend", "MBOX", e, n) PROVE Fixed
      BY <1>4, <2>1 DEF PendCheck
    <2>2. ASSUME NEW e \in Event, NEW s, NEW l \in {"post", "accept", "del", "delalways"}, Enter(s, "MBOX", e, l)
          PROVE  Fixed
      BY <1>4, <2>2 DEF Enter
    <2>3. OSMboxCreate \/ (\E m : OSMboxCreate_Init(m)) => Fixed
      BY <1>8, <1>9 DEF OSMboxCreate, OSMboxCreate_Init
    <2> QED BY <1>3, <1>6, <1>7, <1>10, <1>12, <2>1, <2>2, <2>3 DEF MboxStep, OSMboxPend_Receive,
           OSMboxPend_Wait, OSMboxDel_NoPend, OSMboxDel_Always
  <1>13. ASSUME KernelStep PROVE Fixed
    BY <1>1, <1>13, MsgKernelLeaves DEF Moved, Creating
  <1>14. ASSUME UNCHANGED vars PROVE Fixed
    BY <1>14 DEF vars, coreVars, tcbVars, tblVars, Moved
  <1>15. Fixed
    BY <1>3, <1>11, <1>12, <1>13, <1>14 DEF Next
  <1>16. \A t \in Tcb : ~Creating(t)'
    BY <1>1, <1>15 DEF Moved, Creating
  <1> QED BY <1>15, <1>16 DEF RefInv, OwnPrio, User

\* Every step is one of the abstract queue, or none.
LEMMA MsgStepMaps ==
  ASSUME RefInv, RefSafeUse, [Next]_vars
  PROVE  RefInv' /\ [Abstract!Next]_<<msgs[block], States, Room>>
  <1>1. MsgInv' /\ OwnPrio' /\ StatesTell /\ StatesTell'
    BY MsgStepKeeps, MsgKeepsPrio, StatesByPtr, StatesByPtrNext DEF RefInv, RefSafeUse
  <1>2. ASSUME NEW s, NEW type, NEW e \in Event, NEW n, NEW l \in Label \ {"pendwait", "pendwake"},
               Check(s, type, e, l, n), NEW f \in Event \cup {NullEvent}, l = "pend" => f = e,
               got' = [got EXCEPT ![OSTCBCur] = [ev |-> f, val |-> "none"]],
               UNCHANGED <<msgs, OSTCBMsg>>
        PROVE  GotExact' /\ AbsStep
    <2>1. /\ OSIntNesting = 0 /\ OSTCBCur # Idle /\ at[OSTCBCur] = "app" /\ OSTCBCur \in Tcb
          /\ at' = [at EXCEPT ![OSTCBCur] = l] /\ loc' = [loc EXCEPT ![OSTCBCur] = [NoLocals EXCEPT !.ev = e, !.arg = n]]
          /\ UNCHANGED <<OSTCBEventPtr, OSEventType>> /\ at \in [Tcb -> Label] /\ loc \in [Tcb -> Locals]
      BY <1>2, RefFacts DEF RefInv, Check, TaskCall, Goto, Keep, tcbVars, ecbVars, CoreInv, KernelTypeOK
    <2>2. Moves({"app"}, l) /\ loc'[OSTCBCur].ev = e
      BY <2>1 DEF Moves, NoLocals
    <2> QED BY <1>1, <1>2, <2>1, <2>2, AskMaps
  <1>3. ASSUME NEW s, NEW type, NEW e \in Event, NEW n, PendCheck(s, type, e, n) PROVE GotExact' /\ AbsStep
    BY <1>2, <1>3 DEF PendCheck, Label
  <1>4. ASSUME NEW s, NEW type, NEW e \in Event, NEW l \in {"post", "accept", "flush", "del", "delalways"},
               Enter(s, type, e, l)
        PROVE  GotExact' /\ AbsStep
    BY <1>2, <1>4 DEF Enter, Forget, Label
  <1>5. ASSUME NEW s, NEW l \in {"take", "create"}, CreateAt(s, l) PROVE GotExact' /\ AbsStep
    <2>1. /\ OSIntNesting = 0 /\ OSTCBCur # Idle /\ at[OSTCBCur] = "app" /\ OSTCBCur \in Tcb
          /\ at' = [at EXCEPT ![OSTCBCur] = l] /\ UNCHANGED <<OSTCBEventPtr, OSTCBMsg, msgs, OSEventType>>
          /\ at \in [Tcb -> Label] /\ \A t \in Tcb \ {OSTCBCur} : loc'[t] = loc[t]
          /\ got' = [got EXCEPT ![OSTCBCur] = [ev |-> NullEvent, val |-> "none"]]
      BY <1>5, RefFacts DEF RefInv, CreateAt, TaskCall, Goto, Keep, Forget, tcbVars, CoreInv, KernelTypeOK
    <2>2. Moves({"app"}, l)
      BY <2>1 DEF Moves
    <2> QED BY <1>1, <2>1, <2>2, AskMaps DEF Label
  <1>6. ASSUME NEW m \in Msg \cup {NoMsg}, OSMboxCreate_Init(m) PROVE GotExact' /\ AbsStep
    BY <1>1, <1>6, InitialiseMaps DEF OSMboxCreate_Init
  <1>7. ASSUME QStep PROVE GotExact' /\ AbsStep
    BY <1>1, <1>3, <1>4, <1>5, <1>7, ReceiveMaps, WaitForMaps, TakeQMaps, InitialiseMaps, PostMaps,
       DropMaps, DelNoPendMaps, DelAlwaysMaps
       DEF QStep, OSQPend_Receive, OSQPend_Wait, OSQCreate, OSQCreate_Init, OSQDel_NoPend, OSQDel_Always
  <1>8. ASSUME MboxStep PROVE GotExact' /\ AbsStep
    BY <1>1, <1>3, <1>4, <1>5, <1>6, <1>8, ReceiveMaps, WaitForMaps, PostMaps, DropMaps,
       DelNoPendMaps, DelAlwaysMaps
       DEF MboxStep, OSMboxPend_Receive, OSMboxPend_Wait, OSMboxCreate, OSMboxDel_NoPend, OSMboxDel_Always
  <1>9. ASSUME UNCHANGED vars PROVE GotExact' /\ AbsStep
    <2>1. UNCHANGED <<OSTCBEventPtr, OSTCBMsg, got, msgs, OSEventType, at, loc>>
      BY <1>9 DEF vars, coreVars, msgVars, tcbVars, ecbVars
    <2>2. GotExact'
      BY <2>1 DEF RefInv, GotExact, Pending
    <2> QED BY <1>1, <2>1, <2>2, ShownSame, RoomSame DEF AbsStep
  <1>10. GotExact' /\ AbsStep
    BY <1>1, <1>7, <1>8, <1>9, PendTimeoutMaps, PendDoneMaps, MsgKernelMaps DEF Next
  <1> QED BY <1>1, <1>10 DEF RefInv, AbsStep

\* Every queue and mailbox, with its interrupts, timeouts, options and deletions,
\* implements the abstract one: no message is lost, doubled, reordered or given to a task
\* that timed out, and a message goes to the waiting task of the highest priority.
THEOREM MsgImplementsQueue == ASSUME RefSafeUse PROVE Spec => ImplementsPrioQueue
  <1>1. MsgInit => RefInv /\ Abstract!Init
    <2> SUFFICES ASSUME MsgInit PROVE RefInv /\ Abstract!Init
      OBVIOUS
    <2>1. CoreInit /\ MsgInv
      BY MsgInitHolds DEF MsgInit, RefSafeUse, MsgSafeUse
    <2>2. OwnPrio
      BY <2>1, CoreAssumption DEF CoreInit, OwnPrio, User, Tcb, Creating
    <2>3. /\ OSTCBEventPtr = [t \in Tcb |-> NullEvent] /\ OSTCBMsg = [t \in Tcb |-> NoMsg]
          /\ got = [t \in Tcb |-> [ev |-> NullEvent, val |-> "none"]] /\ at = [t \in Tcb |-> "app"]
          /\ msgs = [e \in Event |-> <<>>] /\ OSEventTbl = [e \in Event |-> {}]
      BY <2>1 DEF CoreInit, MsgInit
    <2>4. GotExact
      BY <2>3 DEF GotExact, Pending
    <2>5. User \subseteq Tcb /\ block \in Event /\ NullEvent # block
      BY <2>1, <2>2, RefFacts
    <2>6. \A t \in User : State(t) = "idle"
      BY <2>3, <2>5 DEF State
    <2>7. Room \in Nat
      BY MsgAssumption DEF Room, Cap
    <2> QED BY <2>1, <2>2, <2>3, <2>4, <2>5, <2>6, <2>7 DEF RefInv, Abstract!Init, States, User
  <1>2. RefInv /\ [Next]_vars => RefInv' /\ [Abstract!Next]_<<msgs[block], States, Room>>
    BY MsgStepMaps
  <1> QED BY <1>1, <1>2, PTL DEF Spec, ImplementsPrioQueue, Abstract!Spec

=============================================================================
