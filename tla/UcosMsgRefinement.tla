------------------------- MODULE UcosMsgRefinement -------------------------
(***************************************************************************)
(* The queues and mailboxes of UcosMsg implement the abstract queue        *)
(* PrioQueue.  A task has its message, abstractly, from the moment a post  *)
(* leaves it in the TCB.                                                   *)
(***************************************************************************)
EXTENDS UcosMsg

CONSTANT block     \* the queue or mailbox looked at

User == DOMAIN InitPrio
State(t) == IF OSTCBPrio[t] \in OSEventTbl[block] THEN "waiting"
            ELSE IF got[t].ev # block THEN "idle"
            ELSE IF OSTCBMsg[t] # NoMsg THEN OSTCBMsg[t]
            ELSE IF got[t].val \in Msg THEN got[t].val
            ELSE IF got[t].val = "timeout" THEN "timedout" ELSE "idle"
States == [t \in User |-> State(t)]
Room == IF OSEventType[block] = "UNUSED" THEN 0 ELSE Cap(block)

Abstract == INSTANCE PrioQueue WITH
  Client <- User, Rank <- InitPrio, Message <- Msg,
  cap <- Room, queue <- msgs[block], state <- States

\* Every step of the message services, in whatever order their regions, ticks and
\* interrupts come, is a step of the abstract queue or none: no message is lost,
\* doubled, reordered or swallowed by a timeout, and the highest-priority waiting
\* task is served.
ImplementsPrioQueue == Abstract!Spec

---------------------------------------------------------------------------
\* The rules of use: those of the messages, and tasks that are made before OSStart
\* and not deleted (PrioQueue has tasks with fixed ranks, and who waits goes on waiting).
\* The names of what is no message are none.
RefSafeUse ==
  /\ MsgSafeUse /\ {"OSTaskCreate", "OSTaskDel"} \cap TaskCalls = {}
  /\ block \in Event
  /\ {"idle", "waiting", "timedout", "none", "timeout"} \cap (Msg \cup {NoMsg}) = {}

\* The tasks in use are those created before OSStart, at their own priorities.
OwnPrio ==
  /\ OSTCBList = User \cup {Idle}
  /\ \A t \in User : OSTCBPrio[t] = InitPrio[t]
  /\ \A t \in Tcb : ~Creating(t)

\* A task inside a pend has got nothing of that block yet; a message lies in a TCB only
\* while its task is in a pend and does not wait any more.
GotExact ==
  \A t \in Tcb :
    /\ at[t] = "pend" \/ Pending(t) => got[t].ev = loc[t].ev /\ got[t].val = "none"
    /\ ~Pending(t) \/ OSTCBEventPtr[t] # NullEvent => OSTCBMsg[t] = NoMsg

RefInv == MsgInv /\ OwnPrio /\ GotExact
=============================================================================
