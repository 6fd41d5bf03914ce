----------------------------- MODULE PrioQueue -----------------------------
(***************************************************************************)
(* What a uC/OS-II message queue or mailbox promises: messages in order,   *)
(* none of them lost, doubled or given to two tasks unless it is           *)
(* broadcast, and a task of the highest priority served first.  Posting,   *)
(* receiving, waiting and timing out are atomic here.                      *)
(***************************************************************************)
EXTENDS Naturals, Sequences

CONSTANTS
  Client,          \* the tasks that use the queue
  Rank,            \* their priorities: the lower the number, the higher
  Message

VARIABLES
  cap,             \* the room there is
  queue,
  state            \* each client's: idle, waiting, timed out, or its last message

Waiting == {t \in Client : state[t] = "waiting"}
Become(T, s) == state' = [t \in Client |-> IF t \in T THEN s ELSE state[t]]

Init == queue = <<>> /\ state = [t \in Client |-> "idle"] /\ cap \in Nat

Ask(t) == t \notin Waiting /\ Become({t}, "idle") /\ UNCHANGED <<queue, cap>>
Receive(t) == /\ t \notin Waiting /\ queue # <<>>
              /\ Become({t}, Head(queue)) /\ queue' = Tail(queue) /\ UNCHANGED cap
Wait(t) == /\ t \notin Waiting /\ queue = <<>>
           /\ Become({t}, "waiting") /\ UNCHANGED <<queue, cap>>
TimeOut(t) == t \in Waiting /\ Become({t}, "timedout") /\ UNCHANGED <<queue, cap>>

Put(q) == Waiting = {} /\ Len(queue) < cap /\ queue' = q /\ UNCHANGED <<state, cap>>
Post(m) == \/ Put(Append(queue, m)) \/ Put(<<m>> \o queue)
           \/ /\ \E t \in Waiting : /\ \A u \in Waiting : Rank[t] <= Rank[u]
                                    /\ Become({t}, m)
              /\ UNCHANGED <<queue, cap>>
           \/ Waiting # {} /\ Become(Waiting, m) /\ UNCHANGED <<queue, cap>>

Accept == queue # <<>> /\ queue' = Tail(queue) /\ UNCHANGED <<state, cap>>
Flush == queue' = <<>> /\ UNCHANGED <<state, cap>>

\* The queue is deleted, and made anew, perhaps with a message in it.
Close == queue' = <<>> /\ cap' = 0 /\ Become(Waiting, "idle")
Open == /\ cap = 0 /\ cap' \in Nat /\ Waiting = {} /\ UNCHANGED state
        /\ queue' \in {<<>>} \cup {<<m>> : m \in Message}

Next == \/ Accept \/ Flush \/ Close \/ Open \/ \E m \in Message : Post(m)
        \/ \E t \in Client : Ask(t) \/ Receive(t) \/ Wait(t) \/ TimeOut(t)

Spec == Init /\ [][Next]_<<queue, state, cap>>
=============================================================================
