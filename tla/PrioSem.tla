------------------------------ MODULE PrioSem ------------------------------
(***************************************************************************)
(* What a uC/OS-II semaphore promises: a count, tasks that wait for a unit *)
(* of it, and a post that serves the waiting task of the highest priority. *)
(* Posting, waiting and timing out are atomic here.                        *)
(***************************************************************************)
EXTENDS Naturals

CONSTANTS
  Client,          \* the tasks that use the semaphore
  Rank,            \* their priorities: the lower the number, the higher
  Limit,           \* the largest count
  Initial          \* the count it is created with

VARIABLES count, state

Init == count = Initial /\ state = [t \in Client |-> "idle"]

Waiting == {t \in Client : state[t] = "waiting"}
Becomes(t, s) == state' = [state EXCEPT ![t] = s]

Ask(t) == t \notin Waiting /\ Becomes(t, "idle") /\ UNCHANGED count
Take(t) == t \notin Waiting /\ count > 0 /\ count' = count - 1 /\ Becomes(t, "owns")
Wait(t) == t \notin Waiting /\ count = 0 /\ Becomes(t, "waiting") /\ UNCHANGED count
TimeOut(t) == t \in Waiting /\ Becomes(t, "timedout") /\ UNCHANGED count
Leave(t) == t \in Waiting /\ Becomes(t, "idle") /\ UNCHANGED count

Serve(t) == /\ t \in Waiting
            /\ \A u \in Waiting : Rank[t] <= Rank[u]
            /\ Becomes(t, "owns") /\ UNCHANGED count
Count == Waiting = {} /\ count < Limit /\ count' = count + 1 /\ UNCHANGED state

Accept == count > 0 /\ count' = count - 1 /\ UNCHANGED state
Set == /\ count > 0 \/ Waiting = {}
       /\ count' \in 0 .. Limit /\ UNCHANGED state

Next == \/ Count \/ Accept \/ Set
        \/ \E t \in Client : Ask(t) \/ Take(t) \/ Wait(t) \/ TimeOut(t) \/ Leave(t) \/ Serve(t)

Spec == Init /\ [][Next]_<<count, state>>
=============================================================================
