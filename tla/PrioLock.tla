----------------------------- MODULE PrioLock -----------------------------
(***************************************************************************)
(* What a uC/OS-II mutex promises: one owner, which alone can release it,  *)
(* and then to the waiting task of the highest priority of its own.        *)
(* Taking, waiting, timing out and releasing are atomic here.              *)
(***************************************************************************)
EXTENDS Naturals

CONSTANTS
  Client,          \* the tasks that use the lock
  Rank,            \* their own priorities: the lower the number, the higher
  None             \* no owner

VARIABLES owner, waiting

Init == owner = None /\ waiting = {}

Take(t) == owner = None /\ t \notin waiting /\ owner' = t /\ UNCHANGED waiting
Wait(t) == /\ owner \notin {None, t} /\ t \notin waiting
           /\ waiting' = waiting \cup {t} /\ UNCHANGED owner
TimeOut(t) == t \in waiting /\ waiting' = waiting \ {t} /\ UNCHANGED owner

Release == owner # None /\ waiting = {} /\ owner' = None /\ UNCHANGED waiting
Pass(t) == /\ owner # None /\ t \in waiting
           /\ \A u \in waiting : Rank[t] <= Rank[u]
           /\ owner' = t /\ waiting' = waiting \ {t}

\* Deleting the mutex: nobody owns it and nobody waits for it.
Close == owner' = None /\ waiting' = {}

Next == Release \/ Close \/ \E t \in Client : Take(t) \/ Wait(t) \/ TimeOut(t) \/ Pass(t)

Spec == Init /\ [][Next]_<<owner, waiting>>
=============================================================================
