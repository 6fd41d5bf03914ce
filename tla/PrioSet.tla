------------------------------ MODULE PrioSet ------------------------------
(***************************************************************************)
(* A set of priorities that knows its highest one: what the rest of this   *)
(* development takes the ready table and an event's wait list for.         *)
(***************************************************************************)
EXTENDS Naturals

CONSTANT Prio
VARIABLES set, highest

Init == set = {} /\ highest = 0
Insert(p) == set' = set \cup {p} /\ UNCHANGED highest
Remove(p) == set' = set \ {p} /\ UNCHANGED highest
Find == /\ set # {}
        /\ highest' \in set /\ \A p \in set : highest' <= p
        /\ UNCHANGED set

Next == Find \/ \E p \in Prio : Insert(p) \/ Remove(p)
Spec == Init /\ [][Next]_<<set, highest>>
=============================================================================
