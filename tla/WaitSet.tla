------------------------------ MODULE WaitSet ------------------------------
(***************************************************************************)
(* A set of waiting nodes, and a post that looks at each of them once and  *)
(* may take out the one it looks at: what UcosFlag takes a wait list for.  *)
(***************************************************************************)
CONSTANT Node
VARIABLES member,
          left             \* those that the post under way has not looked at yet

Init == member = {} /\ left = {}

Join(n) == left = {} /\ n \notin member /\ member' = member \cup {n} /\ UNCHANGED left
Leave(n) == left = {} /\ n \in member /\ member' = member \ {n} /\ UNCHANGED left
Begin == left = {} /\ left' = member /\ UNCHANGED member
Look(n) ==
  /\ n \in left /\ left' = left \ {n}
  /\ member' \in {member, member \ {n}}

Next == Begin \/ \E n \in Node : Join(n) \/ Leave(n) \/ Look(n)
Spec == Init /\ [][Next]_<<member, left>>
=============================================================================
