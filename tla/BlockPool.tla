----------------------------- MODULE BlockPool -----------------------------
(***************************************************************************)
(* What a memory partition promises: a block is free or it is its owner's, *)
(* a free one is handed out as long as there are any, and an owner can     *)
(* always give one back.                                                   *)
(***************************************************************************)
EXTENDS Naturals

CONSTANTS Block, Size
VARIABLES free, out,
          left             \* how many blocks there are to hand out

Init == free = Block /\ out = {} /\ left = Size
Get == /\ left > 0 /\ left' = left - 1
       /\ \E b \in free : free' = free \ {b} /\ out' = out \cup {b}
Put(b) == b \in out /\ free' = free \cup {b} /\ out' = out \ {b} /\ left' = left + 1

Next == Get \/ \E b \in Block : Put(b)
Spec == Init /\ [][Next]_<<free, out, left>>
=============================================================================
