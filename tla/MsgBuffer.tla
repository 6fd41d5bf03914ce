----------------------------- MODULE MsgBuffer -----------------------------
(***************************************************************************)
(* A buffer of at most Size messages in order: what UcosMsg takes the ring *)
(* of a message queue for.  item[1] is the next message to be taken.       *)
(***************************************************************************)
EXTENDS Naturals

CONSTANTS Size, Msg
VARIABLES n, item,
          taken            \* the message taken last

Init == n = 0 /\ item = [i \in 1 .. 0 |-> 0] /\ taken = {}

PutLast(m) ==
  /\ n < Size /\ n' = n + 1
  /\ item' = [i \in 1 .. n + 1 |-> IF i = n + 1 THEN m ELSE item[i]]
  /\ UNCHANGED taken
PutFirst(m) ==
  /\ n < Size /\ n' = n + 1
  /\ item' = [i \in 1 .. n + 1 |-> IF i = 1 THEN m ELSE item[i - 1]]
  /\ UNCHANGED taken
Take ==
  /\ n > 0 /\ n' = n - 1
  /\ item' = [i \in 1 .. n - 1 |-> item[i + 1]]
  /\ taken' = {item[1]}
Clear == n' = 0 /\ item' = [i \in 1 .. 0 |-> 0] /\ UNCHANGED taken

Next == Take \/ Clear \/ \E m \in Msg : PutLast(m) \/ PutFirst(m)
Spec == Init /\ [][Next]_<<n, item, taken>>
=============================================================================
