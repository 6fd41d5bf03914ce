---------------------------- MODULE MCUcosParts ----------------------------
(***************************************************************************)
(* The parts that share no state with the rest of the kernel, side by      *)
(* side: a behaviour is one of the part that it starts with, and the       *)
(* others stay as they are.                                                *)
(***************************************************************************)
EXTENDS UcosBitmap, UcosDelay, UcosApp, UcosMem, UcosFlagList, UcosStat, FiniteSetsExt, Sequences

VARIABLE part
partVars == <<bitmapVars, delayVars, ringVars, appVars, memVars, listVars, statVars>>

\* Where a part has several initial states, the other parts' behaviours use one of them.
Init ==
  /\ part \in {"bitmap", "delay", "ring", "app", "mem", "list", "stat"}
  /\ BitmapInit /\ MemInit /\ ListInit
  /\ DelayInit /\ (part # "delay" => asked = <<1, 0, 0, 0>>)
  /\ AppInit /\ (part # "app" => msg = CHOOSE m \in Msg : TRUE)
  /\ StatInit /\ (part # "stat" => initDly = 2)

Next ==
  /\ UNCHANGED part
  /\ \/ /\ part = "bitmap" /\ BitmapNext
        /\ UNCHANGED <<delayVars, ringVars, appVars, memVars, listVars, statVars>>
     \/ /\ part = "delay" /\ DelayNext
        /\ UNCHANGED <<bitmapVars, ringVars, appVars, memVars, listVars, statVars>>
     \/ /\ part = "ring" /\ RingNext
        /\ UNCHANGED <<bitmapVars, delayVars, appVars, memVars, listVars, statVars>>
     \/ /\ part = "app" /\ AppNext
        /\ UNCHANGED <<bitmapVars, delayVars, memVars, listVars, statVars>>
     \/ /\ part = "mem" /\ MemNext
        /\ UNCHANGED <<bitmapVars, delayVars, ringVars, appVars, listVars, statVars>>
     \/ /\ part = "list" /\ ListNext
        /\ UNCHANGED <<bitmapVars, delayVars, ringVars, appVars, memVars, statVars>>
     \/ /\ part = "stat" /\ StatNext
        /\ UNCHANGED <<bitmapVars, delayVars, ringVars, appVars, memVars, listVars>>

Spec == Init /\ [][Next]_<<part, partVars>>

---------------------------------------------------------------------------
\* The bytes' values, to look them up in the table of the source.
Value(b) == SumSet({2 ^ i : i \in b})

\* Sixteen rows of sixteen entries; the rows differ in their first entry only.
Tail16 == <<0, 1, 0, 2, 0, 1, 0, 3, 0, 1, 0, 2, 0, 1, 0>>
RowHead == <<0, 4, 5, 4, 6, 4, 5, 4, 7, 4, 5, 4, 6, 4, 5, 4>>
Table(n) == IF n % 16 = 0 THEN RowHead[n \div 16 + 1] ELSE Tail16[n % 16]

MCUnMapTbl == [b \in SUBSET (0 .. 7) |-> Table(Value(b))]

\* Every rounding of the milliseconds; delays on both sides of 65536 ticks (5
\* minutes 27.68 seconds at 200 ticks a second) and of its multiples; the longest.
MCRequest ==
  ({0} \X {0} \X {0} \X (1 .. 999)) \cup ({0} \X {5} \X {27, 28} \X (670 .. 690))
  \cup {<<0, 10, 55, 355>>, <<0, 10, 55, 360>>, <<1, 0, 0, 0>>, <<255, 59, 59, 999>>}
=============================================================================
