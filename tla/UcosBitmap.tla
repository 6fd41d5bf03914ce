----------------------------- MODULE UcosBitmap -----------------------------
(***************************************************************************)
(* The priority bitmaps of uC/OS-II (OSRdyGrp/OSRdyTbl for the tasks that  *)
(* are ready, OSEventGrp/OSEventTbl for those that wait for an event): one *)
(* bit for each priority, eight to a row, and a group byte with a bit for  *)
(* each row that is not empty.  A byte is the set of its bits that are 1.  *)
(***************************************************************************)
EXTENDS Naturals

CONSTANTS
  OS_LOWEST_PRIO,  \* at most 63: rows and groups are bytes
  OSUnMapTbl       \* the lowest bit of each byte, by table

Bit == 0 .. 7
Byte == SUBSET Bit
Prio == 0 .. OS_LOWEST_PRIO

\* The table must give the lowest bit of every byte but 0.
ASSUME BitmapAssumption ==
  /\ OS_LOWEST_PRIO \in 0 .. 63
  /\ \A b \in Byte \ {{}} : /\ OSUnMapTbl[b] \in b
                            /\ \A c \in b : OSUnMapTbl[b] <= c

VARIABLES OSRdyGrp, OSRdyTbl,
          OSPrioHighRdy
bitmapVars == <<OSRdyGrp, OSRdyTbl, OSPrioHighRdy>>

\* OSTCBY and OSTCBX: prio >> 3 and prio & 7.
Row(p) == p \div 8
Col(p) == p % 8

\* OS_InitRdyList, OS_EventWaitListInit
BitmapInit ==
  /\ OSRdyGrp = {}
  /\ OSRdyTbl = [y \in Bit |-> {}]
  /\ OSPrioHighRdy = 0

\* OSRdyGrp |= OSTCBBitY; OSRdyTbl[OSTCBY] |= OSTCBBitX
SetBit(p) ==
  /\ OSRdyGrp' = OSRdyGrp \cup {Row(p)}
  /\ OSRdyTbl' = [OSRdyTbl EXCEPT ![Row(p)] = @ \cup {Col(p)}]
  /\ UNCHANGED OSPrioHighRdy

\* Mutants: the group's bit is never cleared; it is cleared whatever the row holds.
ClearBit_KeepGroup(p) ==
  /\ OSRdyTbl' = [OSRdyTbl EXCEPT ![Row(p)] = @ \ {Col(p)}]
  /\ UNCHANGED <<OSRdyGrp, OSPrioHighRdy>>
ClearBit_DropGroup(p) ==
  /\ OSRdyTbl' = [OSRdyTbl EXCEPT ![Row(p)] = @ \ {Col(p)}]
  /\ OSRdyGrp' = OSRdyGrp \ {Row(p)}
  /\ UNCHANGED OSPrioHighRdy

\* OSRdyTbl[y] &= ~OSTCBBitX, and the group's bit too when that empties the row.
ClearBit(p) ==
  /\ OSRdyTbl' = [OSRdyTbl EXCEPT ![Row(p)] = @ \ {Col(p)}]
  /\ OSRdyGrp' = IF OSRdyTbl[Row(p)] \ {Col(p)} = {} THEN OSRdyGrp \ {Row(p)} ELSE OSRdyGrp
  /\ UNCHANGED OSPrioHighRdy

\* Its callers see to it that there is a priority to find: the idle task's is
\* always ready, and a wait list is searched only if its group is not 0.
OS_SchedNew ==
  /\ OSRdyGrp # {}
  /\ LET y == OSUnMapTbl[OSRdyGrp] IN OSPrioHighRdy' = 8 * y + OSUnMapTbl[OSRdyTbl[y]]
  /\ UNCHANGED <<OSRdyGrp, OSRdyTbl>>

BitmapNext == OS_SchedNew \/ \E p \in Prio : SetBit(p) \/ ClearBit(p)
BitmapSpec == BitmapInit /\ [][BitmapNext]_bitmapVars

---------------------------------------------------------------------------
\* The priorities whose bit is set.
Members == {p \in Prio : Col(p) \in OSRdyTbl[Row(p)]}
Abstract == INSTANCE PrioSet WITH set <- Members, highest <- OSPrioHighRdy

\* The bitmap is the set of its priorities, and the table lookup of OS_SchedNew
\* finds the smallest of them.
ImplementsPrioSet == Abstract!Spec

\* Rows and group in step, which makes it so: a stale group bit would send
\* OS_SchedNew to an empty row, a missing one would hide every task of a row.
GroupExact ==
  /\ OSRdyGrp \in Byte /\ OSRdyTbl \in [Bit -> Byte]
  /\ \A y \in Bit : y \in OSRdyGrp <=> OSRdyTbl[y] # {}
  /\ \A y \in Bit : \A x \in OSRdyTbl[y] : 8 * y + x \in Prio
=============================================================================
