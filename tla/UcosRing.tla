------------------------------ MODULE UcosRing ------------------------------
(***************************************************************************)
(* The ring of pointers of a message queue (OS_Q of os_q.c), each action   *)
(* inside one critical region of OSQPost, OSQPostFront, OSQPend (and       *)
(* OSQAccept) or OSQFlush.  A pointer into the ring is its distance from   *)
(* OSQStart; OSQEnd, one past the last cell, is OSQSize.                   *)
(***************************************************************************)
EXTENDS Naturals

CONSTANTS
  OSQSize,
  Msg,             \* the pointers that are posted
  Junk             \* what the application's array holds before

ASSUME RingAssumption == OSQSize \in Nat \ {0} /\ Msg # {}

VARIABLES OSQIn, OSQOut, OSQEntries,
          cell,            \* the application's array
          taken            \* the message taken last (a set of at most one)
ringVars == <<OSQIn, OSQOut, OSQEntries, cell, taken>>

Cells == 0 .. OSQSize - 1

RingInit ==
  /\ OSQIn = 0 /\ OSQOut = 0 /\ OSQEntries = 0
  /\ cell = [c \in Cells |-> Junk]
  /\ taken = {}

\* *OSQIn++ = msg, and back to OSQStart at OSQEnd.
Put(m) ==
  /\ OSQEntries < OSQSize
  /\ cell' = [cell EXCEPT ![OSQIn] = m]
  /\ OSQIn' = IF OSQIn + 1 = OSQSize THEN 0 ELSE OSQIn + 1
  /\ OSQEntries' = OSQEntries + 1
  /\ UNCHANGED <<OSQOut, taken>>

\* Mutant: the message is written before OSQOut goes back.
PutFront_Before(m) ==
  /\ OSQEntries < OSQSize
  /\ OSQOut' = (IF OSQOut = 0 THEN OSQSize ELSE OSQOut) - 1
  /\ cell' = [cell EXCEPT ![OSQOut] = m]
  /\ OSQEntries' = OSQEntries + 1
  /\ UNCHANGED <<OSQIn, taken>>

\* OSQOut = OSQEnd if it is OSQStart, and *--OSQOut = msg.
PutFront(m) ==
  /\ OSQEntries < OSQSize
  /\ OSQOut' = (IF OSQOut = 0 THEN OSQSize ELSE OSQOut) - 1
  /\ cell' = [cell EXCEPT ![OSQOut'] = m]
  /\ OSQEntries' = OSQEntries + 1
  /\ UNCHANGED <<OSQIn, taken>>

\* msg = *OSQOut++, and back to OSQStart at OSQEnd.
Get ==
  /\ OSQEntries > 0
  /\ taken' = {cell[OSQOut]}
  /\ OSQOut' = IF OSQOut + 1 = OSQSize THEN 0 ELSE OSQOut + 1
  /\ OSQEntries' = OSQEntries - 1
  /\ UNCHANGED <<OSQIn, cell>>

Flush ==
  /\ OSQIn' = 0 /\ OSQOut' = 0 /\ OSQEntries' = 0
  /\ UNCHANGED <<cell, taken>>

RingNext == Get \/ Flush \/ \E m \in Msg : Put(m) \/ PutFront(m)
RingSpec == RingInit /\ [][RingNext]_ringVars

---------------------------------------------------------------------------
\* The cell of the i-th message.
At(i) == IF OSQOut + i - 1 < OSQSize THEN OSQOut + i - 1 ELSE OSQOut + i - 1 - OSQSize

Buffer == INSTANCE MsgBuffer WITH
  Size <- OSQSize, n <- OSQEntries, item <- [i \in 1 .. OSQEntries |-> cell[At(i)]]

\* The ring is a buffer in order, also where it is full (then OSQIn = OSQOut, as in
\* an empty one), where it wraps, and where posts at both ends alternate.
ImplementsMsgBuffer == Buffer!Spec

\* The two ends and the count agree: OSQIn is the cell after the last message.
RingExact ==
  /\ OSQEntries \in 0 .. OSQSize
  /\ OSQIn \in Cells /\ OSQOut \in Cells
  /\ OSQIn = At(OSQEntries + 1)
=============================================================================
