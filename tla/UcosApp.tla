------------------------------ MODULE UcosApp ------------------------------
(***************************************************************************)
(* The application's use of its message queue (main.c): sendMsgQueue posts *)
(* the address of a message unless isMsgInQueue finds it in the queue, and *)
(* Task1 takes the messages.  isMsgInQueue walks through the ring with     *)
(* interrupts enabled.  The ring is that of UcosRing, with OSQPost and     *)
(* OSQPend around it.                                                      *)
(***************************************************************************)
EXTENDS UcosRing, FiniteSets

CONSTANT
  Outranks         \* the sending task outranks Task1, as Task0 does

ASSUME AppAssumption == Outranks \in BOOLEAN

VARIABLES
  pc,              \* of the sending task: "idle", "walk", "post"
  msg,             \* the address it sends
  msg_q,           \* where isMsgInQueue has come to
  waits            \* Task1 waits in OSQPend
appVars == <<pc, msg, msg_q, waits>>

\* The value msg and msg_q have before the first call is never read.
AppInit ==
  /\ RingInit
  /\ pc = "idle" /\ msg \in Msg /\ msg_q = 0
  /\ waits = FALSE

\* Mutant: the walk begins at the start of the array.
SendMsg_FromStart(m) ==
  /\ pc = "idle" /\ msg' = m
  /\ msg_q' = 0
  /\ pc' = IF OSQEntries = 0 THEN "post" ELSE "walk"
  /\ UNCHANGED <<ringVars, waits>>

\* sendMsgQueue(m): an empty queue need not be searched.
SendMsg(m) ==
  /\ pc = "idle" /\ msg' = m
  /\ msg_q' = OSQOut
  /\ pc' = IF OSQEntries = 0 THEN "post" ELSE "walk"
  /\ UNCHANGED <<ringVars, waits>>

\* One turn of isMsgInQueue, up to OSQIn: of a full ring it sees nothing.
isMsgInQueue ==
  /\ pc = "walk"
  /\ pc' = IF msg_q = OSQIn THEN "post" ELSE IF cell[msg_q] = msg THEN "idle" ELSE "walk"
  /\ msg_q' = IF pc' # "walk" THEN msg_q ELSE IF msg_q + 1 = OSQSize THEN 0 ELSE msg_q + 1
  /\ UNCHANGED <<ringVars, msg, waits>>

\* The rest of sendMsgQueue: OSQPost gives the message to Task1 if that waits, or to
\* the ring unless it is full.
PostMsg ==
  /\ pc = "post" /\ pc' = "idle"
  /\ IF waits \/ OSQEntries = OSQSize THEN UNCHANGED ringVars ELSE Put(msg)
  /\ waits' = FALSE
  /\ UNCHANGED <<msg, msg_q>>

\* Task1's OSQPend, by itself (main.c) only while the sender waits for time to pass.
ReceiveMsg ==
  /\ ~waits /\ (Outranks => pc = "idle")
  /\ IF OSQEntries > 0 THEN Get /\ UNCHANGED waits ELSE waits' = TRUE /\ UNCHANGED ringVars
  /\ UNCHANGED <<pc, msg, msg_q>>

AppNext == isMsgInQueue \/ PostMsg \/ ReceiveMsg \/ \E m \in Msg : SendMsg(m)
AppSpec == AppInit /\ [][AppNext]_<<ringVars, appVars>>

---------------------------------------------------------------------------
Copies(m) == Cardinality({i \in 1 .. OSQEntries : cell[At(i)] = m})

\* sendMsgQueue returns 1.
Sent == pc # "idle" /\ pc' = "idle" /\ (pc = "post" => waits \/ OSQEntries < OSQSize)

\* When sendMsgQueue says that a message is sent, it is in the queue, and once only, or
\* Task1 has it: though the walk sees nothing of a full ring, and the cells that are not
\* in use still hold old messages.
SentOnce == [][Sent => Copies(msg)' = IF pc = "post" /\ waits THEN 0 ELSE 1]_<<ringVars, appVars>>
=============================================================================
