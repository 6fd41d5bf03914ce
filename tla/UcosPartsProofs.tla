--------------------------- MODULE UcosPartsProofs ---------------------------
(***************************************************************************)
(* The parts that share no state with the rest of the kernel, one after    *)
(* the other: the priority bitmaps, the ring of a message queue and the    *)
(* application's use of it, memory partitions, the wait list of an event   *)
(* flag group, the delays of OSTimeDlyHMSM and the CPU usage, each for     *)
(* every value of its constants.                                           *)
(***************************************************************************)
EXTENDS Integers, UcosBitmap, UcosApp, UcosMem, UcosFlagList, UcosDelay, UcosStat,
        FiniteSetTheorems, TLAPS

---------------------------------------------------------------------------
\* The priority bitmaps implement sets of priorities, for every lowest
\* priority up to 63.

\* A priority is its row and column, and rows and columns are bit numbers.
LEMMA RowAndCol ==
  \A p \in Prio : p \in Nat /\ Row(p) \in Bit /\ Col(p) \in Bit /\ p = 8 * Row(p) + Col(p)
  BY BitmapAssumption DEF Prio, Row, Col, Bit

\* No other row and column make the same priority.
LEMMA RowColUnique ==
  ASSUME NEW y \in Bit, NEW x \in Bit, 8 * y + x \in Prio
  PROVE  Row(8 * y + x) = y /\ Col(8 * y + x) = x
  BY BitmapAssumption DEF Prio, Row, Col, Bit

\* The empty bitmap satisfies the invariant.
LEMMA InitExact == BitmapInit => GroupExact
  BY DEF BitmapInit, GroupExact, Byte

\* Every operation keeps rows and group in step.
LEMMA NextExact == GroupExact /\ [BitmapNext]_bitmapVars => GroupExact'
  <1> SUFFICES ASSUME GroupExact, [BitmapNext]_bitmapVars PROVE GroupExact'
    OBVIOUS
  <1>1. ASSUME NEW p \in Prio, SetBit(p) PROVE GroupExact'
    <2>1. Row(p) \in Bit /\ Col(p) \in Bit /\ p = 8 * Row(p) + Col(p)
      BY RowAndCol
    <2>2. /\ OSRdyTbl'[Row(p)] = OSRdyTbl[Row(p)] \cup {Col(p)}
          /\ \A y \in Bit \ {Row(p)} : OSRdyTbl'[y] = OSRdyTbl[y]
          /\ OSRdyGrp' = OSRdyGrp \cup {Row(p)}
      BY <1>1, <2>1 DEF SetBit, GroupExact
    <2>3. OSRdyGrp' \in Byte /\ OSRdyTbl' \in [Bit -> Byte]
      BY <1>1, <2>1 DEF SetBit, GroupExact, Byte
    <2>4. \A y \in Bit : \A x \in OSRdyTbl'[y] : 8 * y + x \in Prio
      BY <2>1, <2>2 DEF GroupExact
    <2> QED BY <2>1, <2>2, <2>3, <2>4 DEF GroupExact
  <1>2. ASSUME NEW p \in Prio, ClearBit(p) PROVE GroupExact'
    <2>1. Row(p) \in Bit
      BY RowAndCol
    <2>2. /\ OSRdyTbl'[Row(p)] = OSRdyTbl[Row(p)] \ {Col(p)}
          /\ \A y \in Bit \ {Row(p)} : OSRdyTbl'[y] = OSRdyTbl[y]
      BY <1>2, <2>1 DEF ClearBit, GroupExact
    <2>3. OSRdyGrp' \in Byte /\ OSRdyTbl' \in [Bit -> Byte]
      BY <1>2 DEF ClearBit, GroupExact, Byte
    <2>4. \A y \in Bit : y \in OSRdyGrp' <=> OSRdyTbl'[y] # {}
      BY <1>2, <2>1, <2>2 DEF ClearBit, GroupExact
    <2>5. \A y \in Bit : \A x \in OSRdyTbl'[y] : 8 * y + x \in Prio
      BY <2>1, <2>2 DEF GroupExact
    <2> QED BY <2>3, <2>4, <2>5 DEF GroupExact
  <1>3. CASE OS_SchedNew \/ UNCHANGED bitmapVars
    BY <1>3 DEF OS_SchedNew, bitmapVars, GroupExact
  <1> QED BY <1>1, <1>2, <1>3 DEF BitmapNext

\* A bitmap's rows and its group never disagree, however bits are set and
\* cleared (each place of the kernel that touches a bitmap updates both).
THEOREM GroupStaysExact == BitmapSpec => []GroupExact
  BY InitExact, NextExact, PTL DEF BitmapSpec

\* What the two table lookups of OS_SchedNew find is the highest priority.
LEMMA LookupFindsHighest ==
  ASSUME GroupExact, OSRdyGrp # {}
  PROVE  LET y == OSUnMapTbl[OSRdyGrp]
             h == 8 * y + OSUnMapTbl[OSRdyTbl[y]]
         IN  h \in Members /\ \A p \in Members : h <= p
  <1> DEFINE y == OSUnMapTbl[OSRdyGrp]
             x == OSUnMapTbl[OSRdyTbl[y]]
  <1>1. y \in OSRdyGrp /\ y \in Bit /\ \A c \in OSRdyGrp : y <= c
    BY BitmapAssumption DEF GroupExact, Byte
  <1>2. OSRdyTbl[y] \in Byte \ {{}}
    BY <1>1 DEF GroupExact
  <1>3. x \in OSRdyTbl[y] /\ x \in Bit /\ \A c \in OSRdyTbl[y] : x <= c
    BY <1>2, BitmapAssumption DEF Byte
  <1>4. 8 * y + x \in Members
    <2>1. 8 * y + x \in Prio
      BY <1>1, <1>3 DEF GroupExact
    <2> QED BY <1>1, <1>3, <2>1, RowColUnique DEF Members
  <1>5. ASSUME NEW p \in Members PROVE 8 * y + x <= p
    <2>1. /\ p \in Nat /\ Row(p) \in Bit /\ Col(p) \in Bit /\ p = 8 * Row(p) + Col(p)
          /\ Col(p) \in OSRdyTbl[Row(p)]
      BY RowAndCol DEF Members
    <2>2. y <= Row(p)
      BY <1>1, <2>1 DEF GroupExact
    <2>3. Row(p) = y => x <= Col(p)
      BY <1>3, <2>1
    <2> QED BY <1>1, <1>3, <2>1, <2>2, <2>3 DEF Bit
  <1> QED BY <1>4, <1>5

\* Every operation on the bitmap is the operation of that name on the set.
LEMMA StepsMap == GroupExact /\ [BitmapNext]_bitmapVars => [Abstract!Next]_<<Members, OSPrioHighRdy>>
  <1> SUFFICES ASSUME GroupExact, [BitmapNext]_bitmapVars
               PROVE  [Abstract!Next]_<<Members, OSPrioHighRdy>>
    OBVIOUS
  <1>1. ASSUME NEW p \in Prio, SetBit(p) PROVE Abstract!Insert(p)
    <2>1. \A q \in Prio : Col(q) \in OSRdyTbl'[Row(q)] <=> Col(q) \in OSRdyTbl[Row(q)] \/ q = p
      <3> TAKE q \in Prio
      <3>1. /\ Row(p) \in Bit /\ Col(p) \in Bit /\ Row(q) \in Bit /\ Col(q) \in Bit
            /\ Row(p) = Row(q) /\ Col(p) = Col(q) => p = q
        BY RowAndCol
      <3> QED BY <1>1, <3>1 DEF SetBit, GroupExact
    <2> QED BY <1>1, <2>1 DEF SetBit, Abstract!Insert, Members
  <1>2. ASSUME NEW p \in Prio, ClearBit(p) PROVE Abstract!Remove(p)
    <2>1. \A q \in Prio : Col(q) \in OSRdyTbl'[Row(q)] <=> Col(q) \in OSRdyTbl[Row(q)] /\ q # p
      <3> TAKE q \in Prio
      <3>1. /\ Row(p) \in Bit /\ Col(p) \in Bit /\ Row(q) \in Bit /\ Col(q) \in Bit
            /\ Row(p) = Row(q) /\ Col(p) = Col(q) => p = q
        BY RowAndCol
      <3> QED BY <1>2, <3>1 DEF ClearBit, GroupExact
    <2> QED BY <1>2, <2>1 DEF ClearBit, Abstract!Remove, Members
  <1>3. ASSUME OS_SchedNew PROVE Abstract!Find
    BY <1>3, LookupFindsHighest DEF OS_SchedNew, Abstract!Find, Members
  <1>4. CASE UNCHANGED bitmapVars
    BY <1>4 DEF bitmapVars, Members
  <1> QED BY <1>1, <1>2, <1>3, <1>4 DEF BitmapNext, Abstract!Next

\* The bitmap implements a set of priorities: the reason why the other modules
\* may take OSRdyTbl and OSEventTbl for sets and OS_SchedNew for their minimum.
THEOREM BitmapImplementsSet == BitmapSpec => ImplementsPrioSet
  <1>1. BitmapInit => Abstract!Init
    BY RowAndCol DEF BitmapInit, Abstract!Init, Members
  <1> QED BY <1>1, StepsMap, GroupStaysExact, PTL DEF BitmapSpec, ImplementsPrioSet, Abstract!Spec

---------------------------------------------------------------------------
\* The ring of a message queue implements a bounded buffer, for every size
\* of the ring.

\* Everything the steps need: the ends agree, and the array is one.
RingInv == RingExact /\ DOMAIN cell = Cells

\* The ends start together at OSQStart.
LEMMA RingInitInv == RingInit => RingInv
BY RingAssumption DEF RingInit, RingInv, RingExact, Cells, At

\* Every operation moves its end and the count together.
LEMMA RingStepInv == RingInv /\ [RingNext]_ringVars => RingInv'
<1> SUFFICES ASSUME RingInv, [RingNext]_ringVars PROVE RingInv'
  OBVIOUS
<1> USE RingAssumption DEF RingInv, RingExact, Cells, At
<1>1. ASSUME NEW m \in Msg, Put(m) PROVE RingInv'
  BY <1>1 DEF Put
<1>2. ASSUME NEW m \in Msg, PutFront(m) PROVE RingInv'
  BY <1>2 DEF PutFront
<1>3. CASE Get
  BY <1>3 DEF Get
<1>4. CASE Flush
  BY <1>4 DEF Flush
<1>5. CASE UNCHANGED ringVars
  BY <1>5 DEF ringVars
<1> QED BY <1>1, <1>2, <1>3, <1>4, <1>5 DEF RingNext

\* RingInv is an invariant.
LEMMA RingCorrect == RingSpec => []RingInv
BY RingInitInv, RingStepInv, PTL DEF RingSpec

\* In and Out and the count of entries agree in every state, whatever the size.
THEOREM EndsAgree == RingSpec => []RingExact
<1>1. RingInv => RingExact
  BY DEF RingInv
<1> QED BY <1>1, RingCorrect, PTL

---------------------------------------------------------------------------
\* The cells of different messages are different ones.
LEMMA CellsApart ==
  ASSUME RingInv, NEW i \in 1 .. OSQSize, NEW j \in 1 .. OSQSize, i # j
  PROVE  At(i) # At(j) /\ At(i) \in Cells
BY RingAssumption DEF RingInv, RingExact, Cells, At

\* A post at the end of the ring leaves the other messages where they are.
LEMMA PutCells ==
  ASSUME RingInv, NEW m \in Msg, Put(m)
  PROVE  /\ OSQEntries \in Nat /\ OSQEntries < OSQSize /\ OSQEntries' = OSQEntries + 1
         /\ \A i \in 1 .. OSQEntries' :
              cell'[At(i)'] = IF i = OSQEntries' THEN m ELSE cell[At(i)]
<1>1. OSQEntries' = OSQEntries + 1 /\ OSQEntries \in Nat /\ OSQEntries < OSQSize
  BY RingAssumption DEF Put, RingInv, RingExact
<1>2. \A i \in 1 .. OSQEntries + 1 : At(i)' = At(i)
  BY DEF Put, At
<1>3. \A i \in 1 .. OSQEntries : At(i) # OSQIn
  <2> TAKE i \in 1 .. OSQEntries
  <2>1. i \in 1 .. OSQSize /\ OSQEntries + 1 \in 1 .. OSQSize /\ i # OSQEntries + 1
    BY <1>1, RingAssumption
  <2> QED BY <2>1, CellsApart DEF RingInv, RingExact
<1>4. \A i \in 1 .. OSQEntries + 1 :
        cell'[At(i)'] = IF i = OSQEntries + 1 THEN m ELSE cell[At(i)]
  <2> TAKE i \in 1 .. OSQEntries + 1
  <2>1. CASE i = OSQEntries + 1
    BY <2>1, <1>2 DEF Put, RingInv, RingExact
  <2>2. CASE i # OSQEntries + 1
    <3>1. i \in 1 .. OSQEntries
      BY <2>2, <1>1
    <3> QED BY <3>1, <1>2, <1>3, <2>2 DEF Put
  <2> QED BY <2>1, <2>2
<1> QED BY <1>1, <1>4

\* It appends to the buffer.
LEMMA PutRefines ==
  ASSUME RingInv, NEW m \in Msg, Put(m) PROVE Buffer!PutLast(m)
<1> DEFINE item == [i \in 1 .. OSQEntries |-> cell[At(i)]]
<1>1. OSQEntries \in Nat /\ OSQEntries < OSQSize /\ OSQEntries' = OSQEntries + 1 /\ taken' = taken
  BY PutCells DEF Put
<1>2. \A i \in 1 .. OSQEntries + 1 :
        cell'[At(i)'] = IF i = OSQEntries + 1 THEN m ELSE item[i]
  <2> TAKE i \in 1 .. OSQEntries + 1
  <2>1. i = OSQEntries + 1 \/ (i \in 1 .. OSQEntries /\ i # OSQEntries + 1)
    BY <1>1
  <2> QED BY <1>1, <2>1, PutCells
<1> QED BY <1>1, <1>2 DEF Buffer!PutLast

\* A post at the front puts the message before all others.
LEMMA PutFrontRefines ==
  ASSUME RingInv, NEW m \in Msg, PutFront(m) PROVE Buffer!PutFirst(m)
<1> DEFINE item == [i \in 1 .. OSQEntries |-> cell[At(i)]]
<1>1. OSQEntries' = OSQEntries + 1 /\ OSQEntries \in Nat /\ OSQEntries < OSQSize
  BY RingAssumption DEF PutFront, RingInv, RingExact
<1>2. /\ OSQOut' \in Cells /\ At(1)' = OSQOut'
      /\ \A i \in 2 .. OSQEntries + 1 : At(i)' = At(i - 1)
  BY <1>1, RingAssumption DEF PutFront, At, RingInv, RingExact, Cells
<1>3. \A i \in 1 .. OSQEntries : At(i) # OSQOut'
  BY <1>1, RingAssumption DEF PutFront, At, RingInv, RingExact, Cells
<1>4. \A i \in 1 .. OSQEntries + 1 :
        cell'[At(i)'] = IF i = 1 THEN m ELSE item[i - 1]
  <2> TAKE i \in 1 .. OSQEntries + 1
  <2>1. CASE i = 1
    BY <2>1, <1>2 DEF PutFront, RingInv
  <2>2. CASE i # 1
    <3>1. i \in 2 .. OSQEntries + 1 /\ i - 1 \in 1 .. OSQEntries
      BY <2>2, <1>1
    <3>2. At(i)' = At(i - 1) /\ At(i - 1) # OSQOut'
      BY <3>1, <1>2, <1>3
    <3> QED BY <3>1, <3>2, <2>2 DEF PutFront
  <2> QED BY <2>1, <2>2
<1> QED BY <1>1, <1>4 DEF PutFront, Buffer!PutFirst

\* A pend brings the other messages one place forward.
LEMMA GetCells ==
  ASSUME RingInv, Get
  PROVE  /\ OSQEntries \in Nat /\ OSQEntries > 0 /\ OSQEntries' = OSQEntries - 1
         /\ \A i \in 1 .. OSQEntries - 1 : cell'[At(i)'] = cell[At(i + 1)]
<1>1. OSQEntries' = OSQEntries - 1 /\ OSQEntries \in Nat /\ OSQEntries > 0 /\ OSQEntries <= OSQSize
  BY RingAssumption DEF Get, RingInv, RingExact
<1>2. \A i \in 1 .. OSQEntries - 1 : At(i)' = At(i + 1)
  BY <1>1, RingAssumption DEF Get, At, RingInv, RingExact, Cells
<1> QED BY <1>1, <1>2 DEF Get

\* It takes the first message of the buffer.
LEMMA GetRefines ==
  ASSUME RingInv, Get PROVE Buffer!Take
<1> DEFINE item == [i \in 1 .. OSQEntries |-> cell[At(i)]]
<1>1. At(1) = OSQOut
  BY RingAssumption DEF At, RingInv, RingExact, Cells
<1>2. \A i \in 1 .. OSQEntries - 1 : cell'[At(i)'] = item[i + 1]
  <2> TAKE i \in 1 .. OSQEntries - 1
  <2>1. i + 1 \in 1 .. OSQEntries
    BY GetCells
  <2> QED BY <2>1, GetCells
<1>3. 1 \in 1 .. OSQEntries
  BY GetCells
<1> QED BY <1>1, <1>2, <1>3, GetCells DEF Get, Buffer!Take

\* The steps of the ring are those of the buffer.
LEMMA StepRefines ==
  ASSUME RingInv, [RingNext]_ringVars
  PROVE  [Buffer!Next]_<<OSQEntries, [i \in 1 .. OSQEntries |-> cell[At(i)]], taken>>
<1>1. ASSUME NEW m \in Msg, Put(m) PROVE Buffer!Next
  BY <1>1, PutRefines DEF Buffer!Next
<1>2. ASSUME NEW m \in Msg, PutFront(m) PROVE Buffer!Next
  BY <1>2, PutFrontRefines DEF Buffer!Next
<1>3. CASE Get
  BY <1>3, GetRefines DEF Buffer!Next
<1>4. CASE Flush
  <2>1. Buffer!Clear
    BY <1>4 DEF Flush, Buffer!Clear
  <2> QED BY <2>1 DEF Buffer!Next
<1>5. CASE UNCHANGED ringVars
  BY <1>5 DEF ringVars, At
<1> QED BY <1>1, <1>2, <1>3, <1>4, <1>5 DEF RingNext

\* The ring is a bounded buffer in order, for every size.
THEOREM RingImplementsBuffer == RingSpec => ImplementsMsgBuffer
<1>1. RingInit => Buffer!Init
  BY DEF RingInit, Buffer!Init
<1> QED BY <1>1, RingCorrect, StepRefines, PTL DEF RingSpec, ImplementsMsgBuffer, Buffer!Spec

---------------------------------------------------------------------------
\* The application sends each message once, for every size of the ring and any number
\* of messages.

\* m is not among the first k messages of the queue.
Unlike(m, k) == \A i \in 1 .. k : cell[At(i)] # m

\* What the sender knows on its way: the walk has passed messages that are not its own,
\* and a message to be posted is in no cell that is in use, unless the ring is full.
SenderKnows ==
  /\ msg \in Msg /\ pc \in {"idle", "walk", "post"}
  /\ pc = "walk" =>
       OSQEntries > 0 /\ \E k \in 0 .. OSQEntries : msg_q = At(k + 1) /\ Unlike(msg, k)
  /\ pc = "post" => OSQEntries = OSQSize \/ Unlike(msg, OSQEntries)

\* No message is in the queue twice.
Distinct == \A i, j \in 1 .. OSQEntries : i # j => cell[At(i)] # cell[At(j)]

AppInv ==
  /\ RingInv /\ SenderKnows /\ Distinct
  /\ waits => OSQEntries = 0

\* The queue is empty and no call has begun.
LEMMA AppInitInv == AppInit => AppInv
<1>1. RingInit => RingInv
  BY RingInitInv
<1> QED BY <1>1 DEF AppInit, RingInit, AppInv, SenderKnows, Distinct

\* A call begins.
LEMMA SendKeeps == ASSUME AppInv, NEW m \in Msg, SendMsg(m) PROVE AppInv'
<1>1. /\ pc' = (IF OSQEntries = 0 THEN "post" ELSE "walk") /\ msg' = m /\ msg_q' = OSQOut
      /\ UNCHANGED <<OSQIn, OSQOut, OSQEntries, cell, taken, waits>>
  BY DEF SendMsg, ringVars
<1>2. OSQEntries \in Nat /\ At(0 + 1) = OSQOut /\ 0 \in 0 .. OSQEntries
  BY RingAssumption DEF AppInv, RingInv, RingExact, At, Cells
<1>3. UNCHANGED <<RingInv, Distinct>> /\ \A i : At(i)' = At(i)
  BY <1>1 DEF RingInv, RingExact, Distinct, At
<1>4. SenderKnows'
  <2>1. OSQEntries = 0 => Unlike(m, OSQEntries)'
    BY <1>1 DEF Unlike
  <2>2. Unlike(m, 0)'
    BY DEF Unlike
  <2> QED BY <1>1, <1>2, <1>3, <2>1, <2>2 DEF SenderKnows, Unlike
<1> QED BY <1>1, <1>3, <1>4 DEF AppInv

\* Where the walk is, while it has not come to the end.
LEMMA WalkIsAt ==
  ASSUME AppInv, pc = "walk", OSQEntries < OSQSize \/ msg_q # OSQIn
  PROVE  \E k \in 0 .. OSQEntries :
           /\ msg_q = At(k + 1) /\ Unlike(msg, k)
           /\ msg_q = OSQIn <=> k = OSQEntries
<1>1. PICK k \in 0 .. OSQEntries : msg_q = At(k + 1) /\ Unlike(msg, k)
  BY DEF AppInv, SenderKnows
<1>2. OSQEntries \in Nat /\ OSQEntries <= OSQSize /\ OSQIn = At(OSQEntries + 1)
  BY RingAssumption DEF AppInv, RingInv, RingExact
<1>3. ASSUME k # OSQEntries, msg_q = OSQIn PROVE FALSE
  <2>1. k + 1 \in 1 .. OSQSize /\ OSQEntries + 1 \in 1 .. OSQSize /\ k + 1 # OSQEntries + 1
    BY <1>2, <1>3, RingAssumption
  <2> QED BY <1>1, <1>2, <1>3, <2>1, CellsApart DEF AppInv
<1> QED BY <1>1, <1>2, <1>3

\* One turn of the walk.
LEMMA WalkKeeps ==
  ASSUME AppInv, isMsgInQueue PROVE AppInv' /\ (pc' = "idle" => Copies(msg)' = 1)
<1>1. /\ pc = "walk" /\ UNCHANGED <<OSQIn, OSQOut, OSQEntries, cell, taken, msg, waits>>
      /\ pc' = (IF msg_q = OSQIn THEN "post" ELSE IF cell[msg_q] = msg THEN "idle" ELSE "walk")
      /\ msg_q' = (IF pc' # "walk" THEN msg_q ELSE IF msg_q + 1 = OSQSize THEN 0 ELSE msg_q + 1)
  BY DEF isMsgInQueue, ringVars
<1>2. UNCHANGED <<RingInv, Distinct>> /\ \A i : At(i)' = At(i)
  BY <1>1 DEF RingInv, RingExact, Distinct, At
<1>3. OSQEntries \in Nat /\ OSQEntries <= OSQSize /\ OSQEntries > 0
  BY <1>1, RingAssumption DEF AppInv, SenderKnows, RingInv, RingExact
<1>4. CASE msg_q = OSQIn
  <2>1. OSQEntries = OSQSize \/ Unlike(msg, OSQEntries)
    BY <1>1, <1>3, <1>4, WalkIsAt, RingAssumption
  <2>2. SenderKnows'
    BY <1>1, <1>2, <1>4, <2>1 DEF SenderKnows, AppInv, Unlike
  <2> QED BY <1>1, <1>2, <1>4, <2>2 DEF AppInv
<1>5. CASE msg_q # OSQIn
  <2>1. PICK k \in 0 .. OSQEntries : msg_q = At(k + 1) /\ Unlike(msg, k) /\ k # OSQEntries
    BY <1>1, <1>5, WalkIsAt
  <2>2. k + 1 \in 1 .. OSQEntries
    BY <1>3, <2>1
  <2>3. CASE cell[msg_q] = msg
    <3>1. SenderKnows'
      BY <1>1, <1>5, <2>3 DEF SenderKnows, AppInv
    <3>2. {i \in 1 .. OSQEntries : cell[At(i)] = msg} = {k + 1}
      BY <2>1, <2>2, <2>3 DEF AppInv, Distinct
    <3>3. Copies(msg)' = 1
      <4>1. {i \in 1 .. OSQEntries : cell[At(i)] = msg}' = {k + 1}
        BY <1>1, <1>2, <3>2
      <4> QED BY <4>1, FS_Singleton DEF Copies
    <3> QED BY <1>1, <1>2, <3>1, <3>3 DEF AppInv
  <2>4. CASE cell[msg_q] # msg
    <3>1. msg_q' = At((k + 1) + 1)
      BY <1>1, <1>3, <1>5, <2>1, <2>2, <2>4, RingAssumption DEF At, AppInv, RingInv, RingExact, Cells
    <3>2. Unlike(msg, k + 1)
      <4>1. \A i \in 1 .. k + 1 : i \in 1 .. k \/ i = k + 1
        BY <2>2
      <4> QED BY <2>1, <2>4, <4>1 DEF Unlike
    <3>3. SenderKnows'
      <4>1. k + 1 \in 0 .. OSQEntries /\ msg_q' = At((k + 1) + 1)' /\ Unlike(msg, k + 1)'
        BY <1>1, <1>2, <2>2, <3>1, <3>2 DEF Unlike
      <4>2. pc' = "walk" /\ OSQEntries' > 0
        BY <1>1, <1>3, <1>5, <2>4
      <4> QED BY <1>1, <4>1, <4>2 DEF SenderKnows, AppInv
    <3> QED BY <1>1, <1>2, <1>5, <2>4, <3>3 DEF AppInv
  <2> QED BY <2>3, <2>4
<1> QED BY <1>4, <1>5

\* The post.
LEMMA PostKeeps ==
  ASSUME AppInv, PostMsg
  PROVE  /\ AppInv'
         /\ waits \/ OSQEntries < OSQSize => Copies(msg)' = IF waits THEN 0 ELSE 1
<1>1. pc = "post" /\ pc' = "idle" /\ waits' = FALSE /\ UNCHANGED <<msg, msg_q>> /\ msg \in Msg
  BY DEF PostMsg, AppInv, SenderKnows
<1>2. SenderKnows'
  BY <1>1 DEF SenderKnows
<1>3. CASE waits \/ OSQEntries = OSQSize
  <2>1. UNCHANGED <<OSQIn, OSQOut, OSQEntries, cell, taken>>
    BY <1>3 DEF PostMsg, ringVars
  <2>2. UNCHANGED <<RingInv, Distinct>>
    BY <2>1 DEF RingInv, RingExact, Distinct, At
  <2>3. waits => Copies(msg)' = 0
    <3>1. waits => {i \in 1 .. OSQEntries : cell[At(i)] = msg}' = {}
      BY <2>1 DEF AppInv
    <3> QED BY <3>1, FS_EmptySet DEF Copies
  <2>4. OSQEntries = OSQSize => ~(OSQEntries < OSQSize)
    BY RingAssumption
  <2> QED BY <1>1, <1>2, <1>3, <2>2, <2>3, <2>4 DEF AppInv
<1>4. CASE ~waits /\ OSQEntries # OSQSize
  <2>1. Put(msg)
    BY <1>4 DEF PostMsg
  <2>2. RingInv'
    BY <1>1, <2>1, RingStepInv DEF RingNext, AppInv
  <2>3. /\ OSQEntries \in Nat /\ OSQEntries' = OSQEntries + 1 /\ Unlike(msg, OSQEntries)
        /\ \A i \in 1 .. OSQEntries' : cell'[At(i)'] = IF i = OSQEntries' THEN msg ELSE cell[At(i)]
    BY <1>1, <1>4, <2>1, PutCells DEF AppInv, SenderKnows
  <2>4. /\ \A i \in 1 .. OSQEntries' : i # OSQEntries' => i \in 1 .. OSQEntries
        /\ OSQEntries' \in 1 .. OSQEntries'
    BY <2>3
  <2>5. \A i \in 1 .. OSQEntries' : cell'[At(i)'] = msg <=> i = OSQEntries'
    BY <2>3, <2>4 DEF Unlike
  <2>6. Distinct'
    <3>1. ASSUME NEW i \in 1 .. OSQEntries', NEW j \in 1 .. OSQEntries', i # j
          PROVE  cell'[At(i)'] # cell'[At(j)']
      <4>1. CASE i # OSQEntries' /\ j # OSQEntries'
        BY <2>3, <2>4, <3>1, <4>1 DEF Distinct, AppInv
      <4>2. CASE i = OSQEntries' \/ j = OSQEntries'
        BY <2>5, <3>1, <4>2
      <4> QED BY <4>1, <4>2
    <3> QED BY <3>1 DEF Distinct
  <2>7. Copies(msg)' = 1
    <3>1. {i \in 1 .. OSQEntries' : cell'[At(i)'] = msg'} = {OSQEntries'}
      BY <1>1, <2>4, <2>5
    <3> QED BY <3>1, FS_Singleton DEF Copies
  <2> QED BY <1>1, <1>2, <1>4, <2>2, <2>6, <2>7 DEF AppInv
<1> QED BY <1>3, <1>4

\* Task1 runs only while no message is on its way.
LEMMA ReceiveKeeps == ASSUME AppInv, Outranks, ReceiveMsg PROVE AppInv' /\ pc' = "idle" /\ pc = "idle"
<1>1. pc = "idle" /\ UNCHANGED <<pc, msg, msg_q>> /\ ~waits
  BY DEF ReceiveMsg
<1>2. SenderKnows'
  BY <1>1 DEF AppInv, SenderKnows
<1>3. CASE OSQEntries > 0
  <2>1. Get /\ waits' = waits
    BY <1>3 DEF ReceiveMsg
  <2>2. RingInv'
    BY <2>1, RingStepInv DEF RingNext, AppInv
  <2>3. Distinct'
    <3>1. ASSUME NEW i \in 1 .. OSQEntries', NEW j \in 1 .. OSQEntries', i # j
          PROVE  cell'[At(i)'] # cell'[At(j)']
      <4>1. /\ i \in 1 .. OSQEntries - 1 /\ j \in 1 .. OSQEntries - 1
            /\ i + 1 \in 1 .. OSQEntries /\ j + 1 \in 1 .. OSQEntries /\ i + 1 # j + 1
        BY <2>1, <3>1, GetCells DEF AppInv
      <4> QED BY <2>1, <4>1, GetCells DEF AppInv, Distinct
    <3> QED BY <3>1 DEF Distinct
  <2> QED BY <1>1, <1>2, <2>1, <2>2, <2>3 DEF AppInv
<1>4. CASE ~(OSQEntries > 0)
  <2>1. UNCHANGED <<OSQIn, OSQOut, OSQEntries, cell, taken>>
    BY <1>4 DEF ReceiveMsg, ringVars
  <2>2. UNCHANGED <<RingInv, Distinct>>
    BY <2>1 DEF RingInv, RingExact, Distinct, At
  <2>3. OSQEntries' = 0
    BY <1>4, <2>1, RingAssumption DEF AppInv, RingInv, RingExact
  <2> QED BY <1>1, <1>2, <2>2, <2>3 DEF AppInv
<1> QED BY <1>3, <1>4

\* Where the sender outranks the receiver (Task0 of main.c does), a message that
\* sendMsgQueue has sent is in the queue once, or Task1 has it.
THEOREM MessagesSentOnce == ASSUME Outranks PROVE AppSpec => SentOnce
<1> DEFINE Once == Sent => Copies(msg)' = IF pc = "post" /\ waits THEN 0 ELSE 1
<1>1. AppInv /\ [AppNext]_<<ringVars, appVars>> => AppInv' /\ [Once]_<<ringVars, appVars>>
  <2> SUFFICES ASSUME AppInv, [AppNext]_<<ringVars, appVars>> PROVE AppInv' /\ [Once]_<<ringVars, appVars>>
    OBVIOUS
  <2>1. ASSUME NEW m \in Msg, SendMsg(m) PROVE AppInv' /\ Once
    <3>1. pc = "idle"
      BY <2>1 DEF SendMsg
    <3> QED BY <2>1, <3>1, SendKeeps DEF Sent
  <2>2. CASE isMsgInQueue
    <3>1. pc = "walk"
      BY <2>2 DEF isMsgInQueue
    <3> QED BY <2>2, <3>1, WalkKeeps DEF Sent
  <2>3. CASE PostMsg
    <3>1. pc = "post"
      BY <2>3 DEF PostMsg
    <3> QED BY <2>3, <3>1, PostKeeps DEF Sent
  <2>4. CASE ReceiveMsg
    BY <2>4, ReceiveKeeps DEF Sent
  <2>5. CASE UNCHANGED <<ringVars, appVars>>
    <3>1. AppInv'
      BY <2>5 DEF ringVars, appVars, AppInv, SenderKnows, Unlike, Distinct, RingInv, RingExact, At
    <3> QED BY <2>5, <3>1
  <2> QED BY <2>1, <2>2, <2>3, <2>4, <2>5 DEF AppNext
<1> QED BY <1>1, AppInitInv, PTL DEF AppSpec, SentOnce

---------------------------------------------------------------------------
\* A memory partition is a pool of blocks, for any number of blocks and
\* whatever their owners write into them.  The list of free blocks needs
\* no induction: chain names its elements one by one.

\* The inductive invariant: the list is exact, and the variables have their types.
MemInv ==
  /\ MemExact
  /\ out \subseteq Block /\ IsFiniteSet(out)
  /\ chain \in [Block -> Block]
  /\ DOMAIN link = Block

\* The blocks are numbered.
LEMMA BlocksNumbered ==
  /\ OSMemNBlks \in Nat /\ OSMemNBlks >= 2
  /\ Block = 1 .. OSMemNBlks
  /\ Null \notin Block
BY MemAssumption DEF Block

\* OSMemCreate's list satisfies MemInv.
LEMMA MemInitInv == MemInit => MemInv
<1> SUFFICES ASSUME MemInit PROVE MemInv
  OBVIOUS
<1> DEFINE n == OSMemNBlks
<1>1. n \in Nat /\ n >= 2 /\ Block = 1 .. n
  BY BlocksNumbered
<1> HIDE DEF n
<1>2. chain = [i \in 1 .. n |-> n + 1 - i] /\ OSMemNFree = n /\ OSMemFreeList = 1
      /\ link = [b \in 1 .. n |-> IF b = n THEN Null ELSE b + 1] /\ out = {}
  BY <1>1 DEF MemInit, n
<1>3. chain \in [Block -> Block]
  BY <1>1, <1>2
<1>4. \A i \in 1 .. n : chain[i] \in Block \ out
  BY <1>1, <1>2
<1>5. \A i \in 1 .. n : link[chain[i]] = IF i = 1 THEN Null ELSE chain[i - 1]
  <2> TAKE i \in 1 .. n
  <2>1. chain[i] = n + 1 - i /\ n + 1 - i \in 1 .. n
    BY <1>1, <1>2
  <2>2. CASE i = 1
    BY <1>1, <1>2, <2>1, <2>2
  <2>3. CASE i # 1
    <3>1. i - 1 \in 1 .. n /\ n + 1 - i # n
      BY <1>1, <2>3
    <3>2. chain[i - 1] = n + 1 - (i - 1)
      BY <3>1, <1>2
    <3>3. link[n + 1 - i] = n + 1 - i + 1
      BY <3>1, <2>1, <1>2
    <3> QED BY <3>2, <3>3, <2>1, <2>3, <1>1
  <2> QED BY <2>2, <2>3
<1>6. \A i, j \in 1 .. n : chain[i] = chain[j] => i = j
  BY <1>1, <1>2
<1>7. Cardinality(out) = 0 /\ IsFiniteSet(out)
  BY <1>2, FS_EmptySet
<1>8. OSMemFreeList = chain[n]
  BY <1>1, <1>2
<1>9. out \subseteq Block /\ DOMAIN link = Block
  BY <1>1, <1>2
<1> QED BY <1>1, <1>2, <1>3, <1>4, <1>5, <1>6, <1>7, <1>8, <1>9 DEF MemInv, MemExact, n

\* The block that OSMemGet hands out is the last of chain, and nobody's.
LEMMA HeadIsFree ==
  ASSUME MemInv, OSMemNFree > 0
  PROVE  /\ OSMemNFree \in 1 .. OSMemNBlks
         /\ OSMemFreeList = chain[OSMemNFree]
         /\ OSMemFreeList \in Block \ out
BY BlocksNumbered DEF MemInv, MemExact

\* OSMemGet keeps MemInv.
LEMMA GetStep == ASSUME MemInv, OSMemGet PROVE MemInv'
<1> DEFINE n == OSMemNBlks
           k == OSMemNFree
           h == OSMemFreeList
<1>1. n \in Nat /\ n >= 2 /\ Block = 1 .. n
  BY BlocksNumbered
<1>2. k \in 1 .. n /\ h = chain[k] /\ h \in Block \ out
  BY HeadIsFree DEF OSMemGet
<1>3. k' = k - 1 /\ out' = out \cup {h} /\ chain' = chain /\ link' = link /\ h' = link[h]
  BY DEF OSMemGet
<1>4. \A i \in 1 .. k : /\ chain[i] \in Block \ out
                        /\ link[chain[i]] = IF i = 1 THEN Null ELSE chain[i - 1]
                        /\ \A j \in 1 .. k : chain[i] = chain[j] => i = j
  BY DEF MemInv, MemExact
<1>5. IsFiniteSet(out) /\ out \subseteq Block /\ Cardinality(out) + k = n
  BY DEF MemInv, MemExact
<1>6. Cardinality(out') = Cardinality(out) + 1 /\ IsFiniteSet(out') /\ Cardinality(out) \in Nat
  BY <1>2, <1>3, <1>5, FS_AddElement, FS_CardinalityType
<1> HIDE DEF n, k, h
<1>7. k' \in 0 .. n /\ Cardinality(out') + k' = n
  BY <1>1, <1>2, <1>3, <1>5, <1>6
<1>8. h' = IF k' = 0 THEN Null ELSE chain'[k']
  <2>1. h' = IF k = 1 THEN Null ELSE chain[k - 1]
    BY <1>2, <1>3, <1>4
  <2>2. k = 1 <=> k' = 0
    BY <1>1, <1>2, <1>3
  <2> QED BY <2>1, <2>2, <1>3
<1>9. \A i \in 1 .. k' :
        /\ chain'[i] \in Block \ out'
        /\ link'[chain'[i]] = IF i = 1 THEN Null ELSE chain'[i - 1]
        /\ \A j \in 1 .. k' : chain'[i] = chain'[j] => i = j
  <2>1. \A i \in 1 .. k' : i \in 1 .. k /\ i # k
    BY <1>1, <1>2, <1>3
  <2>2. k \in 1 .. k
    BY <1>1, <1>2
  <2> QED BY <2>1, <2>2, <1>2, <1>3, <1>4
<1>10. out' \subseteq Block
  BY <1>2, <1>3, <1>5
<1>11. chain' \in [Block -> Block] /\ DOMAIN link' = Block
  BY <1>3 DEF MemInv
<1> QED
  <2>1. MemExact'
    <3>1. OSMemNBlks' = OSMemNBlks
      OBVIOUS
    <3> QED BY <3>1, <1>7, <1>8, <1>9 DEF MemExact, n, k, h
  <2> QED BY <2>1, <1>6, <1>10, <1>11 DEF MemInv

\* OSMemPut of a block that is out keeps MemInv.
LEMMA PutStep == ASSUME MemInv, NEW b \in out, OSMemPut(b) PROVE MemInv'
<1> DEFINE n == OSMemNBlks
           k == OSMemNFree
           h == OSMemFreeList
<1>1. n \in Nat /\ n >= 2 /\ Block = 1 .. n
  BY BlocksNumbered
<1>2. k \in 0 .. n /\ k < n /\ k + 1 \in Block /\ b \in Block
  BY <1>1 DEF OSMemPut, MemInv, MemExact
<1>3. /\ k' = k + 1 /\ out' = out \ {b} /\ h' = b
      /\ chain' = [chain EXCEPT ![k + 1] = b] /\ link' = [link EXCEPT ![b] = h]
  BY DEF OSMemPut
<1>4. \A i \in 1 .. k : /\ chain[i] \in Block \ out
                        /\ link[chain[i]] = IF i = 1 THEN Null ELSE chain[i - 1]
                        /\ \A j \in 1 .. k : chain[i] = chain[j] => i = j
  BY DEF MemInv, MemExact
<1>5. /\ IsFiniteSet(out) /\ out \subseteq Block /\ Cardinality(out) + k = n
      /\ h = IF k = 0 THEN Null ELSE chain[k]
      /\ chain \in [Block -> Block] /\ DOMAIN link = Block
  BY DEF MemInv, MemExact
<1>6. Cardinality(out') = Cardinality(out) - 1 /\ IsFiniteSet(out') /\ Cardinality(out) \in Nat
  BY <1>3, <1>5, FS_RemoveElement, FS_CardinalityType
<1> HIDE DEF n, k, h
<1>7. k' \in 0 .. n /\ Cardinality(out') + k' = n
  BY <1>1, <1>2, <1>3, <1>5, <1>6
<1>8. chain' \in [Block -> Block] /\ DOMAIN link' = Block /\ out' \subseteq Block
  BY <1>2, <1>3, <1>5
<1>9. chain'[k + 1] = b /\ \A i \in 1 .. k : chain'[i] = chain[i]
  <2>1. \A i \in 1 .. k : i \in Block /\ i # k + 1
    BY <1>1, <1>2
  <2> QED BY <2>1, <1>2, <1>3, <1>5
<1>10. link'[b] = h /\ \A i \in 1 .. k : link'[chain[i]] = link[chain[i]] /\ chain[i] # b
  BY <1>2, <1>3, <1>4, <1>5
<1>11. \A i \in 1 .. k' : i = k + 1 \/ i \in 1 .. k
  BY <1>1, <1>2, <1>3
<1>12. \A i \in 1 .. k' : chain'[i] \in Block \ out'
  BY <1>2, <1>3, <1>4, <1>9, <1>11
<1>13. \A i, j \in 1 .. k' : chain'[i] = chain'[j] => i = j
  BY <1>4, <1>9, <1>10, <1>11
<1>14. \A i \in 1 .. k' : link'[chain'[i]] = IF i = 1 THEN Null ELSE chain'[i - 1]
  <2> TAKE i \in 1 .. k'
  <2>1. CASE i = k + 1
    <3>1. CASE k = 0
      BY <3>1, <2>1, <1>5, <1>9, <1>10
    <3>2. CASE k # 0
      <4>1. k \in 1 .. k /\ i # 1 /\ i - 1 = k
        BY <3>2, <2>1, <1>1, <1>2
      <4> QED BY <4>1, <3>2, <2>1, <1>5, <1>9, <1>10
    <3> QED BY <3>1, <3>2
  <2>2. CASE i \in 1 .. k
    <3>1. CASE i = 1
      BY <3>1, <2>2, <1>4, <1>9, <1>10
    <3>2. CASE i # 1
      <4>1. i - 1 \in 1 .. k
        BY <3>2, <2>2, <1>1, <1>2
      <4> QED BY <4>1, <3>2, <2>2, <1>4, <1>9, <1>10
    <3> QED BY <3>1, <3>2
  <2> QED BY <2>1, <2>2, <1>11
<1>15. h' = IF k' = 0 THEN Null ELSE chain'[k']
  BY <1>1, <1>2, <1>3, <1>9
<1> QED
  <2>1. OSMemNBlks' = OSMemNBlks
    OBVIOUS
  <2>2. MemExact'
    BY <2>1, <1>7, <1>12, <1>13, <1>14, <1>15 DEF MemExact, n, k, h
  <2> QED BY <2>2, <1>6, <1>8 DEF MemInv

\* An owner's data is in no free block.
LEMMA UseStep ==
  ASSUME MemInv, NEW b \in out, NEW d \in Data, Use(b, d) PROVE MemInv'
<1>1. \A i \in 1 .. OSMemNFree : chain[i] # b /\ link'[chain[i]] = link[chain[i]]
  BY DEF Use, MemInv, MemExact
<1>2. DOMAIN link' = Block
  BY DEF Use, MemInv
<1>3. OSMemNBlks' = OSMemNBlks
  OBVIOUS
<1>4. UNCHANGED <<OSMemFreeList, OSMemNFree, out, chain>>
  BY DEF Use
<1> QED BY <1>1, <1>2, <1>3, <1>4 DEF MemInv, MemExact

\* Every step keeps MemInv.
LEMMA MemStepInv == MemInv /\ [MemNext]_memVars => MemInv'
<1> SUFFICES ASSUME MemInv, [MemNext]_memVars PROVE MemInv'
  OBVIOUS
<1>1. CASE UNCHANGED memVars
  BY <1>1 DEF memVars, MemInv, MemExact
<1> QED BY <1>1, GetStep, PutStep, UseStep DEF MemNext

\* MemInv is an invariant.
LEMMA MemCorrect == MemSpec => []MemInv
BY MemInitInv, MemStepInv, PTL DEF MemSpec

\* The list of free blocks holds each free block once and ends, for any number of
\* blocks, and an owner's put is never refused.
THEOREM FreeBlocksExact == MemSpec => []MemExact
<1>1. MemInv => MemExact
  BY DEF MemInv
<1> QED BY <1>1, MemCorrect, PTL

\* No block is ever handed out twice: the partition is a pool of blocks.
THEOREM MemImplementsPool == MemSpec => ImplementsBlockPool
<1>1. MemInit => Pool!Init
  BY DEF MemInit, Pool!Init
<1>2. ASSUME MemInv, [MemNext]_memVars PROVE [Pool!Next]_<<Block \ out, out, OSMemNFree>>
  <2>1. CASE OSMemGet
    <3>1. OSMemFreeList \in Block \ out /\ out' = out \cup {OSMemFreeList}
      BY <1>2, <2>1, HeadIsFree DEF OSMemGet
    <3>2. Block \ out' = (Block \ out) \ {OSMemFreeList}
      BY <3>1
    <3> QED BY <2>1, <3>1, <3>2 DEF Pool!Next, Pool!Get, OSMemGet
  <2>2. ASSUME NEW b \in out, OSMemPut(b) PROVE Pool!Next
    <3>1. b \in Block /\ out' = out \ {b} /\ OSMemNFree' = OSMemNFree + 1
      BY <1>2, <2>2 DEF OSMemPut, MemInv
    <3>2. Block \ out' = (Block \ out) \cup {b}
      BY <3>1
    <3> QED BY <3>1, <3>2 DEF Pool!Next, Pool!Put
  <2>3. ASSUME NEW b \in out, NEW d \in Data, Use(b, d) PROVE UNCHANGED <<Block \ out, out, OSMemNFree>>
    BY <2>3 DEF Use
  <2>4. CASE UNCHANGED memVars
    BY <2>4 DEF memVars
  <2> QED BY <1>2, <2>1, <2>2, <2>3, <2>4 DEF MemNext
<1> QED BY <1>1, <1>2, MemCorrect, PTL DEF MemSpec, ImplementsBlockPool, Pool!Spec

---------------------------------------------------------------------------
\* The links of the wait list are always the order the nodes came in, and
\* so the list, with its walks, implements a set of waiting nodes; both
\* for any number of nodes.

ListTypeOK ==
  /\ linked \subseteq Node
  /\ OSFlagWaitList \in Node \cup {NullNode}
  /\ OSFlagNodeNext \in [Node -> Node \cup {NullNode}]
  /\ OSFlagNodePrev \in [Node -> Node \cup {NullNode}]
  /\ older \in [Node -> SUBSET Node]
  /\ pnode \in linked \cup {NullNode}

ListInv == ListTypeOK /\ LinksExact

-----------------------------------------------------------------------------
\* No list is a ring: no linked node is its own neighbour, and the node that
\* follows n does not have n behind it.
LEMMA NoRing ==
  ASSUME ListInv, NEW n \in linked
  PROVE  /\ OSFlagNodeNext[n] # n /\ OSFlagNodePrev[n] # n
         /\ OSFlagNodeNext[n] # NullNode => n \notin older[OSFlagNodeNext[n]]
BY NodeAssumption DEF ListInv, ListTypeOK, LinksExact

\* What an unlinking leaves of the older ones, where the node was not among them.
LEMMA NotAmong ==
  ASSUME ListInv, NEW n \in Node, NEW m \in Node, n \notin older[m],
         older' = [k \in Node |-> older[k] \ {n}]
  PROVE  older'[m] = older[m]
<1>1. older'[m] = older[m] \ {n}
  OBVIOUS
<1> QED BY <1>1

\* A new node in front keeps the order (OS_FlagBlock).
LEMMA BlockKeeps ==
  ASSUME ListInv, NEW n \in Node, OS_FlagBlock(n)
  PROVE  ListInv'
<1> USE NodeAssumption
<1>1. ListTypeOK'
  BY DEF ListInv, ListTypeOK, OS_FlagBlock
<1>2. (OSFlagWaitList \in linked /\ linked = {n} \cup linked => FALSE) /\ OSFlagWaitList # n
  BY DEF ListInv, ListTypeOK, LinksExact, OS_FlagBlock
<1>3. /\ linked' # {} /\ OSFlagWaitList' \in linked'
      /\ linked' = {OSFlagWaitList'} \cup older'[OSFlagWaitList']
      /\ OSFlagNodePrev'[OSFlagWaitList'] = NullNode
  BY DEF ListInv, ListTypeOK, OS_FlagBlock
<1>4. ASSUME NEW m \in linked' PROVE
       /\ m \notin older'[m]
       /\ OSFlagNodeNext'[m] = NullNode => older'[m] = {}
       /\ OSFlagNodeNext'[m] # NullNode =>
            /\ OSFlagNodeNext'[m] \in linked'
            /\ older'[m] = {OSFlagNodeNext'[m]} \cup older'[OSFlagNodeNext'[m]]
            /\ OSFlagNodePrev'[OSFlagNodeNext'[m]] = m
       /\ OSFlagNodePrev'[m] = NullNode => OSFlagWaitList' = m
       /\ OSFlagNodePrev'[m] # NullNode =>
            OSFlagNodePrev'[m] \in linked' /\ OSFlagNodeNext'[OSFlagNodePrev'[m]] = m
  <2>1. CASE m = n
    BY <1>4, <2>1, <1>2 DEF ListInv, ListTypeOK, LinksExact, OS_FlagBlock
  <2>2. CASE m # n
    <3>1. m \in linked /\ older'[m] = older[m] /\ OSFlagNodeNext'[m] = OSFlagNodeNext[m]
      BY <1>4, <2>2 DEF ListInv, ListTypeOK, OS_FlagBlock
    <3>2. OSFlagNodeNext[m] # NullNode => OSFlagNodeNext[m] # n /\ OSFlagNodeNext[m] # OSFlagWaitList
      BY <3>1 DEF ListInv, ListTypeOK, LinksExact, OS_FlagBlock
    <3>3. OSFlagNodePrev'[m] = IF m = OSFlagWaitList THEN n ELSE OSFlagNodePrev[m]
      BY <2>2, <3>1 DEF ListInv, ListTypeOK, OS_FlagBlock
    <3> QED
      BY <3>1, <3>2, <3>3, <2>2 DEF ListInv, ListTypeOK, LinksExact, OS_FlagBlock
  <2> QED BY <2>1, <2>2
<1> QED BY <1>1, <1>3, <1>4 DEF ListInv, LinksExact

\* Taking a node out, wherever it is, keeps the order of the others (OS_FlagUnlink).
LEMMA UnlinkKeeps ==
  ASSUME ListInv, NEW n \in linked, OS_FlagUnlink(n), pnode' \in linked' \cup {NullNode}
  PROVE  ListInv'
<1> USE NodeAssumption
<1>1. ListTypeOK'
  BY DEF ListInv, ListTypeOK, OS_FlagUnlink
<1>2. /\ OSFlagNodeNext[n] # n /\ OSFlagNodePrev[n] # n
      /\ OSFlagNodeNext[n] # NullNode => n \notin older[OSFlagNodeNext[n]]
  BY NoRing
<1>3. IF linked' = {} THEN OSFlagWaitList' = NullNode
      ELSE /\ OSFlagWaitList' \in linked'
           /\ linked' = {OSFlagWaitList'} \cup older'[OSFlagWaitList']
           /\ OSFlagNodePrev'[OSFlagWaitList'] = NullNode
  <2>1. CASE OSFlagNodePrev[n] = NullNode
    <3>1. OSFlagWaitList = n /\ linked' = older[n] /\ OSFlagWaitList' = OSFlagNodeNext[n]
      BY <2>1 DEF ListInv, ListTypeOK, LinksExact, OS_FlagUnlink
    <3>2. CASE OSFlagNodeNext[n] = NullNode
      BY <3>1, <3>2 DEF ListInv, ListTypeOK, LinksExact
    <3>3. CASE OSFlagNodeNext[n] # NullNode
      <4>1. OSFlagNodePrev'[OSFlagNodeNext[n]] = NullNode
        BY <2>1, <3>3 DEF ListInv, ListTypeOK, OS_FlagUnlink
      <4>2. older'[OSFlagNodeNext[n]] = older[OSFlagNodeNext[n]]
        <5>1. n \in Node /\ OSFlagNodeNext[n] \in Node
          BY <3>3 DEF ListInv, ListTypeOK
        <5> QED BY <5>1, <1>2, <3>3, NotAmong DEF OS_FlagUnlink
      <4> QED BY <3>1, <3>3, <4>1, <4>2 DEF ListInv, ListTypeOK, LinksExact
    <3> QED BY <3>2, <3>3
  <2>2. CASE OSFlagNodePrev[n] # NullNode
    <3>1. OSFlagWaitList' = OSFlagWaitList /\ OSFlagWaitList # n /\ OSFlagWaitList \in linked
      BY <2>2 DEF ListInv, ListTypeOK, LinksExact, OS_FlagUnlink
    <3>2. OSFlagNodeNext[n] # OSFlagWaitList
      BY <3>1, <1>2 DEF ListInv, ListTypeOK, LinksExact
    <3> QED BY <3>1, <3>2 DEF ListInv, ListTypeOK, LinksExact, OS_FlagUnlink
  <2> QED BY <2>1, <2>2
<1>4. ASSUME NEW m \in linked' PROVE
       /\ m \notin older'[m]
       /\ OSFlagNodeNext'[m] = NullNode => older'[m] = {}
       /\ OSFlagNodeNext'[m] # NullNode =>
            /\ OSFlagNodeNext'[m] \in linked'
            /\ older'[m] = {OSFlagNodeNext'[m]} \cup older'[OSFlagNodeNext'[m]]
            /\ OSFlagNodePrev'[OSFlagNodeNext'[m]] = m
       /\ OSFlagNodePrev'[m] = NullNode => OSFlagWaitList' = m
       /\ OSFlagNodePrev'[m] # NullNode =>
            OSFlagNodePrev'[m] \in linked' /\ OSFlagNodeNext'[OSFlagNodePrev'[m]] = m
  <2>1. m \in linked /\ m # n /\ older'[m] = older[m] \ {n}
    BY <1>4 DEF ListInv, ListTypeOK, OS_FlagUnlink
  <2>2. OSFlagNodeNext'[m] = IF m = OSFlagNodePrev[n] THEN OSFlagNodeNext[n]
                             ELSE OSFlagNodeNext[m]
    BY <2>1 DEF ListInv, ListTypeOK, OS_FlagUnlink
  <2>3. OSFlagNodePrev'[m] = IF m = OSFlagNodeNext[n] THEN OSFlagNodePrev[n]
                             ELSE OSFlagNodePrev[m]
    BY <2>1 DEF ListInv, ListTypeOK, OS_FlagUnlink
  <2>4. /\ OSFlagNodeNext'[m] = NullNode => older'[m] = {}
        /\ OSFlagNodeNext'[m] # NullNode =>
             /\ OSFlagNodeNext'[m] \in linked'
             /\ older'[m] = {OSFlagNodeNext'[m]} \cup older'[OSFlagNodeNext'[m]]
             /\ OSFlagNodePrev'[OSFlagNodeNext'[m]] = m
    <3>1. CASE m = OSFlagNodePrev[n]
      <4>1. OSFlagNodeNext[m] = n /\ older[m] \ {n} = older[n]
        BY <3>1, <2>1 DEF ListInv, ListTypeOK, LinksExact
      <4>2. CASE OSFlagNodeNext[n] = NullNode
        BY <4>1, <4>2, <2>1, <2>2, <3>1 DEF ListInv, ListTypeOK, LinksExact
      <4>3. CASE OSFlagNodeNext[n] # NullNode
        <5>1. OSFlagNodeNext[n] \in linked' /\ older'[OSFlagNodeNext[n]] = older[OSFlagNodeNext[n]]
          <6>1. n \in Node /\ OSFlagNodeNext[n] \in Node /\ OSFlagNodeNext[n] \in linked
            BY <4>3 DEF ListInv, ListTypeOK, LinksExact
          <6> QED BY <6>1, <1>2, <4>3, NotAmong DEF OS_FlagUnlink
        <5>2. OSFlagNodePrev'[OSFlagNodeNext[n]] = m
          BY <4>3, <3>1 DEF ListInv, ListTypeOK, OS_FlagUnlink
        <5> QED BY <5>1, <5>2, <4>1, <4>3, <2>1, <2>2, <3>1 DEF ListInv, ListTypeOK, LinksExact
      <4> QED BY <4>2, <4>3
    <3>2. CASE m # OSFlagNodePrev[n]
      <4>1. OSFlagNodeNext[m] # n
        BY <3>2, <2>1 DEF ListInv, ListTypeOK, LinksExact
      <4>2. CASE OSFlagNodeNext[m] = NullNode
        BY <4>2, <2>1, <2>2, <3>2 DEF ListInv, ListTypeOK, LinksExact
      <4>3. CASE OSFlagNodeNext[m] # NullNode
        <5>1. OSFlagNodeNext[m] \in linked' /\ OSFlagNodeNext[m] # OSFlagNodeNext[n]
          BY <4>1, <4>3, <2>1 DEF ListInv, ListTypeOK, LinksExact, OS_FlagUnlink
        <5>2. older'[m] = {OSFlagNodeNext[m]} \cup older'[OSFlagNodeNext[m]]
          BY <4>1, <4>3, <2>1, <5>1 DEF ListInv, ListTypeOK, LinksExact, OS_FlagUnlink
        <5>3. OSFlagNodePrev'[OSFlagNodeNext[m]] = m
          BY <4>3, <2>1, <5>1 DEF ListInv, ListTypeOK, LinksExact, OS_FlagUnlink
        <5> QED BY <5>1, <5>2, <5>3, <4>3, <3>2, <2>2
      <4> QED BY <4>2, <4>3
    <3> QED BY <3>1, <3>2
  <2>5. /\ OSFlagNodePrev'[m] = NullNode => OSFlagWaitList' = m
        /\ OSFlagNodePrev'[m] # NullNode =>
             OSFlagNodePrev'[m] \in linked' /\ OSFlagNodeNext'[OSFlagNodePrev'[m]] = m
    <3>1. CASE m = OSFlagNodeNext[n]
      BY <3>1, <2>1, <2>3, <1>2 DEF ListInv, ListTypeOK, LinksExact, OS_FlagUnlink
    <3>2. CASE m # OSFlagNodeNext[n]
      <4>1. OSFlagNodePrev[m] # n
        BY <3>2, <2>1 DEF ListInv, ListTypeOK, LinksExact
      <4>2. CASE OSFlagNodePrev[m] = NullNode
        BY <4>2, <3>2, <2>1, <2>3 DEF ListInv, ListTypeOK, LinksExact, OS_FlagUnlink
      <4>3. CASE OSFlagNodePrev[m] # NullNode
        <5>1. OSFlagNodePrev[m] \in linked' /\ OSFlagNodePrev[m] # OSFlagNodePrev[n]
          BY <4>1, <4>3, <2>1 DEF ListInv, ListTypeOK, LinksExact, OS_FlagUnlink
        <5>2. OSFlagNodeNext'[OSFlagNodePrev[m]] = m
          BY <4>3, <2>1, <5>1 DEF ListInv, ListTypeOK, LinksExact, OS_FlagUnlink
        <5> QED BY <5>1, <5>2, <4>3, <3>2, <2>3
      <4> QED BY <4>2, <4>3
    <3> QED BY <3>1, <3>2
  <2>6. m \notin older'[m]
    BY <2>1 DEF ListInv, LinksExact
  <2> QED BY <2>4, <2>5, <2>6
<1> QED BY <1>1, <1>3, <1>4 DEF ListInv, LinksExact

\* One turn of a walk: the walk is at a node, goes to the one after it, and the nodes
\* it has still to see are those older than the one it was at.
LEMMA TurnGoesOn ==
  ASSUME ListInv, Turn
  PROVE  /\ pnode \in linked /\ pnode' \in linked' \cup {NullNode}
         /\ (IF pnode' = NullNode THEN {} ELSE {pnode'} \cup older'[pnode']) = older[pnode]
         /\ linked' \in {linked, linked \ {pnode}}
<1> USE NodeAssumption
<1>1. pnode \in linked
  BY DEF ListInv, ListTypeOK, Turn
<1>2. OSFlagNodeNext'[pnode] = OSFlagNodeNext[pnode]
  BY <1>1, NoRing DEF ListInv, ListTypeOK, Turn, OS_FlagUnlink
<1>3. pnode' = OSFlagNodeNext[pnode] /\ pnode' # pnode
  BY <1>1, <1>2, NoRing DEF Turn
<1>4. pnode' # NullNode => older'[pnode'] = older[pnode']
  <2>1. pnode \in Node /\ (pnode' # NullNode => pnode' \in Node /\ pnode \notin older[pnode'])
    BY <1>1, <1>3, NoRing DEF ListInv, ListTypeOK
  <2>2. CASE OS_FlagUnlink(pnode)
    BY <2>1, <2>2, NotAmong DEF OS_FlagUnlink
  <2> QED BY <2>2 DEF Turn
<1>5. linked' \in {linked, linked \ {pnode}}
  BY DEF Turn, OS_FlagUnlink
<1>6. pnode' \in linked' \cup {NullNode}
  BY <1>1, <1>3, <1>5 DEF ListInv, ListTypeOK, LinksExact
<1>7. (IF pnode' = NullNode THEN {} ELSE {pnode'} \cup older'[pnode']) = older[pnode]
  <2>1. pnode' = NullNode => older[pnode] = {}
    BY <1>1, <1>3 DEF ListInv, LinksExact
  <2>2. pnode' # NullNode => older[pnode] = {pnode'} \cup older[pnode']
    BY <1>1, <1>3 DEF ListInv, LinksExact
  <2> QED BY <2>1, <2>2, <1>4
<1> QED BY <1>1, <1>5, <1>6, <1>7

\* ListInv holds in the initial states.
LEMMA ListInvInit == ListInit => ListInv
BY NodeAssumption DEF ListInit, ListInv, ListTypeOK, LinksExact

\* Every step keeps ListInv.
LEMMA ListInvNext == ListInv /\ [ListNext]_listVars => ListInv'
<1> SUFFICES ASSUME ListInv, [ListNext]_listVars PROVE ListInv'
  OBVIOUS
<1>1. CASE UNCHANGED listVars
  BY <1>1 DEF ListInv, ListTypeOK, LinksExact, listVars
<1>2. CASE Walk
  BY <1>2, NodeAssumption DEF ListInv, ListTypeOK, LinksExact, Walk
<1>3. CASE Turn
  <2>1. pnode \in linked /\ pnode' \in linked' \cup {NullNode}
    BY <1>3, TurnGoesOn
  <2>2. CASE OS_FlagUnlink(pnode)
    BY <2>1, <2>2, UnlinkKeeps
  <2>3. CASE UNCHANGED <<OSFlagWaitList, OSFlagNodeNext, OSFlagNodePrev, linked, older>>
    BY <2>1, <2>3 DEF ListInv, ListTypeOK, LinksExact
  <2> QED BY <1>3, <2>2, <2>3 DEF Turn
<1>4. ASSUME NEW n \in Node, OS_FlagBlock(n) PROVE ListInv'
  BY <1>4, BlockKeeps
<1>5. ASSUME NEW n \in Node, GiveUp(n) PROVE ListInv'
  BY <1>5, UnlinkKeeps DEF GiveUp
<1> QED BY <1>1, <1>2, <1>3, <1>4, <1>5 DEF ListNext

-----------------------------------------------------------------------------
\* The links of the wait list are the order its nodes were put in, forwards and back,
\* whatever was taken out and wherever.
THEOREM LinksStayExact == ListSpec => []LinksExact
<1>1. ListInv => LinksExact
  BY DEF ListInv
<1> QED BY <1>1, ListInvInit, ListInvNext, PTL DEF ListSpec

\* The wait list with its walks implements a set of waiting nodes: a post looks at
\* every node that waits, and at each of them once.
THEOREM ListImplementsSet == ListSpec => ImplementsWaitSet
<1> USE NodeAssumption
<1>1. ListInit => WaitSet!Init
  BY DEF ListInit, WaitSet!Init
<1>2. ListInv /\ [ListNext]_listVars
      => [WaitSet!Next]_<<linked, IF pnode = NullNode THEN {} ELSE {pnode} \cup older[pnode]>>
  <2> SUFFICES ASSUME ListInv, [ListNext]_listVars
               PROVE  [WaitSet!Next]_<<linked, IF pnode = NullNode THEN {} ELSE {pnode} \cup older[pnode]>>
    OBVIOUS
  <2>1. CASE UNCHANGED listVars
    BY <2>1 DEF listVars
  <2>2. CASE Walk
    <3>1. WaitSet!Begin \/ UNCHANGED <<linked, pnode, older>>
      BY <2>2 DEF Walk, WaitSet!Begin, ListInv, ListTypeOK, LinksExact
    <3> QED BY <3>1 DEF WaitSet!Next
  <2>3. CASE Turn
    <3>1. /\ pnode \in linked /\ pnode # NullNode /\ pnode \notin older[pnode] /\ pnode \in Node
      BY <2>3, TurnGoesOn DEF Turn, ListInv, ListTypeOK, LinksExact
    <3>2. WaitSet!Look(pnode)
      BY <2>3, <3>1, TurnGoesOn DEF WaitSet!Look
    <3> QED BY <3>1, <3>2 DEF WaitSet!Next
  <2>4. ASSUME NEW n \in Node, OS_FlagBlock(n) PROVE WaitSet!Join(n)
    BY <2>4 DEF OS_FlagBlock, WaitSet!Join
  <2>5. ASSUME NEW n \in Node, GiveUp(n) PROVE WaitSet!Leave(n)
    BY <2>5 DEF GiveUp, OS_FlagUnlink, WaitSet!Leave
  <2> QED BY <2>1, <2>2, <2>3, <2>4, <2>5 DEF ListNext, WaitSet!Next
<1> QED BY <1>1, <1>2, ListInvInit, ListInvNext, PTL DEF ListSpec, ImplementsWaitSet, WaitSet!Spec

---------------------------------------------------------------------------
\* OSTimeDlyHMSM: the delays made of the two counters add up to the whole.

\* Products and quotients that the prover does not find by itself.
LEMMA TimesMonotone ==
  ASSUME NEW a \in Nat, NEW b \in Nat, NEW n \in Nat, a <= b PROVE a * n <= b * n /\ a * n \in Nat
  OBVIOUS
LEMMA DivMod ==
  ASSUME NEW n \in Nat, NEW d \in Nat \ {0}
  PROVE  n = d * (n \div d) + (n % d) /\ n \div d \in Nat /\ n % d \in 0 .. d - 1
  <1>1. n \div d \in Nat /\ n % d \in 0 .. d - 1
    OBVIOUS
  <1>2. n - d * (n \div d) = n % d
    OBVIOUS
  <1>3. ASSUME NEW q \in Nat, NEW m \in Nat, n - d * q = m PROVE n = d * q + m
    BY <1>3
  <1> QED BY <1>1, <1>2, <1>3

\* The components of a quadruple.
LEMMA Components ==
  ASSUME NEW A, NEW B, NEW C, NEW D, NEW r \in A \X B \X C \X D
  PROVE  r[1] \in A /\ r[2] \in B /\ r[3] \in C /\ r[4] \in D
  OBVIOUS

\* The ticks of a request, in whole seconds and in the milliseconds of the rest.
Ms(r) == (OS_TICKS_PER_SEC * (r[4] + 500 \div OS_TICKS_PER_SEC)) \div 1000

LEMMA TicksBounded ==
  ASSUME NEW r \in Request
  PROVE  /\ Seconds(r) \in Nat /\ Seconds(r) * OS_TICKS_PER_SEC \in Nat
         /\ r[4] \in Nat /\ r[4] <= 999 /\ Ms(r) \in Nat
         /\ AllTicks(r) = Seconds(r) * OS_TICKS_PER_SEC + Ms(r)
         /\ AllTicks(r) \in Nat /\ AllTicks(r) <= 460800250
  <1> DEFINE h == r[1]
             m == r[2]
             s == r[3]
             ms == r[4]
  <1>1. h \in 0 .. 255 /\ m \in 0 .. 59 /\ s \in 0 .. 59 /\ ms \in 0 .. 999
    BY DelayAssumption, Components
  <1> HIDE DEF h, m, s, ms
  <1>2. Seconds(r) \in Nat /\ Seconds(r) <= 921599
    <2>1. h \in Nat /\ h <= 255 /\ m \in Nat /\ m <= 59 /\ s \in Nat /\ s <= 59
      BY <1>1
    <2>2. Seconds(r) = h * 3600 + m * 60 + s
      BY DEF Seconds, h, m, s
    <2> QED BY <2>1, <2>2
  <1> DEFINE n == OS_TICKS_PER_SEC
             k == 500 \div n
             sec == Seconds(r)
  <1>3. n \in Nat /\ n > 0 /\ n <= 500 /\ k \in Nat /\ k <= 500
    <2>1. n \in Nat /\ n > 0 /\ n <= 500
      BY DelayAssumption
    <2> HIDE DEF n
    <2> QED BY <2>1
  <1> HIDE DEF n, k, sec
  <1>4. sec * n \in Nat /\ sec * n <= 460799500
    <2>1. sec \in Nat /\ sec <= 921599
      BY <1>2 DEF sec
    <2>2. sec * n <= 921599 * n /\ sec * n \in Nat
      BY <1>3, <2>1, TimesMonotone
    <2> QED BY <1>3, <2>2
  <1>5. n * (ms + k) \in Nat /\ n * (ms + k) <= 750000
    <2>1. ms + k \in Nat /\ ms + k <= 1500
      BY <1>1, <1>3
    <2>2. (ms + k) * n <= 1500 * n /\ (ms + k) * n \in Nat
      BY <1>3, <2>1, TimesMonotone
    <2>3. (ms + k) * n = n * (ms + k)
      BY <1>3, <2>1
    <2> QED BY <1>3, <2>2, <2>3
  <1> DEFINE x == n * (ms + k)
  <1>6. x \div 1000 \in Nat /\ x \div 1000 <= 750
    <2> HIDE DEF x
    <2>1. x \in Nat /\ x <= 750000
      BY <1>5 DEF x
    <2> QED BY <2>1
  <1>7. Ms(r) = x \div 1000 /\ AllTicks(r) = sec * n + Ms(r)
    BY DEF Ms, AllTicks, n, k, ms, sec
  <1> HIDE DEF x
  <1>8. AllTicks(r) \in Nat /\ AllTicks(r) <= 460800250
    BY <1>4, <1>6, <1>7
  <1>9. ms \in Nat /\ ms <= 999
    BY <1>1
  <1>10. r[4] \in Nat /\ r[4] <= 999
    BY <1>9 DEF ms
  <1> QED BY <1>2, <1>4, <1>6, <1>7, <1>8, <1>10 DEF n, sec

\* What is still to come after the OSTimeDly under way.
Rest == loops * 65536 - (IF half THEN 32768 ELSE 0)
Part == IF AllTicks(asked) % 65536 > 32768 THEN AllTicks(asked) % 65536 ELSE 32768
DelayInv ==
  /\ asked \in Request /\ ticks \in Nat /\ loops \in Nat /\ half \in BOOLEAN /\ slept \in Nat
  /\ resumed \in {0, 1}
  /\ half => loops > 0
  /\ ticks <= Part /\ loops <= AllTicks(asked) \div 65536
  /\ resumed = 0 => slept + ticks + Rest = AllTicks(asked)
  /\ resumed = 1 => slept + ticks + Rest + Part >= AllTicks(asked)
  /\ resumed = 1 /\ AllTicks(asked) <= 65535 => ticks = 0

LEMMA DelayInitInv == DelayInit => DelayInv
  <1> SUFFICES ASSUME DelayInit PROVE DelayInv
    OBVIOUS
  <1>1. asked \in Request /\ half = FALSE /\ slept = 0 /\ resumed = 0
    BY DEF DelayInit
  <1> DEFINE all == AllTicks(asked)
  <1> HIDE DEF all
  <1>2. all \in Nat /\ all <= 460800250
    BY <1>1, TicksBounded DEF all
  <1>3. ticks = all % 65536 /\ loops = (all \div 65536) % 65536
    BY DEF DelayInit, all
  <1>4. loops = all \div 65536
    BY <1>2, <1>3
  <1>5. /\ ticks \in Nat /\ loops \in Nat /\ ticks + loops * 65536 = all
        /\ ticks <= (IF all % 65536 > 32768 THEN all % 65536 ELSE 32768) /\ loops <= all \div 65536
    BY <1>2, <1>3, <1>4
  <1>6. Part \in Nat /\ ticks <= Part
    BY <1>2, <1>5 DEF Part, all
  <1>7. slept + ticks + Rest = all
    BY <1>1, <1>2, <1>5 DEF Rest
  <1>8. half \in BOOLEAN /\ ~half
    BY <1>1
  <1>9. loops <= AllTicks(asked) \div 65536
    BY <1>5 DEF all
  <1> QED BY <1>1, <1>5, <1>6, <1>7, <1>8, <1>9 DEF DelayInv, all

LEMMA DelayStepInv == DelayInv /\ [DelayNext]_delayVars => DelayInv'
  <1> SUFFICES ASSUME DelayInv, [DelayNext]_delayVars PROVE DelayInv'
    OBVIOUS
  <1>1. asked \in Request /\ AllTicks(asked) \in Nat
    BY TicksBounded DEF DelayInv
  <1> DEFINE all == AllTicks(asked)
  <1>2. Part \in Nat /\ Part >= 32768
    BY <1>1 DEF Part
  <1>3. CASE UNCHANGED delayVars
    BY <1>3 DEF DelayInv, Rest, Part, delayVars
  <1>4. ASSUME Advance, UNCHANGED asked
        PROVE  /\ ticks' \in Nat /\ loops' \in Nat /\ half' \in BOOLEAN /\ (half' => loops' > 0)
               /\ ticks' + Rest' = Rest /\ ticks' <= Part /\ loops' <= AllTicks(asked) \div 65536
               /\ (all <= 65535 => ticks' = 0) /\ Part' = Part
    <2>1. Part' = Part
      BY <1>4 DEF Part
    <2>2. CASE loops = 0
      BY <1>2, <1>4, <2>1, <2>2 DEF Advance, DelayInv, Rest
    <2>3. CASE loops # 0
      <3>1. /\ ticks' = 32768 /\ half' = ~half /\ loops' = IF half THEN loops - 1 ELSE loops
            /\ loops \in Nat /\ loops > 0 /\ half \in BOOLEAN
            /\ loops <= AllTicks(asked) \div 65536
        BY <1>4, <2>3 DEF Advance, DelayInv
      <3>0. half' = ~half
        BY <1>4, <2>3 DEF Advance
      <3>2. ~(all <= 65535)
        BY <1>1, <3>1
      <3>3. ticks' + Rest' = Rest /\ loops' \in Nat /\ (half' => loops' > 0) /\ loops' <= loops
        <4>1. CASE half
          <5>1. ~half'
            BY <3>0, <4>1, Zenon
          <5>2. Rest = loops * 65536 - 32768 /\ Rest' = loops' * 65536 - 0 /\ loops' = loops - 1
            BY <3>1, <4>1, <5>1 DEF Rest
          <5> QED BY <3>1, <5>1, <5>2
        <4>2. CASE ~half
          <5>1. half'
            BY <3>0, <4>2, Zenon
          <5>2. Rest = loops * 65536 - 0 /\ Rest' = loops' * 65536 - 32768 /\ loops' = loops
            BY <3>1, <4>2, <5>1 DEF Rest
          <5> QED BY <3>1, <5>1, <5>2
        <4> QED BY <3>1, <4>1, <4>2
      <3>4. loops' <= AllTicks(asked) \div 65536
        BY <1>1, <3>1, <3>3
      <3> QED BY <1>2, <2>1, <3>1, <3>2, <3>3, <3>4
    <2> QED BY <2>2, <2>3
  <1>5. Rest \in Int
    BY DEF DelayInv, Rest
  <1>6. CASE Delay
    <2>1. slept' = slept + ticks /\ Advance /\ UNCHANGED <<asked, resumed>>
      BY <1>6 DEF Delay
    <2>2. Rest' \in Int
      BY <1>4, <2>1 DEF Rest
    <2> QED BY <1>1, <1>2, <1>4, <1>5, <2>1, <2>2 DEF DelayInv
  <1>7. CASE Resume
    <2>1. ticks > 0 /\ resumed = 0 /\ resumed' = 1 /\ Advance /\ UNCHANGED <<asked, slept>>
      BY <1>7 DEF Resume
    <2>2. Rest' \in Int
      BY <1>4, <2>1 DEF Rest
    <2> QED BY <1>1, <1>2, <1>4, <1>5, <2>1, <2>2 DEF DelayInv
  <1> QED BY <1>3, <1>6, <1>7 DEF DelayNext

LEMMA DelayCorrect == DelaySpec => []DelayInv
  BY DelayInitInv, DelayStepInv, PTL DEF DelaySpec

\* OSTimeDlyResume ends one part of a delay at most, and all of one that has no parts.
THEOREM ResumeEndsOnePart == DelaySpec => []ResumeCutsOnePart
  <1>1. DelayInv => ResumeCutsOnePart
    <2> SUFFICES ASSUME DelayInv, resumed = 1 PROVE ResumeCutsOnePart
      BY DEF ResumeCutsOnePart
    <2>1. AllTicks(asked) \in Nat
      BY TicksBounded DEF DelayInv
    <2>2. AllTicks(asked) <= 65535 => ticks = 0 /\ loops = 0
      BY <2>1 DEF DelayInv
    <2>3. Returned => slept + Part >= AllTicks(asked)
      BY <2>1 DEF DelayInv, Returned, Rest, Part
    <2> QED BY <2>2, <2>3 DEF ResumeCutsOnePart, Returned, Part
  <1> QED BY <1>1, DelayCorrect, PTL

\* Where a tick is a whole number of milliseconds the rounding is to the nearest tick.
LEMMA Rounds ==
  ASSUME 1000 % OS_TICKS_PER_SEC = 0, NEW ms \in Nat, NEW q,
         q = (OS_TICKS_PER_SEC * (ms + 500 \div OS_TICKS_PER_SEC)) \div 1000
  PROVE  /\ q \in Nat
         /\ 2 * (1000 * q) <= 2 * (OS_TICKS_PER_SEC * ms) + 1000
         /\ 2 * (OS_TICKS_PER_SEC * ms) <= 2 * (1000 * q) + 1000
  <1> DEFINE n == OS_TICKS_PER_SEC
             k == 500 \div n
             m == 1000 \div n
             exact == n * ms
             a == n * k
  <1>1. n \in 1 .. 500
    BY DelayAssumption
  <1>2. k \in Nat /\ m \in Nat /\ a \in Nat /\ a <= 500 /\ a + n > 500 /\ n * m = 1000 /\ exact \in Nat
    <2>1. 500 = n * k + (500 % n) /\ k \in Nat /\ 500 % n \in 0 .. n - 1
      BY <1>1, DivMod
    <2>2. 1000 = n * m + (1000 % n) /\ m \in Nat
      BY <1>1, DivMod
    <2>3. n * k \in Nat /\ n * m \in Nat /\ n * ms \in Nat
      BY <1>1, <2>1, <2>2
    <2> QED BY <1>1, <2>1, <2>2, <2>3
  <1>3. n * (ms + k) = exact + a
    BY <1>1, <1>2
  <1> HIDE DEF k, m
  <1>4. q \in Nat /\ 1000 * q <= exact + a /\ exact + a < 1000 * q + 1000
    <2>1. q = (exact + a) \div 1000
      BY <1>3 DEF k
    <2> HIDE DEF exact, a
    <2> QED BY <1>2, <2>1
  <1>5. 2 * exact <= 2 * (1000 * q) + 1000
    <2> SUFFICES ASSUME 2 * exact > 2 * (1000 * q) + 1000 PROVE FALSE
      BY <1>2, <1>4
    <2>1. exact + a + n > 1000 * q + 1000
      BY <1>1, <1>2, <1>4
    <2>2. n * (ms + k + 1) = exact + a + n /\ n * (m * q + m) = 1000 * q + 1000
      <3>1. n * (m * q + m) = (n * m) * q + n * m
        BY <1>1, <1>2, <1>4
      <3> QED BY <1>1, <1>2, <1>4, <3>1
    <2>3. m * q + m \in Nat /\ ms + k + 1 \in Nat
      BY <1>2, <1>4
    <2>4. ms + k + 1 > m * q + m
      <3> SUFFICES ASSUME ms + k + 1 <= m * q + m PROVE FALSE
        BY <2>3
      <3>1. (ms + k + 1) * n <= (m * q + m) * n
        BY <1>1, <2>3, TimesMonotone
      <3> QED BY <1>1, <2>1, <2>2, <2>3, <3>1
    <2>5. (m * q + m) * n <= (ms + k) * n
      BY <1>1, <1>2, <2>3, <2>4, TimesMonotone
    <2>6. 1000 * q + 1000 <= exact + a
      BY <1>1, <1>2, <1>3, <2>2, <2>3, <2>5
    <2> QED BY <1>2, <1>4, <2>6
  <1> QED BY <1>2, <1>4, <1>5

\* The call returns when the task has slept for all of the delay, to within half a tick.
THEOREM DelayIsRounded ==
  ASSUME 1000 % OS_TICKS_PER_SEC = 0 PROVE DelaySpec => []RoundedToNearest
  <1>1. DelayInv => RoundedToNearest
    <2> SUFFICES ASSUME DelayInv, Returned, resumed = 0 PROVE RoundedToNearest
      BY DEF RoundedToNearest
    <2>1. asked \in Request
      BY DEF DelayInv
    <2>2. slept = Seconds(asked) * OS_TICKS_PER_SEC + Ms(asked)
      <3>1. slept = AllTicks(asked)
        BY <2>1, TicksBounded DEF DelayInv, Returned, Rest
      <3> QED BY <2>1, <3>1, TicksBounded
    <2>3. /\ Ms(asked) \in Nat /\ Seconds(asked) * OS_TICKS_PER_SEC \in Nat
          /\ 2 * (1000 * Ms(asked)) <= 2 * (OS_TICKS_PER_SEC * asked[4]) + 1000
          /\ 2 * (OS_TICKS_PER_SEC * asked[4]) <= 2 * (1000 * Ms(asked)) + 1000
      <3>1. asked[4] \in Nat
        BY <2>1, TicksBounded
      <3> QED BY <2>1, <3>1, TicksBounded, Rounds DEF Ms
    <2>4. slept - Seconds(asked) * OS_TICKS_PER_SEC = Ms(asked)
      BY <2>2, <2>3
    <2>5. slept >= Seconds(asked) * OS_TICKS_PER_SEC
      BY <2>2, <2>3
    <2> QED BY <2>3, <2>4, <2>5 DEF RoundedToNearest
  <1> QED BY <1>1, DelayCorrect, PTL

---------------------------------------------------------------------------
\* The CPU usage: what the idle task does in a window that is all its own.
Turns == PerTick * Window
LEMMA TurnsAre ==
  /\ Window \in Nat /\ Window > 0 /\ PerTick \in Nat /\ Turns \in Nat /\ Turns >= 10000
  /\ Turns = PerTick * Window
  BY StatAssumption DEF Turns

\* How often the hundredth of the maximum goes into what the idle task did.
LEMMA UsageIs ==
  ASSUME NEW r \in Nat, r <= 2 * Turns
  PROVE  \E f \in Nat, e \in Nat, m \in Nat, c \in Nat :
           /\ m = Turns \div 100 /\ m >= 100 /\ Turns = 100 * m + c /\ c <= 99
           /\ r = m * f + e /\ e < m
           /\ Usage(r, m) = IF f <= 100 THEN 100 - f ELSE 0
  <1> DEFINE m == Turns \div 100
             c == Turns % 100
             f == r \div m
             e == r % m
  <1>1. m \in Nat /\ m >= 100 /\ c \in Nat /\ c <= 99 /\ Turns = 100 * m + c
    BY TurnsAre
  <1> HIDE DEF m, c
  <1>2. f \in Nat /\ e \in Nat /\ e < m /\ r = m * f + e
    BY <1>1, DivMod
  <1> HIDE DEF f, e
  <1>3. f <= 202
    <2> SUFFICES ASSUME f >= 203 PROVE FALSE
      BY <1>2
    <2>1. 203 * m <= f * m /\ f * m \in Nat
      BY <1>1, <1>2, TimesMonotone
    <2>2. f * m = m * f
      BY <1>1, <1>2
    <2> QED BY <1>1, <1>2, <2>1, <2>2
  <1>4. Int8(100 - f) = 100 - f
    BY <1>2, <1>3 DEF Int8
  <1>5. Usage(r, m) = IF f <= 100 THEN 100 - f ELSE 0
    BY <1>1, <1>2, <1>4 DEF Usage, f
  <1>6. m = Turns \div 100
    BY DEF m
  <1> QED BY <1>1, <1>2, <1>5, <1>6

\* The usage of a window is right to within two percent.
LEMMA UsageIsNear ==
  ASSUME NEW r \in Nat, r <= Turns
  PROVE  LET error == Usage(r, Turns \div 100) * Turns - 100 * (Turns - r)
         IN  -2 * Turns <= error /\ error <= 2 * Turns
  <1>1. r <= 2 * Turns
    BY TurnsAre
  <1>2. PICK f \in Nat, e \in Nat, m \in Nat, c \in Nat :
           /\ m = Turns \div 100 /\ m >= 100 /\ Turns = 100 * m + c /\ c <= 99
           /\ r = m * f + e /\ e < m
           /\ Usage(r, m) = IF f <= 100 THEN 100 - f ELSE 0
    BY <1>1, UsageIs
  <1>3. f <= 100
    <2> SUFFICES ASSUME f >= 101 PROVE FALSE
      OBVIOUS
    <2>1. 101 * m <= f * m /\ f * m \in Nat
      BY TimesMonotone
    <2>2. f * m = m * f
      OBVIOUS
    <2> QED BY <1>2, <2>1, <2>2
  <1> DEFINE error == Usage(r, m) * Turns - 100 * (Turns - r)
  <1>4. f * c <= 9900 /\ f * c \in Nat /\ m * f \in Nat
    <2>1. f * c <= 100 * c /\ f * c \in Nat
      BY <1>3, TimesMonotone
    <2> QED BY <1>2, <2>1
  <1>5. error = 100 * e - f * c
    <2>1. (100 - f) * Turns = 100 * Turns - f * Turns
      BY TurnsAre, <1>2
    <2>2. f * Turns = 100 * (m * f) + f * c
      BY <1>2
    <2>3. f * Turns \in Nat /\ Usage(r, m) = 100 - f
      BY <1>2, <1>3, TurnsAre
    <2>4. error = 100 * Turns - f * Turns - 100 * (Turns - r)
      BY <2>1, <2>3
    <2> QED BY <1>2, <1>4, <2>2, <2>3, <2>4, TurnsAre
  <1>6. -2 * Turns <= error /\ error <= 2 * Turns
    <2> HIDE DEF error
    <2> QED BY <1>2, <1>4, <1>5, TurnsAre
  <1> QED BY <1>2, <1>6

\* How far the idle task can have counted, from how long the statistics task still waits.
StatInv ==
  /\ OSIdleCtr \in Nat /\ OSIdleCtrMax \in Nat /\ OSIdleCtrRun \in Nat
  /\ OSCPUUsage \in Int /\ 0 <= OSCPUUsage /\ OSCPUUsage <= 100
  /\ initDly \in Nat /\ statDly \in Nat /\ statDly <= 2 * Window /\ reports \in {0, 1, 2}
  /\ phase \in {"sync", "measure", "done"} /\ (OSStatRdy <=> phase = "done")
  /\ phase # "done" => reports = 0
  /\ phase = "sync" =>
       \E late \in Nat, n \in Int :
         /\ late + 2 + Window <= 2 * Window
         /\ initDly = statDly + late + 2 + n * (2 * Window)
  /\ phase = "measure" =>
       initDly <= statDly /\ OSIdleCtr + PerTick * initDly = Turns
  /\ phase \in {"measure", "done"} /\ reports = 0 => OSIdleCtr + PerTick * statDly <= 2 * Turns
  /\ phase = "done" => OSIdleCtrMax = Turns
  /\ reports # 0 => OSIdleCtr + PerTick * statDly <= Turns
  /\ reports = 2 => OSIdleCtrRun <= Turns /\ OSCPUUsage = Usage(OSIdleCtrRun, Turns \div 100)

LEMMA StatInitInv == StatInit => StatInv
  <1> SUFFICES ASSUME StatInit PROVE StatInv
    OBVIOUS
  <1>1. PICK b \in Before : initDly = b + 2
    BY DEF StatInit
  <1>2. /\ OSIdleCtr = 0 /\ OSIdleCtrMax = 0 /\ OSIdleCtrRun = 0 /\ OSStatRdy = FALSE /\ OSCPUUsage = 0
        /\ reports = 0 /\ phase = "sync" /\ statDly = 2 * Window
    BY DEF StatInit
  <1> DEFINE d == 2 * Window
             late == b % d
             q == b \div d
  <1>3. b \in Nat /\ d \in Nat \ {0} /\ late + 2 + Window <= d
    BY StatAssumption
  <1>4. b = d * q + late /\ q \in Nat /\ late \in Nat
    <2> HIDE DEF d
    <2>1. late \in 0 .. d - 1 /\ b = d * q + late /\ q \in Nat
      BY <1>3, DivMod
    <2> QED BY <1>3, <2>1
  <1>5. \E late_1 \in Nat, n \in Int :
         late_1 + 2 + Window <= 2 * Window /\ initDly = statDly + late_1 + 2 + n * (2 * Window)
    <2>1. q - 1 \in Int /\ (q - 1) * d = d * q - d /\ d * q \in Nat
      BY <1>3, <1>4
    <2>2. initDly = statDly + late + 2 + (q - 1) * d
      <3>1. initDly = d * q + late + 2 /\ statDly = d
        BY <1>1, <1>2, <1>4
      <3> HIDE DEF late, q, d
      <3> QED BY <1>3, <1>4, <2>1, <3>1
    <2> HIDE DEF late, q
    <2> QED BY <1>3, <1>4, <2>1, <2>2
  <1> HIDE DEF late, q, d
  <1>6. initDly \in Nat /\ statDly \in Nat /\ statDly <= 2 * Window
    BY <1>1, <1>2, <1>3, TurnsAre
  <1> QED BY <1>2, <1>5, <1>6 DEF StatInv
LEMMA TickKeeps == ASSUME StatInv, Tick PROVE StatInv'
  <1>1. /\ statDly' = statDly - 1 /\ statDly > 0 /\ initDly' = (IF phase = "done" THEN 0 ELSE initDly - 1)
        /\ (phase = "done" \/ initDly > 0)
        /\ UNCHANGED <<OSIdleCtrMax, OSIdleCtrRun, OSStatRdy, OSCPUUsage, max, phase, reports>>
    BY DEF Tick
  <1>2. PICK k \in IF OSStatRdy THEN Share ELSE {PerTick} : OSIdleCtr' = OSIdleCtr + k
    BY DEF Tick
  <1>3. k \in Nat /\ k <= PerTick /\ (phase # "done" => k = PerTick)
    BY <1>2, StatAssumption DEF StatInv
  <1>4. OSIdleCtr' \in Nat /\ initDly' \in Nat /\ statDly' \in Nat /\ statDly' <= 2 * Window
    BY <1>1, <1>2, <1>3, TurnsAre DEF StatInv
  <1>5. PerTick * statDly' = PerTick * statDly - PerTick /\ PerTick * statDly \in Nat
    BY <1>1, TurnsAre DEF StatInv
  <1>6. OSIdleCtr' + PerTick * statDly' <= OSIdleCtr + PerTick * statDly
    BY <1>2, <1>3, <1>5, TurnsAre DEF StatInv
  <1>7. phase = "sync" =>
       \E late \in Nat, n \in Int :
         /\ late + 2 + Window <= 2 * Window
         /\ initDly' = statDly' + late + 2 + n * (2 * Window)
    <2> SUFFICES ASSUME phase = "sync"
                 PROVE  \E late \in Nat, n \in Int :
                           /\ late + 2 + Window <= 2 * Window
                           /\ initDly' = statDly' + late + 2 + n * (2 * Window)
      OBVIOUS
    <2>1. PICK late \in Nat, n \in Int : /\ late + 2 + Window <= 2 * Window
                                         /\ initDly = statDly + late + 2 + n * (2 * Window)
      BY DEF StatInv
    <2>2. n * (2 * Window) \in Int
      BY TurnsAre
    <2>3. initDly' = statDly' + late + 2 + n * (2 * Window)
      BY <1>1, <2>1, <2>2 DEF StatInv
    <2> QED BY <2>1, <2>3
  <1>8. phase = "measure" => initDly' <= statDly' /\ OSIdleCtr' + PerTick * initDly' = Turns
    <2> SUFFICES ASSUME phase = "measure" PROVE initDly' <= statDly' /\ OSIdleCtr' + PerTick * initDly' = Turns
      OBVIOUS
    <2>1. initDly' = initDly - 1 /\ initDly \in Nat /\ PerTick * initDly' = PerTick * initDly - PerTick
      BY <1>1, TurnsAre DEF StatInv
    <2> QED BY <1>1, <1>2, <1>3, <2>1, TurnsAre DEF StatInv
  <1>9. \A bound \in Nat : OSIdleCtr + PerTick * statDly <= bound => OSIdleCtr' + PerTick * statDly' <= bound
    <2>1. /\ OSIdleCtr \in Nat /\ PerTick * statDly \in Nat
          /\ OSIdleCtr' + PerTick * statDly' \in Int
      BY <1>4, <1>5, TurnsAre DEF StatInv
    <2> QED BY <1>6, <2>1
  <1>10. (phase \in {"measure", "done"} /\ reports = 0) => OSIdleCtr' + PerTick * statDly' <= 2 * Turns
    <2>1. 2 * Turns \in Nat
      BY TurnsAre
    <2> QED BY <1>9, <2>1 DEF StatInv
  <1>11. reports # 0 => OSIdleCtr' + PerTick * statDly' <= Turns
    BY <1>9, TurnsAre DEF StatInv
  <1> QED BY <1>1, <1>4, <1>7, <1>8, <1>10, <1>11 DEF StatInv

LEMMA SyncKeeps == ASSUME StatInv, OSStatInit_Sync PROVE StatInv'
  <1>1. /\ phase = "sync" /\ initDly = 0 /\ OSIdleCtr' = 0 /\ phase' = "measure" /\ initDly' = Window
        /\ UNCHANGED <<OSIdleCtrMax, OSIdleCtrRun, OSStatRdy, OSCPUUsage, max, statDly, reports>>
    BY DEF OSStatInit_Sync
  <1>2. PICK late \in Nat, n \in Int : /\ late + 2 + Window <= 2 * Window
                                       /\ 0 = statDly + late + 2 + n * (2 * Window)
    BY <1>1 DEF StatInv
  <1>3. n = -1
    <2>1. CASE n >= 0
      <3>1. n * (2 * Window) >= 0 /\ n * (2 * Window) \in Int
        BY <2>1, TurnsAre
      <3> QED BY <1>2, <3>1 DEF StatInv
    <2>2. CASE n <= -2
      <3> DEFINE j == -n
      <3>1. j \in Nat /\ 2 <= j
        BY <2>2
      <3>2. 2 * (2 * Window) <= j * (2 * Window) /\ j * (2 * Window) \in Nat
        BY <3>1, TurnsAre, TimesMonotone
      <3>3. n * (2 * Window) = -(j * (2 * Window))
        BY TurnsAre
      <3> HIDE DEF j
      <3> QED BY <1>2, <3>2, <3>3, TurnsAre DEF StatInv
    <2> QED BY <2>1, <2>2
  <1>4. statDly >= Window
    BY <1>2, <1>3, TurnsAre DEF StatInv
  <1>5. PerTick * statDly <= 2 * Turns /\ PerTick * statDly \in Nat
    <2>1. statDly * PerTick <= (2 * Window) * PerTick /\ statDly * PerTick \in Nat
      BY TurnsAre, TimesMonotone DEF StatInv
    <2> QED BY <2>1, TurnsAre DEF StatInv
  <1> QED BY <1>1, <1>4, <1>5, TurnsAre DEF StatInv

LEMMA MeasureKeeps == ASSUME StatInv, OSStatInit_Measure PROVE StatInv'
  <1>1. /\ phase = "measure" /\ initDly = 0 /\ OSIdleCtrMax' = OSIdleCtr /\ OSStatRdy' = TRUE /\ phase' = "done"
        /\ UNCHANGED <<OSIdleCtr, OSIdleCtrRun, OSCPUUsage, max, initDly, statDly, reports>>
    BY DEF OSStatInit_Measure
  <1>2. OSIdleCtr = Turns
    BY <1>1, TurnsAre DEF StatInv
  <1> QED BY <1>1, <1>2 DEF StatInv

\* The statistics task finds OSStatRdy unset only before OSStatInit begins to measure.
LEMMA StatWaitKeeps == ASSUME StatInv, OS_TaskStat_Wait PROVE StatInv'
  <1>1. /\ statDly = 0 /\ (phase = "done" \/ initDly > 0) /\ ~OSStatRdy /\ statDly' = 2 * Window
        /\ UNCHANGED <<OSIdleCtr, OSIdleCtrMax, OSIdleCtrRun, OSStatRdy, OSCPUUsage, max, phase,
                       initDly, reports>>
    BY DEF OS_TaskStat_Wait, StatRuns
  <1>2. phase = "sync"
    BY <1>1 DEF StatInv
  <1>3. PICK late \in Nat, n \in Int : /\ late + 2 + Window <= 2 * Window
                                       /\ initDly = statDly + late + 2 + n * (2 * Window)
    BY <1>2 DEF StatInv
  <1>4. n - 1 \in Int /\ initDly' = statDly' + late + 2 + (n - 1) * (2 * Window)
    <2>1. (n - 1) * (2 * Window) = n * (2 * Window) - 2 * Window /\ n * (2 * Window) \in Int
      BY TurnsAre
    <2> QED BY <1>1, <1>3, <2>1, TurnsAre DEF StatInv
  <1>5. \E l \in Nat, k \in Int :
          l + 2 + Window <= 2 * Window /\ initDly' = statDly' + l + 2 + k * (2 * Window)
    BY <1>3, <1>4
  <1> QED BY <1>1, <1>2, <1>5, TurnsAre DEF StatInv

LEMMA ReportKeeps == ASSUME StatInv, OS_TaskStat PROVE StatInv'
  <1>1. /\ statDly = 0 /\ OSStatRdy /\ max' = OSIdleCtrMax \div 100 /\ OSIdleCtrRun' = OSIdleCtr /\ OSIdleCtr' = 0
        /\ OSCPUUsage' = Usage(OSIdleCtr, max') /\ statDly' = Window
        /\ reports' = (IF reports = 0 THEN 1 ELSE 2) /\ UNCHANGED <<OSIdleCtrMax, OSStatRdy, phase, initDly>>
    BY DEF OS_TaskStat, StatRuns
  <1>2. phase = "done" /\ max' = Turns \div 100 /\ PerTick * statDly = 0 /\ PerTick * statDly' = Turns
    BY <1>1, TurnsAre DEF StatInv
  <1>3. OSIdleCtr <= 2 * Turns /\ (reports # 0 => OSIdleCtr <= Turns)
    BY <1>2, TurnsAre DEF StatInv
  <1>4. OSCPUUsage' = Usage(OSIdleCtr, Turns \div 100)
    BY <1>1, <1>2
  <1>5. OSCPUUsage' \in Int /\ 0 <= OSCPUUsage' /\ OSCPUUsage' <= 100
    <2>1. PICK f \in Nat : Usage(OSIdleCtr, Turns \div 100) = IF f <= 100 THEN 100 - f ELSE 0
      BY <1>3, UsageIs DEF StatInv
    <2> QED BY <1>4, <2>1
  <1> QED BY <1>1, <1>2, <1>3, <1>4, <1>5, TurnsAre DEF StatInv

\* From the second report on the usage is right to within two percent, however the load
\* changes, and no report is anything but a percentage.
THEOREM UsageStaysRight == StatSpec => []UsageRight
  <1>1. StatInv /\ [StatNext]_statVars => StatInv'
    <2> SUFFICES ASSUME StatInv, [StatNext]_statVars PROVE StatInv'
      OBVIOUS
    <2>1. CASE UNCHANGED statVars
      BY <2>1 DEF StatInv, statVars
    <2> QED BY <2>1, TickKeeps, SyncKeeps, MeasureKeeps, StatWaitKeeps, ReportKeeps DEF StatNext
  <1>2. StatInv => UsageRight
    <2> SUFFICES ASSUME StatInv PROVE UsageRight
      OBVIOUS
    <2>1. reports = 2 => OSIdleCtrMax = Turns /\ OSIdleCtrRun \in Nat /\ OSIdleCtrRun <= Turns
                         /\ OSCPUUsage = Usage(OSIdleCtrRun, Turns \div 100)
      BY DEF StatInv
    <2>2. OSCPUUsage \in 0 .. 100
      BY DEF StatInv
    <2> QED BY <2>1, <2>2, UsageIsNear DEF UsageRight
  <1> QED BY <1>1, <1>2, StatInitInv, PTL DEF StatSpec
=============================================================================
