---------------------------- MODULE UcosFlagList ----------------------------
(***************************************************************************)
(* The wait list of an event flag group (os_flag.c): nodes on the stacks   *)
(* of the tasks that wait, linked both ways and put in at the front.  A    *)
(* post, and a deletion of the group, walks the list and takes nodes out   *)
(* as it goes; it is one critical region, cut into its turns here.  The    *)
(* list of the TCBs in use (OSTCBList) has the same links.                 *)
(***************************************************************************)

CONSTANTS
  Node,
  NullNode         \* (OS_FLAG_NODE *)0

ASSUME NodeAssumption == NullNode \notin Node

VARIABLES
  OSFlagWaitList,  \* the first node
  OSFlagNodeNext, OSFlagNodePrev,
  pnode,           \* the node a walk has come to; NullNode if there is no walk
  linked,          \* history: the nodes put in and not taken out
  older            \* history: those of them that were put in before each of them
listVars == <<OSFlagWaitList, OSFlagNodeNext, OSFlagNodePrev, pnode, linked, older>>

ListInit ==
  /\ OSFlagWaitList = NullNode /\ pnode = NullNode
  /\ OSFlagNodeNext = [n \in Node |-> NullNode] /\ OSFlagNodePrev = [n \in Node |-> NullNode]
  /\ linked = {} /\ older = [n \in Node |-> {}]

\* OSFlagPend has to wait.
OS_FlagBlock(n) ==
  /\ pnode = NullNode /\ n \notin linked
  /\ OSFlagNodeNext' = [OSFlagNodeNext EXCEPT ![n] = OSFlagWaitList]
  /\ OSFlagNodePrev' = [m \in Node |-> IF m = n THEN NullNode
                                       ELSE IF m = OSFlagWaitList THEN n ELSE OSFlagNodePrev[m]]
  /\ OSFlagWaitList' = n
  /\ linked' = linked \cup {n}
  /\ older' = [older EXCEPT ![n] = linked]
  /\ UNCHANGED pnode

\* Mutant: the node after it keeps its way back.
OS_FlagUnlink_NoPrev(n) ==
  /\ IF OSFlagNodePrev[n] = NullNode
     THEN OSFlagWaitList' = OSFlagNodeNext[n] /\ UNCHANGED OSFlagNodeNext
     ELSE /\ OSFlagNodeNext' = [OSFlagNodeNext EXCEPT ![OSFlagNodePrev[n]] = OSFlagNodeNext[n]]
          /\ UNCHANGED OSFlagWaitList
  /\ linked' = linked \ {n}
  /\ older' = [m \in Node |-> older[m] \ {n}]
  /\ UNCHANGED OSFlagNodePrev

OS_FlagUnlink(n) ==
  /\ IF OSFlagNodePrev[n] = NullNode
     THEN OSFlagWaitList' = OSFlagNodeNext[n] /\ UNCHANGED OSFlagNodeNext
     ELSE /\ OSFlagNodeNext' = [OSFlagNodeNext EXCEPT ![OSFlagNodePrev[n]] = OSFlagNodeNext[n]]
          /\ UNCHANGED OSFlagWaitList
  /\ OSFlagNodePrev' = [m \in Node |-> IF m = OSFlagNodeNext[n] THEN OSFlagNodePrev[n]
                                       ELSE OSFlagNodePrev[m]]
  /\ linked' = linked \ {n}
  /\ older' = [m \in Node |-> older[m] \ {n}]

\* OSFlagPend returns after a timeout, or OSTaskDel deletes the task.
GiveUp(n) == pnode = NullNode /\ n \in linked /\ OS_FlagUnlink(n) /\ UNCHANGED pnode

\* OSFlagPost and OSFlagDel: the first node, and on to the next; a node that has
\* just been unlinked is still followed.
Walk == /\ pnode = NullNode /\ pnode' = OSFlagWaitList
        /\ UNCHANGED <<OSFlagWaitList, OSFlagNodeNext, OSFlagNodePrev, linked, older>>
Turn == /\ pnode # NullNode
        /\ \/ OS_FlagUnlink(pnode)
           \/ UNCHANGED <<OSFlagWaitList, OSFlagNodeNext, OSFlagNodePrev, linked, older>>
        /\ pnode' = OSFlagNodeNext'[pnode]

ListNext == Walk \/ Turn \/ \E n \in Node : OS_FlagBlock(n) \/ GiveUp(n)
ListSpec == ListInit /\ [][ListNext]_listVars

---------------------------------------------------------------------------
WaitSet == INSTANCE WaitSet WITH
  member <- linked, left <- IF pnode = NullNode THEN {} ELSE {pnode} \cup older[pnode]

\* Whatever was linked and unlinked before, at the ends and in the middle, a walk
\* comes to every waiting node once, and ends, also when it takes nodes out.
ImplementsWaitSet == WaitSet!Spec

\* The links are the order in which the nodes were put in, both ways: the node after
\* n is the youngest of those that are older than n.
LinksExact ==
  /\ IF linked = {} THEN OSFlagWaitList = NullNode
     ELSE /\ OSFlagWaitList \in linked
          /\ linked = {OSFlagWaitList} \cup older[OSFlagWaitList]
          /\ OSFlagNodePrev[OSFlagWaitList] = NullNode
  /\ \A n \in linked :
       /\ n \notin older[n]
       /\ OSFlagNodeNext[n] = NullNode => older[n] = {}
       /\ OSFlagNodeNext[n] # NullNode =>
            /\ OSFlagNodeNext[n] \in linked
            /\ older[n] = {OSFlagNodeNext[n]} \cup older[OSFlagNodeNext[n]]
            /\ OSFlagNodePrev[OSFlagNodeNext[n]] = n
       /\ OSFlagNodePrev[n] = NullNode => OSFlagWaitList = n
       /\ OSFlagNodePrev[n] # NullNode =>
            OSFlagNodePrev[n] \in linked /\ OSFlagNodeNext[OSFlagNodePrev[n]] = n
=============================================================================
