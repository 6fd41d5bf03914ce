------------------------------ MODULE UcosMem ------------------------------
(***************************************************************************)
(* A memory partition (os_mem.c): the free blocks are a list that is       *)
(* threaded through the blocks' own first words, which are the owner's as  *)
(* long as a block is in use.  One action is one critical region.          *)
(***************************************************************************)
EXTENDS Naturals, FiniteSets

CONSTANTS
  OSMemNBlks,      \* two at least: the code asks for as many
  Null,            \* (void *)0
  Data             \* what owners write into their blocks; addresses may be among it

\* The addresses of the blocks, in the order of memory.
Block == 1 .. OSMemNBlks

ASSUME MemAssumption == OSMemNBlks \in Nat /\ OSMemNBlks >= 2 /\ Null \notin Block

VARIABLES
  OSMemFreeList, OSMemNFree,
  link,            \* the first word of each block
  out,             \* history: the blocks that OSMemGet has handed out
  chain            \* history: the free blocks, the one to go last at 1
memVars == <<OSMemFreeList, OSMemNFree, link, out, chain>>

\* OSMemCreate: each block points to the one after it.
MemInit ==
  /\ OSMemFreeList = 1 /\ OSMemNFree = OSMemNBlks
  /\ link = [b \in Block |-> IF b = OSMemNBlks THEN Null ELSE b + 1]
  /\ out = {}
  /\ chain = [i \in Block |-> OSMemNBlks + 1 - i]

OSMemGet ==
  /\ OSMemNFree > 0
  /\ OSMemFreeList' = link[OSMemFreeList]
  /\ OSMemNFree' = OSMemNFree - 1
  /\ out' = out \cup {OSMemFreeList}
  /\ UNCHANGED <<link, chain>>

\* Mutant: the list begins with the block before the block is linked.
OSMemPut_Before(b) ==
  /\ OSMemNFree < OSMemNBlks
  /\ OSMemFreeList' = b
  /\ link' = [link EXCEPT ![b] = OSMemFreeList']
  /\ OSMemNFree' = OSMemNFree + 1
  /\ out' = out \ {b}
  /\ chain' = [chain EXCEPT ![OSMemNFree + 1] = b]

\* A block comes back; all that is checked is that not every block is back already.
OSMemPut(b) ==
  /\ OSMemNFree < OSMemNBlks
  /\ link' = [link EXCEPT ![b] = OSMemFreeList]
  /\ OSMemFreeList' = b
  /\ OSMemNFree' = OSMemNFree + 1
  /\ out' = out \ {b}
  /\ chain' = [chain EXCEPT ![OSMemNFree + 1] = b]

\* An owner uses its block.
Use(b, d) == link' = [link EXCEPT ![b] = d] /\ UNCHANGED <<OSMemFreeList, OSMemNFree, out, chain>>

\* Owners give back and write what is theirs (the rule of use of every allocator).
MemNext ==
  \/ OSMemGet
  \/ \E b \in out : OSMemPut(b) \/ \E d \in Data : Use(b, d)
MemSpec == MemInit /\ [][MemNext]_memVars

---------------------------------------------------------------------------
Pool == INSTANCE BlockPool WITH
  Size <- OSMemNBlks, free <- Block \ out, out <- out, left <- OSMemNFree

\* The partition is a pool: after any history of calls and of writes to the blocks,
\* OSMemGet hands out a block that has no owner.
ImplementsBlockPool == Pool!Spec

\* The list of free blocks holds each free block once, in the order of chain, and
\* ends; OSMemNFree is its length, so OSMemGet never follows a link that an owner
\* wrote, and OSMemPut never answers OS_MEM_FULL to an owner.
MemExact ==
  /\ OSMemNFree \in 0 .. OSMemNBlks
  /\ OSMemFreeList = IF OSMemNFree = 0 THEN Null ELSE chain[OSMemNFree]
  /\ \A i \in 1 .. OSMemNFree :
       /\ chain[i] \in Block \ out
       /\ link[chain[i]] = IF i = 1 THEN Null ELSE chain[i - 1]
       /\ \A j \in 1 .. OSMemNFree : chain[i] = chain[j] => i = j
  /\ Cardinality(out) + OSMemNFree = OSMemNBlks
=============================================================================
