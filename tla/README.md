# A TLA+ model of the µC/OS-II port for S5PV210

This directory models the real-time kernel of the repository (µC/OS-II V2.83 in
`src/ucos2/source`, its ARM port in `src/ucos2/arm`, and the parts of
`src/ucos2/app` that drive it): TLA+ modules, TLC configurations that check them
on small instances, and theorems proved with TLAPS for every instance.

## 1. Inventory

| Component | State | Operations | Interacts with | Modules |
|---|---|---|---|---|
| Scheduler, ready table, lock, interrupts (`os_core.c`, `arm/Os_cpu_a.S`, `app/exception.c`, `app/timer.c`) | `OSRdyGrp/Tbl`, `OSTCBCur`, `OSPrioCur`, `OSLockNesting`, `OSIntNesting` | `OS_Sched`, `OSIntExit`, `OSSchedLock/Unlock`, `OSTimeTick`, IRQ entry | every service ends in `OS_Sched`; the IRQ handler calls services and ends in `OSIntExit` | `UcosCore`, `UcosKernel` |
| Priority bitmaps | group byte, rows, `OSUnMapTbl` | set, clear, find the highest | ready table and every wait list | `UcosBitmap`, `PrioSet` |
| Tasks (`os_task.c`, `OS_TCBInit`) | TCBs, `OSTCBPrioTbl`, `OSTCBList`, `OSTCBFreeList` | create, delete, suspend, resume, change priority | wait lists, ready table, the lock | `UcosTask` |
| Time (`os_time.c`) | `OSTCBDly` | `OSTimeDly`, `OSTimeDlyHMSM`, `OSTimeDlyResume` | tick, suspension, pends with a timeout | `UcosTime`, `UcosDelay` |
| Semaphores (`os_sem.c`) | ECBs, their free list, counts | create, pend, post, accept, set, delete | wait lists, tick, scheduler | `UcosEvent`, `UcosSem`, `PrioSem`, `UcosSemRefinement` |
| Mutexes (`os_mutex.c`) | owner, inherited priority (pip) | create, pend, post, accept, delete | `OSTCBPrioTbl`, priorities of owners | `UcosEvent`, `UcosMutex`, `PrioLock`, `UcosMutexRefinement` |
| Mailboxes, queues (`os_mbox.c`, `os_q.c`) | message slot, ring of pointers, pool of queue blocks | post, post front, post with options, pend, accept, flush, create, delete | wait lists | `UcosEvent`, `UcosMsg`, `PrioQueue`, `UcosMsgRefinement`; `UcosRing`, `MsgBuffer` |
| Event flags (`os_flag.c`) | flag group, list of wait nodes | pend, post, accept, create, delete | `OSTaskDel` unlinks nodes | `UcosFlag`; `UcosFlagList`, `WaitSet` |
| Memory partitions (`os_mem.c`) | free list in the blocks | get, put | — | `UcosMem`, `BlockPool` |
| Statistics and idle task | `OSIdleCtr`, `OSCPUUsage` | `OSStatInit`, `OS_TaskStat` | the idle task's share of the processor | `UcosStat` |
| Application (`app/main.c`) | a queue, a message buffer | `sendMsgQueue`, `isMsgInQueue`, `Task1`'s pend | the queue's ring | `UcosApp` |
| Timers (`os_tmr.c`, compiled out), debug tables, hooks, drivers, GUI, fonts, C library, bootloader, tool chain | | | | not modelled: no kernel behaviour |

What makes each of them correct:

* *scheduler*: past the `OS_Sched` of its last service, with no interrupt and no
  lock, the running task is the highest ready one; no switch loads a TCB that is
  null, reserved or being deleted;
* *tasks and time*: the lists and tables agree; a task is ready exactly when it
  waits for nothing; only `OSTaskResume` ends a suspension; every delay ends;
* *bitmaps*: they are sets, and the lookup finds the least member;
* *delays*: the parts of `OSTimeDlyHMSM` add up to the time asked for;
* *semaphores*: units are neither lost nor made, the highest-priority waiter is
  served, a return code says what happened, a wait with a timeout ends;
* *mutexes*: one owner, which outranks every task that waits for it; an inherited
  priority is given back; the waiter of the highest priority comes next;
* *queues and mailboxes*: messages are received in order, none is lost, doubled or
  left while a task waits; the pools of blocks do not leak;
* *flags*: no task waits for flags that are there, no linked node lies in a dead
  stack frame, a woken task knows why it was woken;
* *partitions*: no block has two owners and none is lost;
* *statistics*: the usage is a percentage, right to within two points;
* *application*: a message that `sendMsgQueue` reports sent is in the queue once or
  has been received.

What makes it hard: interrupts between any two critical regions, services that
span several regions (`OSTaskCreate`, `OSTaskDel`, every pend, `OSSemCreate`, `OSQCreate`),
checks made before interrupts are masked, and the state a task leaves behind when
its timeout, a post, a deletion and a change of priority meet. `PROJECT.json`
lists these hazards line by line with the properties that cover them.

## 2. How the modules follow the code

**Atomicity.** `OS_ENTER_CRITICAL` saves CPSR and masks interrupts
(`OSCPUSaveSR`), so one critical region is one step. `at[t]` says between which
two regions a task stands and `loc[t]` holds the locals that live across them.
An interrupt may come at every step boundary. The IRQ handler
(`OS_CPU_IRQ_ISR`) runs with interrupts masked from entry to exit, so it never
nests, its services are steps, and it calls one handler routine per interrupt
(`irq_handler`); `served` records that it has made its call.

**Switching.** `Dispatch` is `OS_SchedNew` followed by the switch, which happens
only if the highest ready priority differs from `OSPrioCur`. `OSPrioCur` is a
variable of its own because the code does not keep it equal to the priority of
the current task. A switched-out task resumes where it stands.

**Services** are parameters: `TaskCalls` and `IsrCalls` name what tasks and
handlers of an instance may call, in any order, with any arguments of the bounded
sets. A path that returns an error without changing state is a stuttering step
and is not written. `OSSemDel` with `OS_DEL_ALWAYS` is named `OSSemDelAlways`.

| Code | Model |
|---|---|
| `OSRdyGrp/OSRdyTbl`, `OSEventGrp/OSEventTbl` | the set of priorities `OSRdyTbl`, `OSEventTbl[e]`; `UcosBitmap` shows that bitmaps implement such sets |
| `OSTCBPrioTbl[p]` = 0, 1, pointer | `NullTcb`, `Reserved`, a TCB |
| `OSTCBFreeList` | a set: which free TCB is taken is left open |
| `OSEventFreeList` with `OSEventPtr` | the linked list itself, links and all |
| `OSTCBStat` | a set: `"SUSPEND"`, `"SEM"`; `OS_STAT_RDY` is the empty set |
| `OSTaskCreate` | `OSTaskCreate`, `OS_TCBInit_Take`, `OS_TCBInit_Link`, `OSTaskCreate_Undo` |
| `OSTaskDel` | `OSTaskDel` (with `Disable`), `OSTaskDel_Free`, between them the window with interrupts enabled |
| `OSSemPend` | `OSSemPend` (type check), `_Take` or `_Wait`, `OS_Sched`, `_Timeout` or `_Done` |
| other services of an event block | `Enter` (type check), then one region; in a handler both at once |
| `OSMutexPend`, `OSMutexPost` | the same, with `OSMutex_RdyAtPrio` and the owner's move to the pip in the region |
| `OS_Q` | in `UcosMsg` a sequence; `UcosRing` shows that the ring with `OSQIn`, `OSQOut`, `OSQEntries` implements one |
| `OSQCreate` | block, queue block (or giving the first back), initialisation: three steps |
| `OS_FLAG_NODE` | the task on whose stack it lies; `UcosFlagList` has the links |
| free list of a partition | `link[b]`, the first word of block `b`, which its owner may overwrite |

**Rules of use** are what the code asks of its callers and does not check:

* a task deletes itself only with the scheduler unlocked, `OSSchedLock` is not
  nested beyond its limit, `OS_ARG_CHK` arguments are legal (this loses nothing but
  error returns);
* `Apart`: no other task is inside a service of a block that is being deleted,
  except to wait for it (mutexes, queues, mailboxes, flags). Every service checks
  the block's type before it masks interrupts; without the rule a pend joins the
  list of a free block, and two deletions free one block twice. `UcosSem` goes
  without the rule;
* mutexes: an owner waits for no other mutex (note 1 of `OSMutexPend`), changes no
  priority (note 2), is ready when `OSMutexDel` with `OS_DEL_ALWAYS` finds it
  (note 4); a pip is above every task (`os_mutex.c:130-133`); `DelRule`:
  `OS_DEL_NO_PEND` does not find the owner at the pip. Without `DelRule` TLC finds a
  switch to a null TCB: a waiter lends its priority, times out, and the deletion
  clears `OSTCBPrioTbl[pip]` under the owner;
* mutexes, again: a task that owns one takes no second one with `OSMutexAccept`,
  which note 1 does not mention. With two owned at once TLC violates
  `PriorityGivenBack`: the post of one gives back the priority that the other's
  waiter lent. And a task that suspends itself passes `OS_PRIO_SELF` (`NamesSelf`):
  while it inherits, its own number does not find it;
* with mutexes, `SafeUse` asks that tasks are made before `OSStart`, none is deleted,
  and no priority changes but by inheritance; `MutexSafeUse` adds `DelRule`, the pips
  and that the scheduler is not locked, for under the lock a task can delay itself,
  run on and be made ready by `OSMutexPost` with its delay still running;
* mailboxes and queues: `MsgSafeUse`, no change of priority and no mutexes; for the
  refinement `RefSafeUse`, tasks are made before `OSStart` and none is deleted;
* flags: `OneSense`, the tasks inside a group's `OSFlagPend` and `OSFlagAccept` all
  want flags set or all want them clear; `flag_missed` shows what happens without it;
* `OSStatInit` is called before the statistics task's first delay ends (`Before`);
  otherwise the first report is over nearly three tenths of a second and the
  `INT8S` comes out as 126 percent;
* the sender outranks the receiver (`Outranks`), as `Task0` does `Task1` in
  `main.c`; with the ranks exchanged a message is in the queue twice, since
  `isMsgInQueue` walks the ring with interrupts enabled;
* an owner gives a memory block back once.

Modules:

* `UcosCore` – state, scheduler, interrupts, tick, the three event-list helpers;
* `UcosTask`, `UcosTime` – the services of those names, on `UcosCore`;
* `UcosKernel` – both together: next-state relation, properties, the inductive
  invariant `KernelInv`, the rules of use `SafeUse`;
* `UcosKernelProofs` – the theorems;
* `UcosEvent` – event blocks and their free list, on `UcosKernel`, and `EventInv`, what
  every kind of block keeps; `UcosEventProofs` – the lemmas about it;
* `UcosSem`, `UcosMutex`, `UcosMsg` – semaphores, mutexes, queues and mailboxes on
  `UcosEvent`; `PrioSem`, `PrioLock`, `PrioQueue` – what each promises, without
  interrupts, schedulers or intermediate steps; `UcosSemRefinement`,
  `UcosMutexRefinement`, `UcosMsgRefinement` – the mappings between them;
* `UcosSemProofs`, `UcosMsgProofs`, `UcosMutexProofs` – the theorems about them;
* `UcosFlag` – event flags on `UcosKernel`; `UcosFlagProofs` – the theorems about them;
* the parts that stand by themselves: `UcosBitmap` and `PrioSet` – bitmaps and what they
  stand for; `UcosRing` and `MsgBuffer` – the ring of a queue and a bounded buffer;
  `UcosFlagList` and `WaitSet` – the links of a wait list and a set that a walk visits;
  `UcosMem` and `BlockPool` – a partition and a pool of blocks; `UcosDelay` –
  `OSTimeDlyHMSM` in numbers, 16-bit parts and rounding; `UcosStat` – the CPU usage;
  `UcosApp` – the application's queue, on `UcosRing`;
* `UcosPartsProofs` – the theorems about the parts, one section each;
* `MCUcosKernel`, `MCUcosSem`, `MCUcosMutex`, `MCUcosMsg`, `MCUcosFlag`,
  `MCUcosParts` – instances for TLC.

`MCUcosParts` puts the parts that share no state with the scheduler side by side:
`Init` chooses one, and the behaviour is one of that part while the others stand
still. Each part is therefore checked in full and by itself.

Definitions with the comment *Mutant* are not part of the model. Each is a
plausible bug in one definition, and each property has one that violates it.

## 3. What the runs check

| Run | Question | States | Result |
|---|---|---|---|
| `kernel_lock` | Do scheduler and tables survive creation, deletion, suspension and delays under a nested scheduler lock, with ticks and resumes from handlers? Does only `OSTaskResume` end a suspension? | 639 k | holds |
| `kernel_prio` | The same calls without the lock and with ticks only, but with changes of priority, one priority to spare and more creations than TCBs; `KernelInv` is checked here | 1.3 M | holds |
| `sem` | Do post, pend, timeout, suspension and early resume of three tasks, with posts, sets and accepts from handlers, implement `PrioSem`, do return codes tell the truth, and is `SemInv` invariant? | 379 k | holds |
| `live` | With semaphores created and deleted under their users: is a wakeup, a task or a switch lost, and do delays and pends with a timeout end? | 213 k | holds |
| `mutex` | Is there one owner, does it outrank its waiters, does it get its own priority back, is `MutexInv` invariant, and is every interleaving a behaviour of `PrioLock`? | 661 k | holds |
| `msg` | Are queues and mailboxes, created and deleted over a pool of blocks, behaviours of `PrioQueue`, do the pools keep their blocks, and is `MsgInv` invariant? | 517 k | holds |
| `flag` | Do wait nodes live as long as they are linked, is no set flag missed, does a woken task know why, also with deletion of waiters and of the group; is `FlagInv` invariant? | 354 k | holds |
| `parts` | Bitmaps, `OSTimeDlyHMSM`, ring, application, partition, wait list and CPU usage, each against what it stands for | 94 k | holds |
| `kernel_prio_locked` | `RunsHighest` with changes of priority under the lock | | violated |
| `sem_change_prio` | Does a wait list only hold tasks when a timed-out task changes its priority? | | violated |
| `mutex_post` | `RunsHighest` with mutexes | | violated |
| `flag_missed` | Does no task wait for flags that are there when the group has both senses of waits? | | violated |

The four violations are the findings of `PROJECT.json`:

1. *Stale `OSPrioCur`.* `OSTaskChangePrio` does not update `OSPrioCur`. A task that
   lowers its own priority under `OSSchedLock`, while another one takes its old
   priority, keeps the processor after `OSSchedUnlock`: `OS_Sched` finds
   `OSPrioHighRdy == OSPrioCur`.
2. *A ghost in the wait list.* A task whose pend timed out is ready and still in the
   wait list until it runs `OS_EventTO`. `OSTaskChangePrio` in that interval leaves
   its old priority in the list; the next post takes `OSTCBPrioTbl` of it, which is 0.
3. *A post without a scheduler.* `OSMutexPost` gives an inherited priority back and,
   if nobody waits any more, returns without `OS_Sched`: the poster goes on before
   a ready task that outranks it. `OutrankedOnlyAfterPost` (run `mutex`) says that
   this is the only case, and that the next `OS_Sched` or interrupt ends it.
4. *Consumption wakes nobody.* A pend for cleared flags that consumes them sets
   them, and a task that waits for them to be set stays blocked until a post.

Three more facts came up that are no state of a run. `OSSemDel` with
`OS_DEL_ALWAYS` wakes its waiters with `OS_NO_ERR`, as a post would, so
`PendTellsTruth` is stated for semaphores that are not deleted. `timer.c` ticks every
10 ms while `os_cfg.h` says 200 ticks a second, so delays last twice as long as
`OSTimeDlyHMSM` is asked for. And `isMsgInQueue` does not look at a full ring, where
its two pointers coincide: `SentOnce` holds all the same, for `OSQPost` refuses then.

`KernelInv` and the theorems exclude the first by the rules of use `SafeUse`. These
also keep `OSTaskSuspend` and `OSTaskChangePrio` out of handlers, for the code does
not refuse them there and `OSTaskDel` does not survive them in its window: a
handler that suspends and then resumes the task being deleted makes its TCB ready.

**Bounds.** Three application tasks and the idle task are enough for a task that
acts, one it acts on and one that preempts both; two waiters and a poster; a
deletion under a creation; an owner, the task it inherits from and one in between.
Where two tasks do (`live`, `msg`, `flag`), handlers are the third party: they post
and resume between any two steps. Three or four user priorities make every outranking;
in `kernel_prio` one is free so that a creation can run out of TCBs, in `mutex` one
is the pip. Delays of one tick distinguish waiting from due (the tick counts down
by one whatever the number). Counts up to 2 reach zero, one, more, and the limit.
Locks nest twice in `kernel_lock`: the last unlock and an inner one. Handlers make
one call per interrupt, as `irq_handler` does, and there are any number of
interrupts. `msg` has two event blocks and one queue block, so that either pool
runs out first, queues of two places (order is seen) and mailboxes of one; `flag` has
two flags (any and all differ), and one group. In `parts` eleven priorities make a
full row of eight and a partial one; the ring has three places and four messages,
the partition three blocks whose owners write any block's address into them, the
list three nodes; the delays are every millisecond value once, and the seconds
around 65536 ticks, where the 16-bit parts change, up to 255 hours; the usage is
computed with the idle task having none, half or all of each tick.

`CHECK_DEADLOCK FALSE` is set in `parts` only: the call of `OSTimeDlyHMSM` returns
and its module ends.

**Fairness** (`Fairness` in `UcosSem`). Timer 0 reloads itself, so interrupts keep
coming (weak fairness of `OSIntEnter`), handlers return (`OSIntExit`), and the tick
is among the interrupts again and again (strong fairness of `OSTimeTick`, for other
devices interrupt as well). Between two interrupts the processor executes the
running task, so its next region or `OS_Sched` is not put off for ever (strong
fairness of `OS_Sched` and of the regions of a pend). Nothing is assumed of what
applications call: no task need post, resume or yield. Therefore
`TimedPendReturns` is stated for the task that nothing outranks.

## 4. What is proved

TLAPS checks all of this section with no step left out. The assumptions on the
constants are in the modules (`CoreAssumption`, `SemAssumption`, ...) and TLC
evaluates them in the runs.

**Kernel** (`UcosKernelProofs`), for any finite or infinite set of tasks, any number of
priorities and ticks, any `InitPrio`, and any sets of calls that satisfy `SafeUse`
and leave mutexes out (`~Inherits`; with them `RunsHighest` does not hold, finding 3):

* `KernelCorrect`: `KernelSpec => []KernelInv`;
* its consequences `TypeCorrect`, `TablesAlwaysAgree`, `NoTaskLost`,
  `DispatchIsSafe`, `HighestRuns`;
* `SuspensionHolds`: the action property `OnlyResumeEndsSuspension`.

`KernelInv` is `CoreInv` and `RunsHighest`. `CoreInv` is what also holds with mutexes
and with posts that do not schedule, so that the proofs of those components rest
on it; its lemmas (`StepKeeps`, ...) are stated for both. None of the properties is
inductive by itself. What `CoreInv` adds, and why:

* `CurrentKnown`: the running task is at `OSPrioCur`, *or* it stands before its
  `OS_Sched` and `OSPrioCur` has no task, *or* a mutex took back the priority it was
  switched in at. Without it a dispatch could wrongly keep the current task, and
  `RunsHighest` would not follow from the switch.
* `CreationsApart`: a creation under way owns its reserved priority and, later, a
  TCB that is in neither list; two creations have different priorities. Without
  it linking the TCB could overwrite an entry.
* `DeletionHolds`: in the window of `OSTaskDel` the scheduler is locked, the task
  in the window is the running one, and its victim waits for nothing. If it
  deletes itself that lock is the only one, so that `OSTaskDel_Free` unlocks the
  scheduler and the following `OS_Sched` really leaves the freed TCB.
* `IdleStays`: the idle task always is at its priority and ready, so there always
  is a priority to dispatch.
* `LockUnused`: where the application does not lock, only a deletion does; this
  is what lets changes of priority and `OSPrioCur` coexist.

There is one lemma per action (`TimeTicks`, `SchedRuns`, `TcbTaken`, `DelFrees`,
`PrioChanges`, ...), with a step for each conjunct the action can disturb, and
shared lemmas for `DelayEnds`, `Dispatch` and leaving a service.

**Semaphores** (`UcosSemProofs`), for any number of tasks, priorities, semaphores and units, and any
calls that satisfy `SemSafeUse` (`SafeUse`, no change of priority, semaphores made
before `OSStart` and not deleted; deleting, creating and suspending tasks is allowed):

* `SemCorrect`: `Spec => []SemInv`, where `SemInv` is `KernelInv` again, now with the
  steps of semaphores among the others, the types, `PendTellsTruth` and `PendInv`;
* its consequences `SemTypeCorrect` (a count stays in its 16 bits), `WaitListsExact`,
  `PendTruthful`, `SemKeepsKernel`;
* `NoLostWakeup`: `NoUnitWhileWaiting`, which needs nothing but that no priority
  changes, and holds for semaphores that are created and deleted as well.

What `PendInv` adds, and why. `PendExact` ties `OSTCBEventPtr`, `OSTCBStat`,
`OSTCBPendTO`, the place of the task in `OSSemPend` and the history of units
together: it is what tells a task that timed out from one that a post reached
first, in the interval before it runs. `WaitersStay` and `NewTcbsClean` say that
the victim of a deletion has left every list and that a TCB taken for a new task
carries nothing over, `OthersOutside` that tasks not in use stand in no service,
`NoPendLocked` that nobody waits under the lock. The proofs for the steps of
`UcosKernel` reuse the lemmas of `UcosKernelProofs`.

The refinement is `SemImplementsPrioSem`: every step of the kernel is a step of
`PrioSem` or a stutter, for an application that satisfies `RefSafeUse`:
`SemSafeUse`, one semaphore, and all tasks made before `OSStart`. The mapping reads the
state of a task off its last pend, so a second semaphore would need a second
mapping; a task made later could take the priority, and with it the place among the
abstract waiters, of a deleted one. The invariant is `RefInv`: `SemInv` and `OwnPrio`,
that a task keeps the priority it was made with. There is one lemma per kind of
step (`TakeMaps`, `WaitMaps`, `ServeMaps`, `TimeoutMaps`, ...); `WaiterKnown` and
`RunnerKnown` say what `SemInv` means for the tasks the mapping calls waiting.

**Event flags** (`UcosFlagProofs`), for any number of tasks, priorities, groups and flags, any masks but
the empty one, and any calls that satisfy `SafeUse`, without mutexes; groups may be made and deleted
(rule `Apart`), tasks made, deleted and suspended:

* `FlagCorrect`: `Spec => []FlagInv`, where `FlagInv` is `KernelInv` again, the types,
  `WaitInv` and, under `OneSense`, `NoMissedFlags`;
* its consequences `FlagTypeCorrect`, `NodesStayAlive`, `WokenTruthfully`,
  `FlagsKeepKernel`, and `NoFlagsMissed`, which assumes `OneSense`.

What `WaitInv` adds, and why. `NodeExact` ties a task's node to `OSTCBStat` and
`OSTCBPendTO`: a node is linked while its task waits or has timed out unnoticed, which
is how the task tells a timeout from a post that came after it. `FlagsRdyRight` says
what `OSTCBFlagsRdy` holds between the post and the moment the task runs, when
`OSFlagPend` reads it. `GroupsKnown` says that a task on its way into `OSFlagPend`
finds its group in use, for a deletion waits until it is out of the way. `CurrentAwake`
says that whoever runs on in a pend waits for nothing; `NewTcbsClean`,
`OthersOutside` and `NoPendLocked` are what they are for semaphores. `SensesAgree`
carries the rule `OneSense` from the calls to the later regions, where the lemma
`ConsumedWakesNobody` needs it: what a woken task consumes makes no other wait of the
same sense true. A step of the kernel is treated once, in `FlagFrame`, with the set
of tasks whose nodes it unlinks; a region of the services is one that wakes nobody,
wakes some, or consumes (`FlagQuiet`, `FlagWakes`, `FlagConsumes`).

**Event blocks** (`UcosEventProofs`). Mailboxes, queues and mutexes share the event
block, and the lemmas of this module are stated once for all of them: what making a
task wait, waking one, a timeout, taking and freeing a block and every step of the
kernel do to `EventInv`. It is `CoreInv` and

* `WaitListExact` (each listed priority is a task's), `WaitersStay` (not one that is
  being deleted) and `WaitersRanked` (it is listed at the priority it has);
* `PendLinked`: `OSTCBEventPtr` is set exactly while a task waits or has timed out
  unnoticed, and is the block the task is inside its pend for. A post clears it and
  a timeout leaves it: this is all that tells the two apart until the task runs;
* `PendersKnow`, `NoPendLocked`, `NewTcbsClean`, `RunnerReady`, as for semaphores;
* `BlocksApart`: nobody waits for a free block, and the block that a create service
  has taken is that service's alone until it is initialised.

`FreeListSound` is about the linked list of free blocks: following the links one comes
to blocks that are free, each once. It comes to all of them if `OSTaskDel` is not
called: a task deleted in the middle of a create service loses the block it had taken.

**Mailboxes and queues** (`UcosMsgProofs`), for any number of tasks, priorities, blocks,
queue blocks, places and messages, created and deleted under their users (rule
`Apart`), and any calls that satisfy `MsgSafeUse`:

* `MsgCorrect`: `Spec => []MsgInv`, that is `EventInv`, the types, `FreeListSound`,
  `QBlocksCounted` and the two properties;
* `MsgTypesHold` (no queue outgrows its ring); `NoMessageLeft`, no message lies where a
  task waits; `OutrankedByChoice`, a ready task outranks the running one only after a post with
  `OS_POST_OPT_NO_SCHED`; `PoolsStayExact`, neither pool of blocks leaks, for
  applications that do not delete tasks (the assumption is needed, as said above);
* `MsgImplementsQueue`: `Spec => ImplementsPrioQueue` for each queue and mailbox, under
  `RefSafeUse`: in addition no task is made or deleted after `OSStart`, as the abstract
  queue knows its tasks by a fixed priority.

The refinement maps a task by where its pend has got to (`State`): it waits for the
abstract queue while it is in the block's wait list, which by `MsgInv` is while its
`OSTCBEventPtr` is the block (`StatesByPtr`, `WaitingIs`); a message counts
as received from when the post leaves it in `OSTCBMsg`, though the task comes to read it
only when it runs; and a timed-out task leaves the abstract waiters when it runs.
`RefInv` is `MsgInv` and two parts more: `OwnPrio`, each task has the priority it was
made with, and `GotExact`, which ties the history variable of messages received to
`OSTCBMsg` (a task inside its pend has got nothing yet, and no message lies in a TCB
otherwise). There is one lemma per kind of step (`AskMaps`, `ReceiveMaps`,
`WaitForMaps`, `ServeMaps`, `PutMaps`, `DropMaps`, `PendTimeoutMaps`, `PendDoneMaps`),
the making of a block is the abstract `Open` and its deletion `Close`; the steps of the
kernel map to none (`MsgKernelMaps`).

**Mutexes** (`UcosMutexProofs`), for any number of tasks, mutexes and priorities, and any
calls that satisfy `MutexSafeUse`:

* `MutexCorrect`: `Spec => []MutexInv`; its consequences `MutexTypesHold`, `OneOwner`,
  `NoInversionEver` (the owner outranks all that wait), `PrioritiesGivenBack`,
  `OutrankedAfterPost` (finding 3 is the only case of its kind) and `MutexDispatchSafe`
  (every switch is to a task in use);
* `MutexImplementsLock`: `Spec => ImplementsPrioLock` for each mutex.

Inheritance is what makes the invariant large. What `MutexInv` adds, and why:

* `BytesExact`: the low byte of `OSEventCnt` is the owner's own priority, the high byte
  the pip. It holds the only copy of the priority to give back.
* `PipsApart`: each pip is one mutex's, and `OSTCBPrioTbl` has there the reservation or the
  owner. Without it the deletion of a mutex could clear another task's entry.
* `OwnsOne`: nobody owns two mutexes or owns one and waits for another; the rules of
  use above in the form a state can keep. So whoever waits has its own priority, and to
  inherit never moves a task that is in a wait list.
* `AvailableUnawaited`: nobody waits for a mutex that is to be had, so that whoever
  accepts or takes one need not outrank anybody.
* `HoldsExact`: what a task was told it holds it owns, and what a post did for a task
  that has not yet run since is still there. It relates the history variable
  `holds`, which `MutualExclusion` speaks of, to the owner in the event block.
* `SwitchedRight`: after a post took back the priority that the running task was
  switched in at, no other task moves to that priority before the next switch;
  otherwise `OS_Sched` would find `OSPrioHighRdy == OSPrioCur` and switch to nobody.
* `TasksFixed`, `InsideLive`: no task comes or goes, and whoever is inside a service
  finds its mutex in use.

In the refinement a task waits for `PrioLock` when its `OSTCBEventPtr` is the mutex
(`WaitersByPtr`), whatever happened to its priority; as a waiter owns nothing, it
is listed at its own priority, and the waiter a post finds first is the one
`PrioLock` chooses. A timed-out task leaves the abstract waiters when it runs, as in
the code, so a post in between may still pass the mutex to it.

**Parts** (`UcosPartsProofs`):

* bitmaps, for every `OS_LOWEST_PRIO` up to 63 and every table that gives the lowest bit
  of a byte (`BitmapAssumption`; `MCUcosParts` has TLC check it of the source's table):
  `GroupStaysExact` (rows and group byte stay in step), `BitmapImplementsSet`;
* the ring, for every size: `EndsAgree` (`OSQIn`, `OSQOut` and `OSQEntries` agree around
  the wrap), `RingImplementsBuffer`;
* the application's queue, for every size and any messages, if `Outranks`:
  `MessagesSentOnce`. `AppInv` says how far the walk of `isMsgInQueue` has compared
  (`Unlike`) and that no message is in the queue twice (`Distinct`);
* partitions, for every number of blocks and whatever owners write into them:
  `FreeBlocksExact` (following the links one comes to each free block once),
  `MemImplementsPool`. The history `chain` names the position of each free block, so
  that "once and ends" is a statement without recursion;
* wait lists of flags, for any set of nodes: `LinksStayExact` (the links are the order
  of insertion, both ways), `ListImplementsSet` (a walk comes to each node once, also
  when it takes nodes out as it goes). `older`, the nodes put in before each one, plays
  the part that `chain` plays for a partition;
* delays, for every request: `ResumeEndsOnePart` (a resume
  cuts one part of a long delay and no more) and `DelayIsRounded` (nobody resuming, the
  sleep is the time asked for, rounded to a tick), the latter for rates that divide 1000,
  as the 200 ticks of `os_cfg.h` do. Otherwise it does not hold: with 300 a second TLC
  shows 2 ms sleeping 0 ticks where 1 is nearest, as `os_time.c:82` divides first;
* CPU usage, for every rate at which the idle task counts, from 10000 turns in a tenth of a
  second up: `UsageStaysRight`. `StatInv`
  measures `OSIdleCtr` against the time left until a report, so that the two delays,
  of `OSStatInit` and of the statistics task, may be in any phase.

Only model-checked: the two liveness properties of `live` (liveness under fairness is
beyond the prover) and the four violations. Every other property of a run is stated by a
theorem. The inductive invariants were checked by TLC on these runs' instances first.

## 5. What is not modelled, and why

Register contents and stack frames (`Os_cpu_c.c`, the `STM/LDM` sequences) and with
them the stack check, which reads stack contents; names; hooks (empty in this
port); queries, which change no state; `OSTime` (nothing in the kernel reads it);
`OSTaskDelReq`, a flag the tasks agree on; `OSFlagPendGetFlagsRdy`, which returns a
field of the caller's own TCB. What messages point to is not modelled either: that
`Task0` rewrites its one buffer while its address is in the queue is a hazard
without a property. Nested ownership of mutexes, where a post gives the priority back
that the other mutex still needs, is excluded by a rule of use (section 2). `os_tmr.c` is compiled out.

By its number of lines this repository is a tool chain (compiler plug-in and C++
library headers, vendored), fonts, bitmaps and a drawing library around a kernel of
a few thousand lines. Those, the drivers, the C library and the bootloader do not
touch kernel state, so no model of them would say more than their text does. Of the
kernel, every service of every component above is modelled but for the ones named here.

## 6. What is left

Two mutexes held at once, with the rule of use under which nested ownership gives
priorities back rightly.
