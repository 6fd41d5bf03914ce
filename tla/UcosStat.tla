------------------------------ MODULE UcosStat ------------------------------
(***************************************************************************)
(* The CPU usage (OSStatInit and OS_TaskStat of os_core.c): the task that  *)
(* calls OSStatInit measures how far the idle task counts in a tenth of a  *)
(* second with nothing else to do, and the statistics task compares every  *)
(* later tenth with that.  Time goes by in ticks; the idle task has the    *)
(* CPU, or a share of it, between two of them.                             *)
(***************************************************************************)
EXTENDS Integers

CONSTANTS
  Window,          \* OS_TICKS_PER_SEC / 10
  PerTick,         \* the turns of the idle task in a tick that is all its own
  Share,           \* the turns it does in a tick under load
  Before           \* the ticks the first task may have waited when it calls OSStatInit

\* That the idle task counts to 10000 at least keeps the rounding of OSIdleCtrMax / 100
\* below 1%; in 32 bits no counter wraps.  Rule of use: OSStatInit comes soon enough to
\* be done when the statistics task looks for OSStatRdy next (MainTask calls it before
\* it ever waits).  Otherwise the first report is over as much as 2.95 tenths of a
\* second, and 100 - 246, say, is 110 in an INT8S.
ASSUME StatAssumption ==
  /\ Window \in Nat \ {0} /\ PerTick \in Nat
  /\ PerTick * Window \in 10000 .. 2 ^ 30 /\ Share \subseteq 0 .. PerTick
  /\ \A b \in Before : b \in Nat /\ (b % (2 * Window)) + 2 + Window <= 2 * Window

VARIABLES
  OSIdleCtr, OSIdleCtrMax, OSIdleCtrRun, OSStatRdy, OSCPUUsage,
  max,             \* OS_TaskStat's
  phase, initDly,  \* OSStatInit: "sync", "measure" or "done", and its task's OSTCBDly
  statDly,         \* OSTCBDly of the statistics task
  reports          \* history: the reports made, 2 standing for more
statVars == <<OSIdleCtr, OSIdleCtrMax, OSIdleCtrRun, OSStatRdy, OSCPUUsage, max, phase,
              initDly, statDly, reports>>

\* The first task outranks the statistics task, which runs when the first task waits
\* for the first time: in OSStatInit, or before.
StatInit ==
  /\ OSIdleCtr = 0 /\ OSIdleCtrMax = 0 /\ OSIdleCtrRun = 0
  /\ OSStatRdy = FALSE /\ OSCPUUsage = 0
  /\ max = 0 /\ reports = 0
  /\ phase = "sync" /\ initDly \in {b + 2 : b \in Before}
  /\ statDly = 2 * Window

\* A tick, and what the idle task did before it.  A statistics task that tasks of higher
\* priorities hold up is left out: the idle task does nothing meanwhile.
Tick ==
  /\ phase = "done" \/ initDly > 0
  /\ statDly > 0 /\ statDly' = statDly - 1
  /\ initDly' = IF phase = "done" THEN 0 ELSE initDly - 1
  /\ \E n \in IF OSStatRdy THEN Share ELSE {PerTick} : OSIdleCtr' = OSIdleCtr + n
  /\ UNCHANGED <<OSIdleCtrMax, OSIdleCtrRun, OSStatRdy, OSCPUUsage, max, phase, reports>>

\* OSStatInit after its first delay, and after its second.
OSStatInit_Sync ==
  /\ phase = "sync" /\ initDly = 0
  /\ OSIdleCtr' = 0
  /\ phase' = "measure" /\ initDly' = Window
  /\ UNCHANGED <<OSIdleCtrMax, OSIdleCtrRun, OSStatRdy, OSCPUUsage, max, statDly, reports>>
OSStatInit_Measure ==
  /\ phase = "measure" /\ initDly = 0
  /\ OSIdleCtrMax' = OSIdleCtr /\ OSStatRdy' = TRUE
  /\ phase' = "done"
  /\ UNCHANGED <<OSIdleCtr, OSIdleCtrRun, OSCPUUsage, max, initDly, statDly, reports>>

\* The statistics task runs when no other task does.
StatRuns == statDly = 0 /\ (phase = "done" \/ initDly > 0)

OS_TaskStat_Wait ==
  /\ StatRuns /\ ~OSStatRdy
  /\ statDly' = 2 * Window
  /\ UNCHANGED <<OSIdleCtr, OSIdleCtrMax, OSIdleCtrRun, OSStatRdy, OSCPUUsage, max, phase,
                 initDly, reports>>

\* (INT8S)
Int8(n) == ((n + 128) % 256) - 128

\* OSCPUUsage for r turns of the idle task, where m is a hundredth of the maximum.
Usage(r, m) ==
  LET usage == Int8(100 - r \div m) IN IF m > 0 /\ usage >= 0 THEN usage ELSE 0

\* Mutant: the turns are counted on.
OS_TaskStat_NoReset ==
  /\ StatRuns /\ OSStatRdy
  /\ max' = OSIdleCtrMax \div 100
  /\ OSIdleCtrRun' = OSIdleCtr
  /\ OSCPUUsage' = Usage(OSIdleCtr, max')
  /\ statDly' = Window /\ reports' = IF reports = 0 THEN 1 ELSE 2
  /\ UNCHANGED <<OSIdleCtr, OSIdleCtrMax, OSStatRdy, phase, initDly>>

\* max is computed once; OSIdleCtrMax does not change any more.
OS_TaskStat ==
  /\ StatRuns /\ OSStatRdy
  /\ max' = OSIdleCtrMax \div 100
  /\ OSIdleCtrRun' = OSIdleCtr /\ OSIdleCtr' = 0
  /\ OSCPUUsage' = Usage(OSIdleCtr, max')
  /\ statDly' = Window /\ reports' = IF reports = 0 THEN 1 ELSE 2
  /\ UNCHANGED <<OSIdleCtrMax, OSStatRdy, phase, initDly>>

StatNext == Tick \/ OSStatInit_Sync \/ OSStatInit_Measure \/ OS_TaskStat_Wait \/ OS_TaskStat
StatSpec == StatInit /\ [][StatNext]_statVars

---------------------------------------------------------------------------
\* "OSCPUUsage = 100 * (1 - OSIdleCtr / OSIdleCtrMax)" (os_core.c:1502-1505): to within
\* two percent, and a percentage also in the first report, which is over more than a
\* tenth of a second, so that the idle task may have done more than OSIdleCtrMax turns.
UsageRight ==
  /\ OSCPUUsage \in 0 .. 100
  /\ reports = 2 =>
       LET error == OSCPUUsage * OSIdleCtrMax - 100 * (OSIdleCtrMax - OSIdleCtrRun)
       IN  -2 * OSIdleCtrMax <= error /\ error <= 2 * OSIdleCtrMax
=============================================================================
