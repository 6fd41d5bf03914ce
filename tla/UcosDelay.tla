----------------------------- MODULE UcosDelay -----------------------------
(***************************************************************************)
(* OSTimeDlyHMSM (os_time.c): a delay in hours, minutes, seconds and       *)
(* milliseconds, made of OSTimeDly calls with 16-bit tick counts.  Between *)
(* them another task may end one early with OSTimeDlyResume.               *)
(***************************************************************************)
EXTENDS Naturals

CONSTANTS
  OS_TICKS_PER_SEC,
  Request          \* the delays asked for, as <<hours, minutes, seconds, milli>>

ASSUME DelayAssumption ==
  /\ OS_TICKS_PER_SEC \in 1 .. 500
  /\ Request \subseteq (0 .. 255) \X (0 .. 59) \X (0 .. 59) \X (0 .. 999) \ {<<0, 0, 0, 0>>}

VARIABLES
  asked,           \* the request
  ticks,           \* the ticks of the next OSTimeDly
  loops,           \* the delays of 2 * 32768 ticks still to do
  half,            \* the first of the two is done
  slept,           \* the ticks the task was delayed for, up to now
  resumed          \* how often a delay was ended early
delayVars == <<asked, ticks, loops, half, slept, resumed>>

Seconds(r) == r[1] * 3600 + r[2] * 60 + r[3]

\* Mutant: the milliseconds are rounded down.
AllTicks_Down(r) == Seconds(r) * OS_TICKS_PER_SEC + (OS_TICKS_PER_SEC * r[4]) \div 1000

\* The whole delay in ticks.  It stays below 2^29, so INT32U holds it.
AllTicks(r) == Seconds(r) * OS_TICKS_PER_SEC
               + (OS_TICKS_PER_SEC * (r[4] + 500 \div OS_TICKS_PER_SEC)) \div 1000

\* The call computes both counters; loops and the argument of OSTimeDly are INT16U.
DelayInit ==
  /\ asked \in Request
  /\ ticks = AllTicks(asked) % 65536
  /\ loops = (AllTicks(asked) \div 65536) % 65536
  /\ half = FALSE /\ slept = 0 /\ resumed = 0

\* Mutant: one delay of 32768 ticks for each loop.
Advance_Single ==
  /\ IF loops = 0 THEN ticks' = 0 /\ UNCHANGED loops
                  ELSE ticks' = 32768 /\ loops' = loops - 1
  /\ UNCHANGED half

\* The loop goes on to its next OSTimeDly, or the call returns (ticks = 0, loops = 0).
Advance ==
  IF loops = 0 THEN ticks' = 0 /\ UNCHANGED <<loops, half>>
  ELSE /\ ticks' = 32768
       /\ half' = ~half
       /\ loops' = IF half THEN loops - 1 ELSE loops

Delay == slept' = slept + ticks /\ Advance /\ UNCHANGED <<asked, resumed>>

\* OSTimeDlyResume, which ends the OSTimeDly under way (bound: once in a delay).
Resume == /\ ticks > 0 /\ resumed = 0 /\ resumed' = 1
          /\ Advance /\ UNCHANGED <<asked, slept>>

DelayNext == (ticks > 0 \/ loops > 0) /\ (Delay \/ Resume)
DelaySpec == DelayInit /\ [][DelayNext]_delayVars

---------------------------------------------------------------------------
Returned == ticks = 0 /\ loops = 0

\* "The actual delay is rounded to the nearest tick" (os_time.c:82): by the time
\* the call returns, unless it was cut short, the task has slept for all of the
\* delay, to within half a tick, however many 16-bit delays that took.
RoundedToNearest ==
  Returned /\ resumed = 0 =>
    /\ slept >= Seconds(asked) * OS_TICKS_PER_SEC
    /\ LET d == 1000 * (slept - Seconds(asked) * OS_TICKS_PER_SEC)
           exact == OS_TICKS_PER_SEC * asked[4]
       IN  2 * d <= 2 * exact + 1000 /\ 2 * exact <= 2 * d + 1000

\* OSTimeDlyResume ends a delay of at most 65535 ticks; a longer one loses no
\* more than one of its parts ("you cannot resume a task that has called
\* OSTimeDlyHMSM() with a combined time that exceeds 65535 clock ticks").
ResumeCutsOnePart ==
  resumed = 1 =>
    /\ AllTicks(asked) <= 65535 => Returned
    /\ Returned => slept + (IF AllTicks(asked) % 65536 > 32768
                            THEN AllTicks(asked) % 65536 ELSE 32768) >= AllTicks(asked)

=============================================================================
