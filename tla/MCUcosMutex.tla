---------------------------- MODULE MCUcosMutex ----------------------------
EXTENDS UcosMutexRefinement, TLC

CONSTANTS t1, t2, t3, m1

MCInitPrio == t1 :> 1 @@ t2 :> 2 @@ t3 :> 3
MCInitPrio2 == t1 :> 1 @@ t2 :> 2

=============================================================================
