----------------------------- MODULE MCUcosSem -----------------------------
EXTENDS UcosSemRefinement, TLC

CONSTANTS t1, t2, t3, e1, e2

MCInitPrio == t1 :> 0 @@ t2 :> 1 @@ t3 :> 2
MCInitPrio2 == t1 :> 0 @@ t2 :> 1
MCInitCnt == e1 :> 1
MCInitCnt0 == e1 :> 0

=============================================================================
