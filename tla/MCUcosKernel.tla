---------------------------- MODULE MCUcosKernel ----------------------------
EXTENDS UcosKernel, TLC

CONSTANTS t1, t2, t3

MCInitPrio == t1 :> 0 @@ t2 :> 1
=============================================================================
