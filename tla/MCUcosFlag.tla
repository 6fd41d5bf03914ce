----------------------------- MODULE MCUcosFlag -----------------------------
EXTENDS UcosFlag, TLC

CONSTANTS t1, t2, g1

MCInitPrio == t1 :> 0 @@ t2 :> 1
MCMasks == {{1}, {1, 2}}
MCWaits == {[set |-> s, all |-> ~c, consume |-> c] : s, c \in BOOLEAN}
=============================================================================
