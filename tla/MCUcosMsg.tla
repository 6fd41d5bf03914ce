----------------------------- MODULE MCUcosMsg -----------------------------
EXTENDS UcosMsgRefinement, TLC

CONSTANTS t1, t2, e1, e2

MCInitPrio == t1 :> 0 @@ t2 :> 1
MCInitType == e1 :> "Q"
MCPostOpts == {{"FRONT", "BROADCAST"}, {"NO_SCHED"}}

=============================================================================
