---------------------------- MODULE MC_JobQueue ----------------------------
(***************************************************************************)
(* Two jobs that share one execution resource and two workers, one of      *)
(* which registered the type of one job only.                              *)
(***************************************************************************)
EXTENDS JobQueue, TLC

CONSTANTS j1, j2, w1, w2, r1

MCResourceOf == [j \in Jobs |-> r1]
MCPriority == (j1 :> 1) @@ (j2 :> 2)
MCMaxAttempts == (j1 :> 2) @@ (j2 :> 1)
MCMaxRun == (j1 :> 2) @@ (j2 :> 1)
MCJobTypes == (w1 :> Jobs) @@ (w2 :> {j1})
=============================================================================
