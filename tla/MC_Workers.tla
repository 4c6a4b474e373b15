----------------------------- MODULE MC_Workers -----------------------------
(***************************************************************************)
(* Two jobs that share an execution resource, two workers that may crash.  *)
(***************************************************************************)
EXTENDS WorkerLeases, TLC

CONSTANTS j1, j2, w1, w2, r1

MCResourceOf == [j \in Jobs |-> r1]
MCPriority == [j \in Jobs |-> 1]
MCMaxAttempts == (j1 :> 2) @@ (j2 :> 1)
MCMaxRun == (j1 :> 2) @@ (j2 :> 1)
MCJobTypes == [w \in Workers |-> Jobs]

(* The workers register the same types: they are interchangeable.          *)
MCSymmetry == Permutations(Workers)
=============================================================================
