----------------------------- MODULE MC_OneJob -----------------------------
(***************************************************************************)
(* One job: the smallest instance for the runs about what the              *)
(* documentation says of lease identities and of canceled handlers.        *)
(***************************************************************************)
EXTENDS WorkerLeases, TLC

CONSTANTS j1, w1, w2, r1

MCResourceOf == [j \in Jobs |-> r1]
MCPriority == [j \in Jobs |-> 1]
MCMaxAttempts == [j \in Jobs |-> 2]
MCMaxRun == [j \in Jobs |-> 2]
MCJobTypes == [w \in Workers |-> Jobs]
=============================================================================
