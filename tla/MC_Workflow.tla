---------------------------- MODULE MC_Workflow ----------------------------
(* Two groups of runs, one group at a time.  In the first there is one     *)
(* run: a job and an external step whose ends decide, in both release      *)
(* modes, on two more jobs, an external step that is the append window,    *)
(* and an append of two steps behind all of them.  In the second two runs  *)
(* share an active key: in each a job and, behind it, an external step.    *)
EXTENDS Workflow

CONSTANTS r1, a, y, b, c, x, d, e, r2, a2, x2, r3, a3, x3, k1, k2

MCRunOf == [s \in Steps |-> CASE s \in {a2, x2} -> r2 [] s \in {a3, x3} -> r3 [] OTHER -> r1]
MCEdges == {<<a, b>>, <<y, b>>, <<b, c>>, <<a, d>>, <<d, e>>, <<x, e>>, <<a2, x2>>, <<a3, x3>>}
MCOnSuccess == {<<a, b>>, <<y, b>>, <<a, d>>, <<d, e>>, <<a2, x2>>}
MCAppendOf == [m \in Appends |-> {d, e}]
MCActiveKey == [r \in Runs |-> IF r = r1 THEN k1 ELSE k2]

(* Runs of different groups share no row, so nothing is lost.              *)
OneGroup == \A r, q \in {r \in Runs : run[r] # "ABSENT"} : ActiveKey[r] = ActiveKey[q]

MCSpec == Init /\ [][Next /\ OneGroup']_vars /\ Fairness({r2, r3})

(* Every run with an active key in contention comes to an end, although    *)
(* jobs are retried, canceled and continued and its enqueue may have to    *)
(* wait for the other run; and its key is given back, at once or, when a   *)
(* canceled handler may still be running, by the reaper's cleanup.         *)
RunsEndAndFreeTheirKeys == \A r \in {r2, r3} : RunEnds(r) /\ ActiveKeyFreed(r)
=============================================================================
