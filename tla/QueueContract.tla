--------------------------- MODULE QueueContract ---------------------------
(***************************************************************************)
(* What the job queue promises to those who enqueue, execute and           *)
(* administer jobs, whatever tables and triggers implement it: jobs that   *)
(* share an execution resource are executed one at a time, a run has a     *)
(* budget of executions, a cancellation takes no granted time back, and    *)
(* what is over stays over.  There are no claim rows, attempt rows or      *)
(* worker ids.                                                             *)
(***************************************************************************)
EXTENDS Naturals

CONSTANTS
  Jobs,           \* job ids
  ResourceOf,     \* execution resource of each job
  NoResource,     \* a job that needs none
  MaxAttempts,    \* executions that a run of each job may consume
  Terms           \* times that may be granted or added

VARIABLES
  phase,          \* ABSENT, PENDING, LEASED, SUCCEEDED, DEAD_LETTERED or CANCELED
  run,            \* number of the run
  spent,          \* executions consumed in this run
  begun,          \* the handler of this grant may have been called
  left            \* time that is left of what was granted

cvars == <<phase, run, spent, begun, left>>

ContractInit ==
  /\ phase = [j \in Jobs |-> "ABSENT"]
  /\ run = [j \in Jobs |-> 0]
  /\ spent = [j \in Jobs |-> 0]
  /\ begun = [j \in Jobs |-> FALSE]
  /\ left = [j \in Jobs |-> 0]

Submit(j) ==
  /\ phase[j] = "ABSENT"
  /\ phase' = [phase EXCEPT ![j] = "PENDING"]
  /\ run' = [run EXCEPT ![j] = 1]
  /\ UNCHANGED <<spent, begun, left>>

-----------------------------------------------------------------------------
(* The job is being executed, or was canceled while it was and may go on   *)
(* until the time that was granted is over.                                *)
Occupies(j) == phase[j] = "LEASED" \/ left[j] > 0

Share(j, k) == j # k /\ ResourceOf[j] # NoResource /\ ResourceOf[j] = ResourceOf[k]

(* A grant consumes an execution of the budget, and nobody else may be     *)
(* using the resource.                                                     *)
Grant(j, term) ==
  /\ phase[j] = "PENDING" /\ spent[j] < MaxAttempts[j]
  /\ \A k \in Jobs : Share(j, k) => ~Occupies(k)
  /\ phase' = [phase EXCEPT ![j] = "LEASED"]
  /\ spent' = [spent EXCEPT ![j] = @ + 1]
  /\ left' = [left EXCEPT ![j] = term]
  /\ UNCHANGED <<run, begun>>

Begin(j) ==
  /\ phase[j] = "LEASED" /\ left[j] > 0
  /\ begun' = [begun EXCEPT ![j] = TRUE]
  /\ UNCHANGED <<phase, run, spent, left>>

(* By its worker in time, or by a reaper that could not end it.            *)
Prolong(j, term) ==
  /\ phase[j] = "LEASED"
  /\ left' = [left EXCEPT ![j] = term]
  /\ UNCHANGED <<phase, run, spent, begun>>

-----------------------------------------------------------------------------
Leave(j, next) ==
  /\ phase' = [phase EXCEPT ![j] = next]
  /\ begun' = [begun EXCEPT ![j] = FALSE]
  /\ left' = [left EXCEPT ![j] = 0]

NewRun(j) ==
  /\ Leave(j, "PENDING")
  /\ run' = [run EXCEPT ![j] = @ + 1]
  /\ spent' = [spent EXCEPT ![j] = 0]

(* Only a worker whose time is not over reports a success.                 *)
Succeed(j) ==
  /\ phase[j] = "LEASED" /\ left[j] > 0
  /\ Leave(j, "SUCCEEDED")
  /\ UNCHANGED <<run, spent>>

(* A worker may give the run up; without one it needs a spent budget.      *)
Fail(j) ==
  /\ phase[j] = "LEASED" /\ (left[j] > 0 \/ spent[j] = MaxAttempts[j])
  /\ Leave(j, "DEAD_LETTERED")
  /\ UNCHANGED <<run, spent>>

Retry(j) ==
  /\ phase[j] = "LEASED" /\ spent[j] < MaxAttempts[j]
  /\ Leave(j, "PENDING")
  /\ UNCHANGED <<run, spent>>

(* The execution is given back, because it has not begun.                  *)
HandBack(j) ==
  /\ phase[j] = "LEASED" /\ ~begun[j]
  /\ Leave(j, "PENDING")
  /\ spent' = [spent EXCEPT ![j] = @ - 1]
  /\ UNCHANGED run

Continue(j) == phase[j] = "LEASED" /\ left[j] > 0 /\ NewRun(j)

(* A cancellation leaves the time that was granted to the handler.         *)
Withdraw(j) ==
  /\ phase[j] \in {"PENDING", "LEASED"}
  /\ phase' = [phase EXCEPT ![j] = "CANCELED"]
  /\ begun' = [begun EXCEPT ![j] = FALSE]
  /\ UNCHANGED <<run, spent, left>>

(* Nothing leaves SUCCEEDED.                                               *)
Reopen(j) ==
  /\ phase[j] = "DEAD_LETTERED" \/ (phase[j] = "CANCELED" /\ left[j] = 0)
  /\ NewRun(j)

Pass ==
  /\ left' = [j \in Jobs |-> IF left[j] > 0 THEN left[j] - 1 ELSE 0]
  /\ UNCHANGED <<phase, run, spent, begun>>

JobStep(j) ==
  \/ Submit(j)
  \/ \E term \in Terms : Grant(j, term) \/ Prolong(j, term)
  \/ Begin(j) \/ Succeed(j) \/ Fail(j) \/ Retry(j) \/ HandBack(j) \/ Continue(j)
  \/ Withdraw(j) \/ Reopen(j)

ContractNext == Pass \/ \E j \in Jobs : JobStep(j)

ContractSpec == ContractInit /\ [][ContractNext]_cvars
=============================================================================
