------------------------------ MODULE Workflow ------------------------------
(***************************************************************************)
(* Workflow runs: the rows of workflow_runs, workflow_steps,               *)
(* workflow_step_dependencies and workflow_active_claims, the jobs of the  *)
(* steps, and one action per transaction that changes them.                *)
(*                                                                         *)
(* Of a job only what a workflow sees is kept: its status and whether the  *)
(* deadline in lease_expires_at is still to come.  Module JobQueue has the *)
(* rest of its life.                                                       *)
(*                                                                         *)
(* A transaction is one step.  Transactions of one run meet on a step row, *)
(* on the run row (FOR UPDATE in the status recomputation) or on the       *)
(* advisory release lock, and a statement after such a wait reads what the *)
(* other one committed.  A transaction that meets a deadlock, a lock       *)
(* timeout or workflow.release_conflict is rolled back and is no step.     *)
(***************************************************************************)
EXTENDS Integers, FiniteSets

CONSTANTS
  Runs,           \* workflow runs
  Steps,          \* steps of all runs, the ones that may be appended included
  RunOf,          \* run of each step
  External,       \* steps with execution_kind EXTERNAL, the others are JOB
  Continuable,    \* steps with allow_handler_continuation
  Edges,          \* dependencies, <<prerequisite, dependent>>
  OnSuccess,      \* dependencies with release mode ON_SUCCESS, the others are ON_TERMINAL
  Appends,        \* mutation keys of append requests
  AppendOf,       \* steps of each append request
  Keys,           \* active keys
  NoKey,          \* the run has no active key
  ActiveKey       \* active key of each run

Prereqs(d) == {p \in Steps : <<p, d>> \in Edges}
StepsOf(r) == {s \in Steps : RunOf[s] = r}
Appended == UNION {AppendOf[m] : m \in Appends}

(* A dependency stays in its run and never leads back to a step of the     *)
(* first request; validate_workflow_run_enqueue and                        *)
(* validate_workflow_step_append reject cycles.                            *)
ASSUME WorkflowAssumption ==
  /\ IsFiniteSet(Steps)
  /\ RunOf \in [Steps -> Runs]
  /\ External \subseteq Steps
  /\ Continuable \subseteq Steps \ External
  /\ Edges \subseteq Steps \X Steps
  /\ \A e \in Edges : RunOf[e[1]] = RunOf[e[2]]
  /\ OnSuccess \subseteq Edges
  /\ AppendOf \in [Appends -> SUBSET Steps]
  /\ \A m \in Appends : \A s, t \in AppendOf[m] : RunOf[s] = RunOf[t]
  /\ \A e \in Edges : e[1] \in Appended => e[2] \in Appended
  /\ NoKey \notin Keys
  /\ ActiveKey \in [Runs -> Keys \cup {NoKey}]

ASSUME AcyclicAssumption ==
  \A S \in SUBSET Steps : S # {} => \E d \in S : Prereqs(d) \cap S = {}

VARIABLES
  run,            \* workflow_runs.status, ABSENT before the row is inserted
  step,           \* workflow_steps.status, ABSENT before the row is inserted
  pending,        \* workflow_steps.dependency_count_pending
  unsatisfied,    \* workflow_steps.dependency_count_unsatisfied
  job,            \* job_queue.status of the step's job, NONE while job_id IS NULL
  live,           \* the job's lease_expires_at is set and in the future
  active_claims   \* rows of workflow_active_claims

step_vars == <<step, pending, unsatisfied>>
vars == <<run, step_vars, job, live, active_claims>>

Terminal == {"SUCCEEDED", "FAILED", "CANCELED"}
StepStatuses == {"ABSENT", "BLOCKED", "ENQUEUED", "RUNNING", "WAITING_FOR_EXTERNAL"} \cup Terminal
OpenRun == {"RUNNING", "WAITING_FOR_EXTERNAL"}
ClosedRun == {"SUCCEEDED", "COMPLETED_WITH_ERRORS", "CANCELED"}
JobStatuses == {"NONE", "PENDING", "LEASED", "SUCCEEDED", "DEAD_LETTERED", "CANCELED"}
ActiveClaim == [key : Keys, run : Runs, release_pending : BOOLEAN]

(* The counters never go below zero: no terminal step is counted twice.    *)
TypeOK ==
  /\ run \in [Runs -> {"ABSENT"} \cup OpenRun \cup ClosedRun]
  /\ step \in [Steps -> StepStatuses]
  /\ pending \in [Steps -> Nat]
  /\ unsatisfied \in [Steps -> Nat]
  /\ job \in [Steps -> JobStatuses]
  /\ live \in [Steps -> BOOLEAN]
  /\ active_claims \subseteq ActiveClaim

Init ==
  /\ run = [r \in Runs |-> "ABSENT"]
  /\ step = [s \in Steps |-> "ABSENT"]
  /\ pending = [s \in Steps |-> 0]
  /\ unsatisfied = [s \in Steps |-> 0]
  /\ job = [s \in Steps |-> "NONE"]
  /\ live = [s \in Steps |-> FALSE]
  /\ active_claims = {}

-----------------------------------------------------------------------------
(* Active claims.                                                          *)

(* A canceled job whose handler may still be running.                      *)
LiveCanceled(r) == \E s \in StepsOf(r) : job[s] = "CANCELED" /\ live[s]

(* Mutant: the claim is released whatever still runs.                      *)
ReleaseAlways(r) == active_claims' = {c \in active_claims : c.run # r}

(* release_or_defer_workflow_active_claim, after the jobs were updated.    *)
ReleaseOrDefer(r) ==
  active_claims' =
    IF LiveCanceled(r)'
    THEN {IF c.run = r THEN [c EXCEPT !.release_pending = TRUE] ELSE c : c \in active_claims}
    ELSE {c \in active_claims : c.run # r}

-----------------------------------------------------------------------------
(* Dependency resolution.                                                  *)

(* Mutant: the release mode is not looked at.                              *)
UnsatisfiesAnyMode(p, d, succeeded) == <<p, d>> \in Edges /\ ~succeeded

(* load_direct_dependent_updates: what a terminal prerequisite adds to the *)
(* unsatisfied counter.                                                    *)
Unsatisfies(p, d, succeeded) == <<p, d>> \in OnSuccess /\ ~succeeded

(* Mutant: a prerequisite that ended before the append is forgotten.       *)
InsertedUnsatisfiedZero(d, new) == 0

(* Counters of a step row inserted with the steps new, by an enqueue or by *)
(* an append (initial_dependency_counters).                                *)
InsertedPending(d, new) ==
  Cardinality({p \in Prereqs(d) : p \in new \/ step[p] \notin Terminal})

InsertedUnsatisfied(d, new) ==
  Cardinality({p \in Prereqs(d) \ new :
                 step[p] \in Terminal /\ Unsatisfies(p, d, step[p] = "SUCCEEDED")})

(* Mutant: only RUNNING runs release steps.                                *)
ReleaseAllowedRunning(r) == run[r] \in {"ABSENT", "RUNNING"}

(* workflow_run_allows_step_release.  A run that is ABSENT is inserted as  *)
(* RUNNING by the same transaction.                                        *)
ReleaseAllowed(r) == run[r] \in {"ABSENT"} \cup OpenRun

(* The counters of step d after the terminal queue of a transaction that   *)
(* inserts the rows new and makes the steps finished terminal: each of     *)
(* them is taken from the queue once and counts once in its dependents.    *)
PendingAfter(d, new, finished) ==
  (IF d \in new THEN InsertedPending(d, new) ELSE pending[d]) -
    (IF d \in new \/ step[d] # "ABSENT" THEN Cardinality(Prereqs(d) \cap finished) ELSE 0)

UnsatisfiedAfter(d, new, finished, succeeded) ==
  (IF d \in new THEN InsertedUnsatisfied(d, new) ELSE unsatisfied[d]) +
    (IF d \in new \/ step[d] # "ABSENT"
     THEN Cardinality({p \in finished : Unsatisfies(p, d, p \in succeeded)}) ELSE 0)

(* enqueue_ready_or_canceled_dependent: the BLOCKED steps whose last       *)
(* prerequisite the transaction has finished, or that it inserted without  *)
(* an open one.                                                            *)
Resolved(new, ended, finished) ==
  {d \in Steps \ ended :
     /\ d \in new \/ (step[d] = "BLOCKED" /\ Prereqs(d) \cap finished # {})
     /\ PendingAfter(d, new, finished) = 0}

(* release_candidate_step: a job step gets its job, in the same            *)
(* transaction; an external step waits for its completion.                 *)
ReleasedAs(s) == IF s \in External THEN "WAITING_FOR_EXTERNAL" ELSE "ENQUEUED"

(* One transaction's effect on the steps of run r: the rows new are        *)
(* inserted, the steps ended take the terminal status st, and the terminal *)
(* queue is worked off.  A resolved step is released, or it is canceled    *)
(* and put on the queue itself.  skipped is the set of the steps canceled  *)
(* in this way; since the dependencies have no cycle one set satisfies the *)
(* equation, and it is the one the queue arrives at in whatever order.     *)
(* jobs is the job column after the transaction's own update.              *)
Resolve(r, new, ended, st, skipped, jobs) ==
  LET finished == ended \cup skipped
      succeeded == IF st = "SUCCEEDED" THEN ended ELSE {}
      resolved == Resolved(new, ended, finished)
      failed == {d \in resolved : UnsatisfiedAfter(d, new, finished, succeeded) # 0}
      released == IF ReleaseAllowed(r) THEN resolved \ failed ELSE {}
  IN  /\ skipped = failed
      /\ pending' = [d \in Steps |-> PendingAfter(d, new, finished)]
      /\ unsatisfied' = [d \in Steps |-> UnsatisfiedAfter(d, new, finished, succeeded)]
      /\ step' = [s \in Steps |->
           IF s \in ended THEN st
           ELSE IF s \in skipped THEN "CANCELED"
           ELSE IF s \in released THEN ReleasedAs(s)
           ELSE IF s \in new THEN "BLOCKED"
           ELSE step[s]]
      /\ job' = [s \in Steps |-> IF s \in released \ External THEN "PENDING" ELSE jobs[s]]

HasStep(r, statuses) == \E s \in StepsOf(r) : step[s] \in statuses

(* Mutant: waiting steps are looked at before active ones.                 *)
StatusOfStepsWaitingFirst(r) ==
  IF HasStep(r, {"WAITING_FOR_EXTERNAL"}) THEN "WAITING_FOR_EXTERNAL"
  ELSE IF HasStep(r, {"BLOCKED", "ENQUEUED", "RUNNING"}) THEN "RUNNING"
  ELSE IF HasStep(r, {"FAILED", "CANCELED"}) THEN "COMPLETED_WITH_ERRORS"
  ELSE "SUCCEEDED"

StatusOfSteps(r) ==
  IF HasStep(r, {"BLOCKED", "ENQUEUED", "RUNNING"}) THEN "RUNNING"
  ELSE IF HasStep(r, {"WAITING_FOR_EXTERNAL"}) THEN "WAITING_FOR_EXTERNAL"
  ELSE IF HasStep(r, {"FAILED", "CANCELED"}) THEN "COMPLETED_WITH_ERRORS"
  ELSE "SUCCEEDED"

(* recompute_workflow_run_status: a canceled run keeps its status, and the *)
(* active claim goes when the run ends.                                    *)
Recompute(r) ==
  /\ run' = [run EXCEPT ![r] = IF @ = "CANCELED" THEN @ ELSE StatusOfSteps(r)']
  /\ IF run[r] \notin ClosedRun /\ run'[r] \in ClosedRun
     THEN ReleaseOrDefer(r)
     ELSE UNCHANGED active_claims

-----------------------------------------------------------------------------
(* Enqueue and append.                                                     *)

InitialSteps(r) == StepsOf(r) \ Appended

(* A taken active key makes the enqueue return the run that holds it.      *)
KeyFree(r) == \A c \in active_claims : c.key # ActiveKey[r]

EnqueueRun(r) ==
  /\ run[r] = "ABSENT"
  /\ KeyFree(r)
  /\ InitialSteps(r) # {}
  /\ Resolve(r, InitialSteps(r), {}, "CANCELED", {}, job)
  /\ run' = [run EXCEPT ![r] = StatusOfSteps(r)']
  /\ active_claims' = active_claims \cup
       (IF ActiveKey[r] = NoKey THEN {}
        ELSE {[key |-> ActiveKey[r], run |-> r, release_pending |-> FALSE]})
  /\ UNCHANGED live

(* ensure_append_window_is_open and the status check after it.             *)
AppendWindow(r) ==
  /\ run[r] \in OpenRun
  /\ \E s \in StepsOf(r) \cap External : step[s] = "WAITING_FOR_EXTERNAL"

(* append_workflow_steps with a mutation key that is not yet recorded; a   *)
(* recorded key returns the rows it made.                                  *)
Append(r, new, skipped) ==
  /\ new # {} /\ new \subseteq StepsOf(r)
  /\ AppendWindow(r)
  /\ \A s \in new : step[s] = "ABSENT"
  /\ \A s \in new : \A p \in Prereqs(s) : p \in new \/ step[p] # "ABSENT"
  /\ UNCHANGED live
  /\ Resolve(r, new, {}, "CANCELED", skipped, job)
  /\ Recompute(r)

-----------------------------------------------------------------------------
(* The job of a step, with the hooks of the queue's transactions.          *)

(* on_claimed.                                                             *)
ClaimJob(s) ==
  /\ job[s] = "PENDING"
  /\ job' = [job EXCEPT ![s] = "LEASED"]
  /\ live' = [live EXCEPT ![s] = TRUE]
  /\ step' = [step EXCEPT ![s] = IF @ = "ENQUEUED" THEN "RUNNING" ELSE @]
  /\ UNCHANGED <<run, pending, unsatisfied, active_claims>>

(* Mutant: the hook is not called.                                         *)
ReturnJobOnly(s) ==
  /\ job[s] = "LEASED"
  /\ job' = [job EXCEPT ![s] = "PENDING"]
  /\ live' = [live EXCEPT ![s] = FALSE]
  /\ UNCHANGED <<run, step_vars, active_claims>>

(* on_retry_scheduled and on_claim_released: a failed attempt with budget  *)
(* left, an expired lease, an unstarted claim.                             *)
ReturnJob(s) ==
  /\ job[s] = "LEASED"
  /\ job' = [job EXCEPT ![s] = "PENDING"]
  /\ live' = [live EXCEPT ![s] = FALSE]
  /\ step' = [step EXCEPT ![s] = IF @ = "RUNNING" THEN "ENQUEUED" ELSE @]
  /\ UNCHANGED <<run, pending, unsatisfied, active_claims>>

(* on_handler_continuation; any other step fails the whole completion.     *)
ContinueJob(s) ==
  /\ job[s] = "LEASED" /\ live[s]
  /\ s \in Continuable /\ step[s] = "RUNNING"
  /\ job' = [job EXCEPT ![s] = "PENDING"]
  /\ live' = [live EXCEPT ![s] = FALSE]
  /\ step' = [step EXCEPT ![s] = "ENQUEUED"]
  /\ UNCHANGED <<run, pending, unsatisfied, active_claims>>

(* on_terminal: nothing happens to a step that is already terminal.        *)
OnTerminal(s, st, skipped, jobs) ==
  /\ Resolve(RunOf[s], {}, IF step[s] \in Terminal THEN {} ELSE {s}, st, skipped, jobs)
  /\ Recompute(RunOf[s])

SucceedJob(s, skipped) ==
  /\ job[s] = "LEASED" /\ live[s]
  /\ live' = [live EXCEPT ![s] = FALSE]
  /\ OnTerminal(s, "SUCCEEDED", skipped, [job EXCEPT ![s] = "SUCCEEDED"])

(* By the worker, or by the reaper once the lease has expired.             *)
DeadLetterJob(s, skipped) ==
  /\ job[s] = "LEASED"
  /\ live' = [live EXCEPT ![s] = FALSE]
  /\ OnTerminal(s, "FAILED", skipped, [job EXCEPT ![s] = "DEAD_LETTERED"])

(* cancel_job_with_scope: the deadline stays as the quiescence marker.     *)
CancelJob(s, skipped) ==
  /\ job[s] \in {"PENDING", "LEASED"}
  /\ UNCHANGED live
  /\ OnTerminal(s, "CANCELED", skipped, [job EXCEPT ![s] = "CANCELED"])

ExpireLease(s) ==
  /\ live[s]
  /\ live' = [live EXCEPT ![s] = FALSE]
  /\ UNCHANGED <<run, step_vars, job, active_claims>>

-----------------------------------------------------------------------------
(* External steps, cancellation, cleanup.                                  *)

(* complete_external_workflow_step; a repeated completion changes nothing. *)
CompleteExternal(s, st, skipped) ==
  /\ s \in External
  /\ step[s] = "WAITING_FOR_EXTERNAL"
  /\ UNCHANGED live
  /\ Resolve(RunOf[s], {}, {s}, st, skipped, job)
  /\ Recompute(RunOf[s])

(* Mutant: the steps of the run are swept whatever their status.           *)
OpenStepsAll(r) == {s \in StepsOf(r) : step[s] # "ABSENT"}

OpenSteps(r) == {s \in StepsOf(r) : step[s] \notin {"ABSENT"} \cup Terminal}

(* Mutant: the status of the run is not looked at.                         *)
CancelableAny(r) == run[r] # "ABSENT"

(* A run that is over is returned as it is.                                *)
Cancelable(r) == run[r] \in OpenRun

(* cancel_workflow_run: the run is CANCELED first, so the sweep releases   *)
(* nothing, and then every nonterminal step is canceled, its job by the    *)
(* transaction that cancels a job.  A job that cannot be canceled fails    *)
(* the whole cancellation.                                                 *)
CancelRun(r) ==
  LET swept == OpenSteps(r)
      leased == {s \in swept : step[s] \in {"ENQUEUED", "RUNNING"}}
  IN  /\ Cancelable(r)
      /\ \A s \in leased : job[s] \in {"PENDING", "LEASED"}
      /\ UNCHANGED live
      /\ Resolve(r, {}, swept, "CANCELED", {},
                 [s \in Steps |-> IF s \in leased THEN "CANCELED" ELSE job[s]])
      /\ run' = [run EXCEPT ![r] = "CANCELED"]
      /\ ReleaseOrDefer(r)

(* Mutant: only canceled runs are considered.                              *)
CleanupCanceledRun(c) ==
  /\ c.release_pending
  /\ run[c.run] = "CANCELED"
  /\ ~LiveCanceled(c.run)
  /\ active_claims' = active_claims \ {c}
  /\ UNCHANGED <<run, step_vars, job, live>>

(* release_quiesced_workflow_active_claims, called by the reaper.          *)
CleanupActiveClaim(c) ==
  /\ c.release_pending
  /\ ~LiveCanceled(c.run)
  /\ active_claims' = active_claims \ {c}
  /\ UNCHANGED <<run, step_vars, job, live>>

-----------------------------------------------------------------------------
(* One end of a step's job or of an external step, with its cascade.       *)
EndStep(s) ==
  \E skipped \in SUBSET StepsOf(RunOf[s]) :
    \/ SucceedJob(s, skipped)
    \/ DeadLetterJob(s, skipped)
    \/ \E st \in Terminal : CompleteExternal(s, st, skipped)

Next ==
  \/ \E r \in Runs : EnqueueRun(r) \/ CancelRun(r)
  \/ \E m \in Appends, r \in Runs : \E skipped \in SUBSET AppendOf[m] :
       Append(r, AppendOf[m], skipped)
  \/ \E s \in Steps :
       \/ ClaimJob(s) \/ ReturnJob(s) \/ ContinueJob(s) \/ ExpireLease(s)
       \/ EndStep(s)
       \/ \E skipped \in SUBSET StepsOf(RunOf[s]) : CancelJob(s, skipped)
  \/ \E c \in active_claims : CleanupActiveClaim(c)

Spec == Init /\ [][Next]_vars

(* Of the runs R: workers poll for due jobs and claim them.  Retries are   *)
(* bounded by the attempt budget (AttemptBudget of JobQueue), and the      *)
(* application is assumed not to continue a step for ever and to complete  *)
(* its external steps: while steps can be ended again and again, one of    *)
(* them is.  A step ends once, so in the end none can.  The deadline of a  *)
(* canceled job is not renewed and passes, and the reaper loop runs its    *)
(* cleanup again and again.                                                *)
Fairness(R) ==
  /\ \A s \in UNION {StepsOf(r) : r \in R} :
       WF_vars(ClaimJob(s)) /\ WF_vars(job[s] = "CANCELED" /\ ExpireLease(s))
  /\ SF_vars(\E s \in UNION {StepsOf(r) : r \in R} : EndStep(s))
  /\ WF_vars(\E c \in active_claims : CleanupActiveClaim(c))

-----------------------------------------------------------------------------
(* Safety.                                                                 *)

(* The dependency counters, maintained by increments in many transactions, *)
(* are what a count over the prerequisites would give.                     *)
CountersExact ==
  \A d \in Steps : step[d] # "ABSENT" =>
    /\ pending[d] = Cardinality({p \in Prereqs(d) : step[p] \notin Terminal})
    /\ unsatisfied[d] = Cardinality({p \in Prereqs(d) :
         <<p, d>> \in OnSuccess /\ step[p] \in Terminal \ {"SUCCEEDED"}})

(* A step that was released had its dependencies fulfilled: every          *)
(* prerequisite is over, and succeeded where that was asked for.  Holds of *)
(* steps appended behind failed prerequisites too.                         *)
ReleasedStepsWereReady ==
  \A d \in Steps :
    (step[d] \in {"ENQUEUED", "RUNNING", "WAITING_FOR_EXTERNAL", "SUCCEEDED", "FAILED"}) =>
      \A p \in Prereqs(d) :
        /\ step[p] \in Terminal
        /\ <<p, d>> \in OnSuccess => step[p] = "SUCCEEDED"

(* No step is forgotten: a BLOCKED step waits for a prerequisite that is   *)
(* not over, and an open run has a step somebody can work on.  Nothing     *)
(* polls for steps that are ready, so a step missed when its last          *)
(* prerequisite ended would wait for ever.                                 *)
NoStepStranded ==
  /\ \A d \in Steps : step[d] = "BLOCKED" =>
       \E p \in Prereqs(d) : step[p] \notin {"ABSENT"} \cup Terminal
  /\ \A r \in Runs : run[r] \in OpenRun =>
       HasStep(r, {"ENQUEUED", "RUNNING", "WAITING_FOR_EXTERNAL"})

(* The stored run status is the one its steps have: it is open exactly     *)
(* while a step is, a run that succeeded has no failed step, and a run     *)
(* canceled in the middle leaves no open step behind.                      *)
RunStatusAgrees ==
  \A r \in Runs :
    /\ run[r] = "ABSENT" <=> \A s \in StepsOf(r) : step[s] = "ABSENT"
    /\ run[r] = "RUNNING" => HasStep(r, {"BLOCKED", "ENQUEUED", "RUNNING"})
    /\ run[r] \in {"WAITING_FOR_EXTERNAL"} \cup ClosedRun =>
         ~HasStep(r, {"BLOCKED", "ENQUEUED", "RUNNING"})
    /\ run[r] = "WAITING_FOR_EXTERNAL" => HasStep(r, {"WAITING_FOR_EXTERNAL"})
    /\ run[r] \in ClosedRun => ~HasStep(r, {"WAITING_FOR_EXTERNAL"})
    /\ run[r] = "COMPLETED_WITH_ERRORS" => HasStep(r, {"FAILED", "CANCELED"})
    /\ run[r] = "SUCCEEDED" => ~HasStep(r, {"FAILED", "CANCELED"})

(* A step and its job agree after every transaction of either side: no job *)
(* can be claimed for a step that is over, and a nonterminal job step      *)
(* always has a job that a workflow cancellation can cancel.               *)
StepJobAgrees ==
  \A s \in Steps :
    /\ step[s] = "ENQUEUED" <=> job[s] = "PENDING"
    /\ step[s] = "RUNNING" <=> job[s] = "LEASED"
    /\ step[s] \in {"ENQUEUED", "RUNNING"} => s \notin External
    /\ job[s] = "SUCCEEDED" => step[s] = "SUCCEEDED"
    /\ job[s] = "DEAD_LETTERED" => step[s] = "FAILED"
    /\ job[s] = "CANCELED" => step[s] = "CANCELED"

(* Work of a run may be under way: it is open, or the handler of one of    *)
(* its canceled jobs is within its lease.                                  *)
Occupied(r) == run[r] \in OpenRun \/ \E s \in StepsOf(r) : live[s]

(* Two runs with the same active key never have work under way together.   *)
ActiveKeyExclusion ==
  \A r, q \in Runs :
    (Occupied(r) /\ Occupied(q) /\ ActiveKey[r] # NoKey /\ ActiveKey[r] = ActiveKey[q]) => r = q

-----------------------------------------------------------------------------
(* What a step may never do.                                               *)

(* A run ends once, with one status, whatever completes, is appended or is *)
(* canceled afterwards, and so do its steps: the terminal notification is  *)
(* sent once.                                                              *)
EndsAreFinal ==
  [][/\ \A r \in Runs : run[r] \in ClosedRun => run'[r] = run[r]
     /\ \A s \in Steps : step[s] \in Terminal => step'[s] = step[s]]_vars

-----------------------------------------------------------------------------
(* Liveness.                                                               *)

RunEnds(r) == (run[r] \in OpenRun) ~> (run[r] \in ClosedRun)

ActiveKeyFreed(r) == (run[r] \in ClosedRun) ~> (\A c \in active_claims : c.run # r)

=============================================================================
