------------------------------ MODULE JobQueue ------------------------------
(***************************************************************************)
(* The durable job queue of runledger-postgres: the rows of job_queue,     *)
(* job_attempts, job_dead_letters and job_execution_resource_claims, and   *)
(* one action per database transaction that changes them.                  *)
(*                                                                         *)
(* Every transaction modelled here takes the row lock of the job it        *)
(* changes (FOR UPDATE, or the UPDATE itself) before it reads what it      *)
(* decides on, and re-states its precondition in that statement, so a      *)
(* transaction is one atomic step.  claim_jobs and the reaper work on      *)
(* batches; a batch is a sequence of the single-row steps below at one     *)
(* instant, so the single steps reach every state the batches reach.       *)
(*                                                                         *)
(* Time is counted down.  A timestamp column holds the time left until it  *)
(* (0: NULL, reached or passed) and Tick is the passing of one unit.       *)
(***************************************************************************)
EXTENDS Integers, FiniteSets

CONSTANTS
  Jobs,           \* job ids
  Workers,        \* worker ids
  NoWorker,       \* worker_id IS NULL
  Resources,      \* execution resource keys
  NoResource,     \* execution_resource_key IS NULL
  ResourceOf,     \* execution_resource_key of each job
  Priority,       \* priority of each job
  MaxAttempts,    \* max_attempts of each job
  JobTypes,       \* job_type filter of each worker, as the set of jobs it matches
  LeaseTtl,       \* lease_duration_seconds of claims and heartbeats
  CommitLag,      \* bound: time a claim or heartbeat waits between its start and its row lock
  RetryDelays,    \* delays a policy, a handler or an enqueue may ask for
  ReaperDelay,    \* reaper_retry_delay_ms
  MaxRun          \* bound: no job advances past this run

ASSUME ConstantsAssumption ==
  /\ NoWorker \notin Workers
  /\ NoResource \notin Resources
  /\ ResourceOf \in [Jobs -> Resources \cup {NoResource}]
  /\ Priority \in [Jobs -> Int]
  /\ MaxAttempts \in [Jobs -> Nat \ {0}]
  /\ JobTypes \in [Workers -> SUBSET Jobs]
  /\ LeaseTtl \in Nat \ {0}
  /\ CommitLag \in 0..LeaseTtl
  /\ RetryDelays \subseteq Nat
  /\ ReaperDelay \in Nat \ {0}
  /\ MaxRun \in [Jobs -> Nat \ {0}]

VARIABLES
  status,         \* job_queue.status, ABSENT before the row is inserted
  run_number,     \* job_queue.run_number
  attempt,        \* job_queue.attempt
  worker_id,      \* job_queue.worker_id
  lease,          \* job_queue.lease_expires_at, as time left
  next_run,       \* job_queue.next_run_at, as time left
  job_attempts,   \* rows of job_attempts
  dead_letter,    \* job_dead_letters row of each job: run and attempt, <<0, 0>> if none
  resource_claims \* rows of job_execution_resource_claims

queue_vars == <<status, run_number, attempt, worker_id, lease, next_run>>
vars == <<queue_vars, job_attempts, dead_letter, resource_claims>>

Statuses == {"ABSENT", "PENDING", "LEASED", "SUCCEEDED", "DEAD_LETTERED", "CANCELED"}
Origins == {"DIRECT", "WORKER_PRESTART"}

(* What can be left of a lease granted by now() + lease_duration_seconds.  *)
LeaseLefts == (LeaseTtl - CommitLag)..LeaseTtl

(* JobLeaseIdentity: what a lifecycle call is fenced with.                 *)
LeaseIdentity == [job : Jobs, run : Nat, attempt : Nat, worker : Workers]

(* A job_attempts row.  started stands for execution_started_persisted_at, *)
(* finished for finished_at; worker, outcome and error columns are left    *)
(* out because no transition reads them.                                   *)
AttemptRow == [job : Jobs, run : Nat, attempt : Nat, origin : Origins,
               started : BOOLEAN, finished : BOOLEAN]

(* A job_execution_resource_claims row.  left is the time left until       *)
(* COALESCE(release_after, lease_expires_at); quiescing says that          *)
(* release_after is set.                                                   *)
ClaimRow == [resource : Resources, job : Jobs, run : Nat, attempt : Nat,
             worker : Workers, left : Nat, quiescing : BOOLEAN]

TypeOK ==
  /\ status \in [Jobs -> Statuses]
  /\ run_number \in [Jobs -> Nat]
  /\ attempt \in [Jobs -> Nat]
  /\ worker_id \in [Jobs -> Workers \cup {NoWorker}]
  /\ lease \in [Jobs -> Nat]
  /\ next_run \in [Jobs -> Nat]
  /\ job_attempts \subseteq AttemptRow
  /\ dead_letter \in [Jobs -> Nat \X Nat]
  /\ resource_claims \subseteq ClaimRow

Init ==
  /\ status = [j \in Jobs |-> "ABSENT"]
  /\ run_number = [j \in Jobs |-> 0]
  /\ attempt = [j \in Jobs |-> 0]
  /\ worker_id = [j \in Jobs |-> NoWorker]
  /\ lease = [j \in Jobs |-> 0]
  /\ next_run = [j \in Jobs |-> 0]
  /\ job_attempts = {}
  /\ dead_letter = [j \in Jobs |-> <<0, 0>>]
  /\ resource_claims = {}

-----------------------------------------------------------------------------
(* Row predicates and row updates shared by the transactions.              *)

(* The identity predicate of every lifecycle UPDATE.                       *)
OwnsLease(id) ==
  /\ status[id.job] = "LEASED"
  /\ run_number[id.job] = id.run
  /\ attempt[id.job] = id.attempt
  /\ worker_id[id.job] = id.worker

(* lock_live_job_lease: the identity and an unexpired lease.               *)
HoldsLiveLease(id) == OwnsLease(id) /\ lease[id.job] > 0

CurrentAttempt(row, j) ==
  row.job = j /\ row.run = run_number[j] /\ row.attempt = attempt[j]

(* Mutant: the release does not look at execution_started_persisted_at.    *)
UnstartedClaimAnyStage(j) ==
  \E row \in job_attempts : CurrentAttempt(row, j) /\ row.origin = "WORKER_PRESTART"

(* The attempt was claimed by a worker that has not persisted RUNNING.     *)
UnstartedClaim(j) ==
  \E row \in job_attempts :
    CurrentAttempt(row, j) /\ row.origin = "WORKER_PRESTART" /\ ~row.started

(* Mutant: off by one.                                                     *)
ExhaustedOffByOne(j) == attempt[j] > MaxAttempts[j]

Exhausted(j) == attempt[j] >= MaxAttempts[j]

StartAttempt(j) ==
  {IF CurrentAttempt(row, j) THEN [row EXCEPT !.started = TRUE] ELSE row :
     row \in job_attempts}

FinishAttempt(j) ==
  {IF CurrentAttempt(row, j) THEN [row EXCEPT !.finished = TRUE] ELSE row :
     row \in job_attempts}

(* The claim row that the release trigger's WHERE clause names.            *)
ClaimOfLease(c, j) ==
  /\ c.job = j
  /\ c.run = run_number[j]
  /\ c.attempt = attempt[j]
  /\ c.worker = worker_id[j]

(* Trigger release_job_execution_resource_claim, leaving LEASED: a         *)
(* cancellation of a live lease keeps the claim until the lease's own      *)
(* deadline, every other transition deletes it.                            *)
ReleaseResourceClaim(j) == {c \in resource_claims : ~ClaimOfLease(c, j)}

(* Mutant: a cancellation releases the claim like any other transition.    *)
QuiesceByRelease(j) == {c \in resource_claims : ~ClaimOfLease(c, j)}

QuiesceResourceClaim(j) ==
  {IF ClaimOfLease(c, j) THEN [c EXCEPT !.left = lease[j], !.quiescing = TRUE] ELSE c :
     c \in resource_claims}

(* The same trigger on a lease whose deadline moves.                       *)
ExtendResourceClaim(j, left) ==
  {IF ClaimOfLease(c, j) THEN [c EXCEPT !.left = left] ELSE c : c \in resource_claims}

(* job_queue columns of a lease that ends with the row in status s.        *)
EndLease(j, s) ==
  /\ status' = [status EXCEPT ![j] = s]
  /\ worker_id' = [worker_id EXCEPT ![j] = NoWorker]
  /\ lease' = [lease EXCEPT ![j] = 0]

(* advance_job_to_next_run: a fresh PENDING run, attempts back to zero.    *)
AdvanceToNextRun(j, delay) ==
  /\ run_number[j] < MaxRun[j]
  /\ EndLease(j, "PENDING")
  /\ run_number' = [run_number EXCEPT ![j] = @ + 1]
  /\ attempt' = [attempt EXCEPT ![j] = 0]
  /\ next_run' = [next_run EXCEPT ![j] = delay]

(* Mutant: ON CONFLICT DO NOTHING instead of DO UPDATE.                    *)
DeadLetterOnce(j) ==
  /\ EndLease(j, "DEAD_LETTERED")
  /\ dead_letter' = [dead_letter EXCEPT ![j] =
       IF @ = <<0, 0>> THEN <<run_number[j], attempt[j]>> ELSE @]
  /\ job_attempts' = FinishAttempt(j)
  /\ resource_claims' = ReleaseResourceClaim(j)
  /\ UNCHANGED <<run_number, attempt, next_run>>

(* Terminal branch of a failure: dead-letter the job at this attempt.      *)
DeadLetter(j) ==
  /\ EndLease(j, "DEAD_LETTERED")
  /\ dead_letter' = [dead_letter EXCEPT ![j] = <<run_number[j], attempt[j]>>]
  /\ job_attempts' = FinishAttempt(j)
  /\ resource_claims' = ReleaseResourceClaim(j)
  /\ UNCHANGED <<run_number, attempt, next_run>>

(* Retry branch of a failure: PENDING again, the attempt stays consumed.   *)
ScheduleRetry(j, delay) ==
  /\ EndLease(j, "PENDING")
  /\ next_run' = [next_run EXCEPT ![j] = delay]
  /\ job_attempts' = FinishAttempt(j)
  /\ resource_claims' = ReleaseResourceClaim(j)
  /\ UNCHANGED <<run_number, attempt, dead_letter>>

(* Mutant: the attempt is given back but its job_attempts row is kept.     *)
UndoClaimKeepRow(j, delay) ==
  /\ EndLease(j, "PENDING")
  /\ attempt' = [attempt EXCEPT ![j] = @ - 1]
  /\ next_run' = [next_run EXCEPT ![j] = delay]
  /\ resource_claims' = ReleaseResourceClaim(j)
  /\ UNCHANGED <<run_number, job_attempts, dead_letter>>

(* try_release_unstarted_job_claim: undo the claim, attempt included.      *)
UndoClaim(j, delay) ==
  /\ EndLease(j, "PENDING")
  /\ attempt' = [attempt EXCEPT ![j] = @ - 1]
  /\ next_run' = [next_run EXCEPT ![j] = delay]
  /\ job_attempts' = {row \in job_attempts : ~CurrentAttempt(row, j)}
  /\ resource_claims' = ReleaseResourceClaim(j)
  /\ UNCHANGED <<run_number, dead_letter>>

-----------------------------------------------------------------------------
(* Enqueue and claim.                                                      *)

Enqueue(j, delay) ==
  /\ status[j] = "ABSENT"
  /\ status' = [status EXCEPT ![j] = "PENDING"]
  /\ run_number' = [run_number EXCEPT ![j] = 1]
  /\ next_run' = [next_run EXCEPT ![j] = delay]
  /\ UNCHANGED <<attempt, worker_id, lease, job_attempts, dead_letter, resource_claims>>

(* claim_ids.sql: rows due and allowed; a keyed job must also find no      *)
(* claim row of its resource.                                              *)
Due(j) == status[j] = "PENDING" /\ next_run[j] = 0

ResourceFree(r) == \A c \in resource_claims : c.resource # r

(* resource_heads: of the eligible jobs of a resource only the first of    *)
(* the claim order may be a candidate.  The order is priority, then        *)
(* next_run_at, created_at and id, which are all in the past here: any of  *)
(* the due jobs of the highest priority may be the first.                  *)
ResourceHead(j, allowed) ==
  \A k \in allowed :
    (Due(k) /\ ResourceOf[k] = ResourceOf[j]) => Priority[k] <= Priority[j]

Claimable(j, allowed) ==
  /\ Due(j)
  /\ j \in allowed
  /\ \/ ResourceOf[j] = NoResource
     \/ ResourceFree(ResourceOf[j]) /\ ResourceHead(j, allowed)

(* Mutant: the claim row copies the worker of the row before the UPDATE.   *)
NewClaimOldWorker(j, w, left) ==
  [resource |-> ResourceOf[j], job |-> j, run |-> run_number[j],
   attempt |-> attempt[j] + 1, worker |-> worker_id[j], left |-> left, quiescing |-> FALSE]

NewClaim(j, w, left) ==
  [resource |-> ResourceOf[j], job |-> j, run |-> run_number[j],
   attempt |-> attempt[j] + 1, worker |-> w, left |-> left, quiescing |-> FALSE]

NewAttempt(j, origin) ==
  [job |-> j, run |-> run_number[j], attempt |-> attempt[j] + 1,
   origin |-> origin, started |-> FALSE, finished |-> FALSE]

(* claim_jobs and its three variants: origin and type filter.  The lease   *)
(* runs from now(), the start of the transaction, so left may already be   *)
(* less than the duration when the row is locked.                          *)
Claim(w, j, allowed, origin, left) ==
  /\ Claimable(j, allowed)
  /\ status' = [status EXCEPT ![j] = "LEASED"]
  /\ attempt' = [attempt EXCEPT ![j] = @ + 1]
  /\ worker_id' = [worker_id EXCEPT ![j] = w]
  /\ lease' = [lease EXCEPT ![j] = left]
  /\ job_attempts' = job_attempts \cup {NewAttempt(j, origin)}
  /\ resource_claims' = resource_claims \cup
       (IF ResourceOf[j] = NoResource THEN {} ELSE {NewClaim(j, w, left)})
  /\ UNCHANGED <<run_number, next_run, dead_letter>>

-----------------------------------------------------------------------------
(* Calls fenced by a lease identity.                                       *)

MarkRunning(id) ==
  /\ HoldsLiveLease(id)
  /\ job_attempts' = StartAttempt(id.job)
  /\ UNCHANGED <<queue_vars, dead_letter, resource_claims>>

Heartbeat(id, left) ==
  /\ HoldsLiveLease(id)
  /\ lease' = [lease EXCEPT ![id.job] = left]
  /\ resource_claims' = ExtendResourceClaim(id.job, left)
  /\ UNCHANGED <<status, run_number, attempt, worker_id, next_run, job_attempts, dead_letter>>

CompleteSuccess(id) ==
  /\ HoldsLiveLease(id)
  /\ EndLease(id.job, "SUCCEEDED")
  /\ job_attempts' = FinishAttempt(id.job)
  /\ resource_claims' = ReleaseResourceClaim(id.job)
  /\ UNCHANGED <<run_number, attempt, next_run, dead_letter>>

CompleteContinuation(id, delay) ==
  /\ HoldsLiveLease(id)
  /\ AdvanceToNextRun(id.job, delay)
  /\ job_attempts' = FinishAttempt(id.job)
  /\ resource_claims' = ReleaseResourceClaim(id.job)
  /\ UNCHANGED dead_letter

(* complete_job_failure: retryable says whether the failure kind is one of *)
(* Retryable, Timeout and LeaseExpired.                                    *)
CompleteFailure(id, retryable, delay) ==
  /\ HoldsLiveLease(id)
  /\ \/ /\ ~retryable \/ Exhausted(id.job)
        /\ DeadLetter(id.job)
     \/ /\ retryable /\ ~Exhausted(id.job)
        /\ ScheduleRetry(id.job, delay)

(* release_unstarted_job_claim: the worker's own release.  The lease may   *)
(* have expired: only its identity is checked.                             *)
ReleaseUnstarted(id, delay) ==
  /\ OwnsLease(id)
  /\ UnstartedClaim(id.job)
  /\ UndoClaim(id.job, delay)

-----------------------------------------------------------------------------
(* The reaper.                                                             *)

ExpiredLease(j) == status[j] = "LEASED" /\ lease[j] = 0

(* Mutant: a row whose claim never started is skipped.                     *)
ReapStartedOnly(j) ==
  /\ ExpiredLease(j)
  /\ ~UnstartedClaim(j)
  /\ \/ Exhausted(j) /\ DeadLetter(j)
     \/ ~Exhausted(j) /\ ScheduleRetry(j, ReaperDelay)

(* reap_expired_lease_row: release a claim that never started, dead-letter *)
(* an exhausted job, retry the others.                                     *)
Reap(j) ==
  /\ ExpiredLease(j)
  /\ \/ UnstartedClaim(j) /\ UndoClaim(j, 0)
     \/ ~UnstartedClaim(j) /\ Exhausted(j) /\ DeadLetter(j)
     \/ ~UnstartedClaim(j) /\ ~Exhausted(j) /\ ScheduleRetry(j, ReaperDelay)

(* A row whose transition failed is rolled back to its savepoint and its   *)
(* lease is pushed out of the expired window, still LEASED.                *)
ReapDeferred(j) ==
  /\ ExpiredLease(j)
  /\ lease' = [lease EXCEPT ![j] = ReaperDelay]
  /\ resource_claims' = ExtendResourceClaim(j, ReaperDelay)
  /\ UNCHANGED <<status, run_number, attempt, worker_id, next_run, job_attempts, dead_letter>>

(* Mutant: cleanup without the NOT EXISTS on a held lease.                 *)
ReleasableWhenExpired(c) == c.left = 0

(* release_expired_execution_resource_claims: a claim past its deadline    *)
(* goes, unless it is the unreleased claim of a lease still in the queue.  *)
ReleasableClaim(c) ==
  /\ c.left = 0
  /\ c.quiescing \/ ~(status[c.job] = "LEASED" /\ ClaimOfLease(c, c.job))

CleanupResourceClaim(c) ==
  /\ c \in resource_claims
  /\ ReleasableClaim(c)
  /\ resource_claims' = resource_claims \ {c}
  /\ UNCHANGED <<queue_vars, job_attempts, dead_letter>>

-----------------------------------------------------------------------------
(* Administration.                                                         *)

(* cancel_job_with_scope: lease_expires_at stays as the quiescence marker. *)
Cancel(j) ==
  /\ status[j] \in {"PENDING", "LEASED"}
  /\ status' = [status EXCEPT ![j] = "CANCELED"]
  /\ worker_id' = [worker_id EXCEPT ![j] = NoWorker]
  /\ job_attempts' = FinishAttempt(j)
  /\ resource_claims' =
       IF status[j] = "PENDING" THEN resource_claims
       ELSE IF lease[j] > 0 THEN QuiesceResourceClaim(j)
       ELSE ReleaseResourceClaim(j)
  /\ UNCHANGED <<run_number, attempt, lease, next_run, dead_letter>>

(* Mutant: a requeue does not wait for the deadline of a canceled lease.   *)
RequeueAtOnce(j, s, r) ==
  /\ s \in {"CANCELED", "DEAD_LETTERED"}
  /\ status[j] = s
  /\ run_number[j] = r
  /\ AdvanceToNextRun(j, 0)
  /\ UNCHANGED <<job_attempts, dead_letter, resource_claims>>

(* compare_and_requeue_job, from a caller that observed status s and run r *)
(* some time before.                                                       *)
CompareAndRequeue(j, s, r) ==
  /\ s \in {"CANCELED", "DEAD_LETTERED"}
  /\ status[j] = s
  /\ run_number[j] = r
  /\ ~(s = "CANCELED" /\ lease[j] > 0)
  /\ AdvanceToNextRun(j, 0)
  /\ UNCHANGED <<job_attempts, dead_letter, resource_claims>>

-----------------------------------------------------------------------------
(* Time.                                                                   *)

Elapse(t) == IF t > 0 THEN t - 1 ELSE 0

TimePasses ==
  /\ lease' = [j \in Jobs |-> Elapse(lease[j])]
  /\ next_run' = [j \in Jobs |-> Elapse(next_run[j])]
  /\ resource_claims' = {[c EXCEPT !.left = Elapse(c.left)] : c \in resource_claims}
  /\ UNCHANGED <<status, run_number, attempt, worker_id, job_attempts, dead_letter>>

ClockRunning ==
  \/ \E j \in Jobs : lease[j] > 0 \/ next_run[j] > 0
  \/ \E c \in resource_claims : c.left > 0

Tick == ClockRunning /\ TimePasses

-----------------------------------------------------------------------------
(* Any identity may be presented at any time; the predicates above decide. *)
CurrentIdentities ==
  {[job |-> j, run |-> run_number[j], attempt |-> attempt[j], worker |-> worker_id[j]] :
     j \in {k \in Jobs : status[k] = "LEASED"}}

LeaseCall(id) ==
  \/ MarkRunning(id)
  \/ \E left \in LeaseLefts : Heartbeat(id, left)
  \/ CompleteSuccess(id)
  \/ \E d \in RetryDelays : CompleteContinuation(id, d)
  \/ \E retryable \in BOOLEAN, d \in RetryDelays : CompleteFailure(id, retryable, d)
  \/ \E d \in RetryDelays : ReleaseUnstarted(id, d)

Next ==
  \/ \E j \in Jobs, d \in RetryDelays : Enqueue(j, d)
  \/ \E w \in Workers, j \in Jobs, origin \in Origins, left \in LeaseLefts :
       \E allowed \in {Jobs, JobTypes[w]} : Claim(w, j, allowed, origin, left)
  \/ \E id \in CurrentIdentities : LeaseCall(id)
  \/ \E j \in Jobs : Reap(j) \/ ReapDeferred(j)
  \/ \E c \in resource_claims : CleanupResourceClaim(c)
  \/ \E j \in Jobs : Cancel(j)
  \/ \E j \in Jobs, s \in Statuses : \E r \in 1..MaxRun[j] : CompareAndRequeue(j, s, r)
  \/ Tick

Spec == Init /\ [][Next]_vars

(* Time passes, and the reaper loop runs its claim cleanup again and again *)
(* (run_reaper_loop polls until shutdown and a failed cleanup is only      *)
(* reported), so a releasable claim is eventually released.                *)
FairSpec ==
  /\ Spec
  /\ WF_vars(Tick)
  /\ WF_vars(\E c \in resource_claims : CleanupResourceClaim(c))

-----------------------------------------------------------------------------
(* Safety.                                                                 *)

(* The job's handler may still be executing under a deadline the queue     *)
(* promised it: the lease is live, or it was live when it was canceled.    *)
LiveGrant(j) == status[j] \in {"LEASED", "CANCELED"} /\ lease[j] > 0

(* claim_ids.sql never compares attempt with max_attempts.  Still no claim *)
(* exceeds the budget: every path back to PENDING within a run leaves an   *)
(* attempt to spend, and a lease never carries more than max_attempts.     *)
AttemptBudget ==
  \A j \in Jobs :
    /\ attempt[j] <= MaxAttempts[j]
    /\ status[j] = "PENDING" => attempt[j] < MaxAttempts[j]

(* Every row of job_attempts belongs to the current run, up to its         *)
(* attempt, or to an earlier run, and is open only as the attempt of a     *)
(* held lease.                                                             *)
AttemptRowsAgree ==
  \A row \in job_attempts :
    /\ row.attempt >= 1
    /\ \/ row.run < run_number[row.job]
       \/ row.run = run_number[row.job] /\ row.attempt <= attempt[row.job]
    /\ ~row.finished <=> (status[row.job] = "LEASED" /\ CurrentAttempt(row, row.job))

AttemptsCovered ==
  \A j \in Jobs : \A a \in 1..attempt[j] :
    \E row \in job_attempts : row.job = j /\ row.run = run_number[j] /\ row.attempt = a

AttemptsUnique ==
  \A row1, row2 \in job_attempts :
    (row1.job = row2.job /\ row1.run = row2.run /\ row1.attempt = row2.attempt) => row1 = row2

(* The attempt history of the current run is 1..attempt without gap or     *)
(* duplicate, and exactly the attempt of a held lease is open.  So the     *)
(* INSERT of a claim never meets uq_job_attempts_job_run_attempt, which    *)
(* would fail the whole claim batch.                                       *)
AttemptHistory == AttemptRowsAgree /\ AttemptsCovered /\ AttemptsUnique

(* One permit per execution resource: two jobs with the same key are never *)
(* both under a live deadline, a canceled handler's included, whatever the *)
(* order of claims, renewals, cancellations, reaping, deferral, cleanup    *)
(* and requeue.                                                            *)
ResourceExclusion ==
  \A j, k \in Jobs :
    (/\ LiveGrant(j) /\ LiveGrant(k)
     /\ ResourceOf[j] # NoResource
     /\ ResourceOf[j] = ResourceOf[k]) => j = k

(* No CHECK constraint ties the lease columns to the status.  They agree   *)
(* all the same: a worker is named while and only while the row is LEASED, *)
(* and a deadline survives only as a cancellation's quiescence marker, so  *)
(* no later run inherits one.                                              *)
LeaseColumns ==
  \A j \in Jobs :
    /\ status[j] = "LEASED" <=> worker_id[j] # NoWorker
    /\ status[j] \notin {"LEASED", "CANCELED"} => lease[j] = 0
    /\ status[j] = "ABSENT" => run_number[j] = 0 /\ attempt[j] = 0

(* The claim rows are what the leases need: a keyed lease has its own      *)
(* claim row with the lease's deadline, a lease canceled while live has    *)
(* its quiescing row until the same deadline, and no unreleased row        *)
(* outlives its lease.                                                     *)
ClaimsBackLeases ==
  /\ \A c \in resource_claims :
       /\ c.resource = ResourceOf[c.job]
       /\ ~c.quiescing =>
            status[c.job] = "LEASED" /\ ClaimOfLease(c, c.job) /\ c.left = lease[c.job]
  /\ \A c, d \in resource_claims : c.resource = d.resource => c = d
  /\ \A j \in Jobs : ResourceOf[j] # NoResource =>
       /\ status[j] = "LEASED" =>
            \E c \in resource_claims : c.job = j /\ ~c.quiescing
       /\ (status[j] = "CANCELED" /\ lease[j] > 0) =>
            \E c \in resource_claims : c.job = j /\ c.quiescing /\ c.left = lease[j]

(* A dead-lettered job's job_dead_letters row is the one of its last       *)
(* attempt, although requeue leaves the row behind and a later run         *)
(* overwrites it.                                                          *)
DeadLetterCurrent ==
  \A j \in Jobs :
    /\ status[j] = "DEAD_LETTERED" => dead_letter[j] = <<run_number[j], attempt[j]>>
    /\ dead_letter[j][1] <= run_number[j]

-----------------------------------------------------------------------------
(* What a step may never do.                                               *)

(* A finished run stays finished: SUCCEEDED for good, CANCELED and         *)
(* DEAD_LETTERED until a requeue that opens the next run with a full       *)
(* budget.                                                                 *)
TerminalIsFinal ==
  [][\A j \in Jobs :
       (status[j] \in {"SUCCEEDED", "CANCELED", "DEAD_LETTERED"} /\ status'[j] # status[j]) =>
         /\ status[j] # "SUCCEEDED"
         /\ status'[j] = "PENDING"
         /\ run_number'[j] = run_number[j] + 1
         /\ attempt'[j] = 0]_vars

(* An attempt whose execution has started keeps its identity to itself:    *)
(* the attempt row is never deleted, so no later claim is given the same   *)
(* job, run and attempt.                                                   *)
StartedAttemptsAreKept ==
  [][\A row \in job_attempts : row.started =>
       \E kept \in job_attempts' :
         kept.job = row.job /\ kept.run = row.run /\ kept.attempt = row.attempt /\ kept.started]_vars

-----------------------------------------------------------------------------
(* What the queue promises.                                                *)

(* The attempt under way is recorded as started.                           *)
Begun(j) == status[j] = "LEASED" /\ \E row \in job_attempts : CurrentAttempt(row, j) /\ row.started

Contract == INSTANCE QueueContract WITH
  phase <- status, run <- run_number, spent <- attempt, begun <- [j \in Jobs |-> Begun(j)],
  left <- lease, Terms <- LeaseLefts \cup {ReaperDelay}

(* The claim rows with their triggers and cleanup, the attempt rows and    *)
(* the fences keep the contract: seen from outside every transaction is    *)
(* one step of it or changes nothing.  The guards of the contract are not  *)
(* those of the code: that a granted job is within its budget and that     *)
(* nobody else still has time on its resource, that an execution given     *)
(* back has not begun, that a canceled handler keeps its time.             *)
KeepsTheContract == Contract!ContractSpec

-----------------------------------------------------------------------------
(* Liveness.                                                               *)

(* A resource held for a canceled lease becomes free again.                *)
QuiescingClaimsEnd ==
  \A r \in Resources :
    (\E c \in resource_claims : c.resource = r /\ c.quiescing)
      ~> (\A c \in resource_claims : c.resource = r => ~c.quiescing)

=============================================================================
