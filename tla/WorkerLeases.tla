---------------------------- MODULE WorkerLeases ----------------------------
(***************************************************************************)
(* Workers of runledger-runtime on top of the queue of module JobQueue:    *)
(* what each claimed-job task knows and does, while the reaper, other      *)
(* workers and administrators change the rows it knows about.              *)
(*                                                                         *)
(* A slot is a place of a worker's JoinSet (max_global_concurrency of      *)
(* them).  A task of a slot moves through                                  *)
(*    claimed    before mark_job_running_for_lease                         *)
(*    releasing  that call failed, the unstarted claim is to be released   *)
(*    running    the handler is being polled, with heartbeats              *)
(*    completing the handler has returned, its outcome is to be persisted  *)
(* A database call may fail before it commits, or commit and lose its      *)
(* answer (Error::CommitUnconfirmed): the worker sees an error in both     *)
(* cases.                                                                  *)
(***************************************************************************)
EXTENDS JobQueue

CONSTANTS
  Capacity,       \* max_global_concurrency
  Budget          \* heartbeat_maintenance_budget, a third of the lease

ASSUME WorkerAssumption ==
  /\ Capacity \in Nat \ {0}
  /\ Budget \in Nat \ {0}
  /\ 3 * Budget <= LeaseTtl

VARIABLES
  task,           \* the task of each slot
  canceled        \* job and run of the CANCELED events that left a quiescence marker

wvars == <<vars, task, canceled>>

Slots == Workers \X (1..Capacity)

(* stop is the time left until the select loop stops polling the handler   *)
(* unless a heartbeat succeeds first; renewed says that one has succeeded. *)
Task == [pc : {"claimed", "releasing", "running", "completing"},
         job : Jobs, run : Nat, attempt : Nat, stop : Nat, renewed : BOOLEAN]

Idle == [pc |-> "idle"]

WorkersTypeOK ==
  /\ TypeOK
  /\ task \in [Slots -> Task \cup {Idle}]
  /\ canceled \subseteq Jobs \X Nat

WorkersInit == Init /\ task = [s \in Slots |-> Idle] /\ canceled = {}

Busy(s, pc) == task[s].pc = pc

(* JobLeaseIdentity of a task.                                             *)
IdentityOf(s) ==
  [job |-> task[s].job, run |-> task[s].run, attempt |-> task[s].attempt, worker |-> s[1]]

Becomes(s, pc) == task' = [task EXCEPT ![s].pc = pc]
Ends(s) == task' = [task EXCEPT ![s] = Idle]

-----------------------------------------------------------------------------
(* Claiming.                                                               *)

ClaimJob(s, j, left) ==
  /\ Busy(s, "idle")
  /\ Claim(s[1], j, JobTypes[s[1]], "WORKER_PRESTART", left)
  /\ task' = [task EXCEPT ![s] =
       [pc |-> "claimed", job |-> j, run |-> run_number[j], attempt |-> attempt[j] + 1,
        stop |-> 0, renewed |-> FALSE]]

(* The claim committed and its answer was lost: no task is spawned.        *)
ClaimAnswerLost(s, j, left) ==
  /\ Busy(s, "idle")
  /\ Claim(s[1], j, JobTypes[s[1]], "WORKER_PRESTART", left)
  /\ UNCHANGED task

-----------------------------------------------------------------------------
(* mark_job_running_or_abort.                                              *)

(* The handler starts: the first heartbeat is due after one budget and has *)
(* one budget to succeed.  The lease is not extended here.                 *)
StartHandler(s) ==
  /\ Busy(s, "claimed")
  /\ MarkRunning(IdentityOf(s))
  /\ task' = [task EXCEPT ![s].pc = "running", ![s].stop = 2 * Budget]

StartRejected(s) ==
  /\ Busy(s, "claimed")
  /\ ~HoldsLiveLease(IdentityOf(s))
  /\ Ends(s)
  /\ UNCHANGED vars

StartError(s) ==
  /\ Busy(s, "claimed")
  /\ MarkRunning(IdentityOf(s)) \/ UNCHANGED vars
  /\ Becomes(s, "releasing")

(* release_unstarted_claim_after_running_progress_failure.                 *)
ReleaseClaim(s) ==
  /\ Busy(s, "releasing")
  /\ \E d \in RetryDelays : ReleaseUnstarted(IdentityOf(s), d)
  /\ Ends(s)

(* Not applicable, or failed: the claim is left to the reaper.             *)
ReleaseError(s) ==
  /\ Busy(s, "releasing")
  /\ Ends(s)
  /\ UNCHANGED vars

-----------------------------------------------------------------------------
(* execute_job_handler_with_heartbeats.                                    *)

HeartbeatDue(s) == Busy(s, "running") /\ task[s].stop <= Budget

(* Mutant: the lease is renewed by the heartbeat but the next deadline is  *)
(* a whole lease away.                                                     *)
HeartbeatOnceALease(s) ==
  /\ HeartbeatDue(s)
  /\ \E left \in LeaseLefts :
       /\ LeaseTtl - left <= Budget - task[s].stop
       /\ Heartbeat(IdentityOf(s), left)
  /\ task' = [task EXCEPT ![s].stop = LeaseTtl, ![s].renewed = TRUE]

(* The heartbeat started with a whole budget, so its transaction has been  *)
(* waiting for at most the part of the budget that is gone.  The ticker's  *)
(* Delay behaviour puts the next tick one budget after this one.           *)
HeartbeatOk(s) ==
  /\ HeartbeatDue(s)
  /\ \E left \in LeaseLefts :
       /\ LeaseTtl - left <= Budget - task[s].stop
       /\ Heartbeat(IdentityOf(s), left)
  /\ task' = [task EXCEPT ![s].stop = @ + Budget, ![s].renewed = TRUE]

(* Lease mismatch, database error, or the budget is spent: the handler is  *)
(* dropped.  The heartbeat may still have committed.                       *)
HeartbeatAbort(s) ==
  /\ HeartbeatDue(s)
  /\ Ends(s)
  /\ (\E left \in LeaseLefts : Heartbeat(IdentityOf(s), left)) \/ UNCHANGED vars

(* persist_progress met a lease mismatch: wait_for_lease_loss wakes.       *)
LeaseLossNoticed(s) ==
  /\ Busy(s, "running")
  /\ ~HoldsLiveLease(IdentityOf(s))
  /\ Ends(s)
  /\ UNCHANGED vars

(* A result, a panic or the job's own timeout.                             *)
HandlerReturns(s) ==
  /\ Busy(s, "running")
  /\ Becomes(s, "completing")
  /\ UNCHANGED vars

-----------------------------------------------------------------------------
(* complete_job_after_handler, complete_job_failure_after_handler.         *)

(* Committed, whether or not the answer arrives.                           *)
CompleteJob(s) ==
  /\ Busy(s, "completing")
  /\ \/ CompleteSuccess(IdentityOf(s))
     \/ \E d \in RetryDelays : CompleteContinuation(IdentityOf(s), d)
     \/ \E retryable \in BOOLEAN, d \in RetryDelays :
          CompleteFailure(IdentityOf(s), retryable, d)
  /\ Ends(s)

(* Lease mismatch or database error: not retried by the worker.            *)
CompleteError(s) ==
  /\ Busy(s, "completing")
  /\ Ends(s)
  /\ UNCHANGED vars

(* The process of a worker dies; it may come back under the same id.       *)
Crash(w) ==
  /\ \E s \in Slots : s[1] = w /\ ~Busy(s, "idle")
  /\ task' = [s \in Slots |-> IF s[1] = w THEN Idle ELSE task[s]]
  /\ UNCHANGED vars

-----------------------------------------------------------------------------
(* The other clients of the queue, and time.                               *)

OthersStep ==
  /\ \/ \E j \in Jobs, d \in RetryDelays : Enqueue(j, d)
     \/ \E j \in Jobs : Reap(j) \/ ReapDeferred(j)
     \/ \E c \in resource_claims : CleanupResourceClaim(c)
     \/ \E j \in Jobs, s \in Statuses : \E r \in 1..MaxRun[j] : CompareAndRequeue(j, s, r)
  /\ UNCHANGED <<task, canceled>>

CancelJob(j) ==
  /\ Cancel(j)
  /\ canceled' = canceled \cup
       (IF status[j] = "LEASED" /\ lease[j] > 0 THEN {<<j, run_number[j]>>} ELSE {})
  /\ UNCHANGED task

(* A healthy runtime polls the select loop when its timers fire: no        *)
(* handler is polled past its stop.                                        *)
WorkersTick ==
  /\ ClockRunning \/ \E s \in Slots : Busy(s, "running")
  /\ \A s \in Slots : Busy(s, "running") => task[s].stop > 0
  /\ TimePasses
  /\ task' = [s \in Slots |->
       IF Busy(s, "running") THEN [task[s] EXCEPT !.stop = @ - 1] ELSE task[s]]
  /\ UNCHANGED canceled

TaskStep(s) ==
  \/ StartHandler(s) \/ StartRejected(s) \/ StartError(s)
  \/ ReleaseClaim(s) \/ ReleaseError(s)
  \/ HeartbeatOk(s) \/ HeartbeatAbort(s) \/ LeaseLossNoticed(s) \/ HandlerReturns(s)
  \/ CompleteJob(s) \/ CompleteError(s)

WorkersNext ==
  \/ \E s \in Slots, j \in Jobs, left \in LeaseLefts :
       (ClaimJob(s, j, left) \/ ClaimAnswerLost(s, j, left)) /\ UNCHANGED canceled
  \/ \E s \in Slots : TaskStep(s) /\ UNCHANGED canceled
  \/ \E w \in Workers : Crash(w) /\ UNCHANGED canceled
  \/ OthersStep
  \/ \E j \in Jobs : CancelJob(j)
  \/ WorkersTick

WorkersSpec == WorkersInit /\ [][WorkersNext]_wvars

(* Time passes.  A handler returns or is timed out (timeout_seconds), and  *)
(* its outcome is written or given up.  The reaper loop polls until        *)
(* shutdown; a row's transition may be deferred after an error, but not    *)
(* every time.                                                             *)
WorkersFairSpec ==
  /\ WorkersSpec
  /\ WF_wvars(WorkersTick)
  /\ \A s \in Slots :
       /\ WF_wvars(HandlerReturns(s) /\ UNCHANGED canceled)
       /\ WF_wvars((CompleteJob(s) \/ CompleteError(s)) /\ UNCHANGED canceled)
  /\ \A j \in Jobs : SF_wvars(Reap(j) /\ UNCHANGED <<task, canceled>>)

-----------------------------------------------------------------------------
(* Properties.                                                             *)

(* The row still promises the task's deadline to it: its lease, or the     *)
(* quiescence marker a cancellation left behind.                           *)
Granted(s) ==
  LET j == task[s].job IN
    /\ \/ OwnsLease(IdentityOf(s))
       \/ /\ status[j] = "CANCELED"
          /\ run_number[j] = task[s].run
          /\ attempt[j] = task[s].attempt
    /\ lease[j] > task[s].stop

(* A handler that has renewed its lease once is never polled past the      *)
(* deadline in the row: heartbeat period, heartbeat budget and lease       *)
(* duration leave a margin whatever the delays, cancellations and reaping. *)
RenewedHandlersAreGranted ==
  \A s \in Slots : (Busy(s, "running") /\ task[s].renewed) => Granted(s)

(* No two handlers that renewed their leases run at once for the same job  *)
(* or for two jobs with the same execution resource.  Both properties are  *)
(* about one task per worker id: see IdentityFencesOneTask.                *)
RenewedHandlersAreExclusive ==
  \A s, t \in Slots :
    (/\ s # t
     /\ Busy(s, "running") /\ task[s].renewed
     /\ Busy(t, "running") /\ task[t].renewed) =>
       /\ task[s].job # task[t].job
       /\ ResourceOf[task[s].job] = NoResource
            \/ ResourceOf[task[s].job] # ResourceOf[task[t].job]

(* Every lease comes to an end, whatever crashed while holding it.         *)
LeasesEnd == \A j \in Jobs : (status[j] = "LEASED") ~> (status[j] # "LEASED")

(* JobLeaseIdentity, "Lifecycle mutations use every field to fence an      *)
(* operation to one claimed attempt": one task at most executes under a    *)
(* lease identity.                                                         *)
IdentityFencesOneTask ==
  \A s, t \in Slots :
    (s # t /\ Busy(s, "running") /\ Busy(t, "running")) => IdentityOf(s) # IdentityOf(t)

(* compare-and-requeue, "preventing a healthy canceled handler from        *)
(* overlapping the replacement run": while a handler of a run canceled     *)
(* under a live lease is still within its own deadlines, no handler of a   *)
(* later run of the job executes.                                          *)
CanceledHandlersDoNotOverlap ==
  \A s, t \in Slots :
    (/\ Busy(s, "running") /\ Busy(t, "running")
     /\ task[s].job = task[t].job
     /\ <<task[s].job, task[s].run>> \in canceled
     /\ task[s].stop > 0) => task[t].run <= task[s].run
=============================================================================
