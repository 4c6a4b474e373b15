--------------------------- MODULE WorkerCallbacks ---------------------------
(***************************************************************************)
(* The worker loop and what it calls in the application: the handler of    *)
(* each claimed job, the persistence of its result, the observer tasks for *)
(* "running" and for the terminal event, the dead-letter hook, and the     *)
(* drain of all of them when a stop arrives.                               *)
(*                                                                         *)
(* A job stands for one lease: a job that is retried or continued is       *)
(* claimed again as another one.  Observers are registered; their          *)
(* callbacks end, or do not yield and then ignore timeouts and aborts.     *)
(***************************************************************************)
EXTENDS Naturals, FiniteSets

CONSTANTS
  Leases,              \* leases the worker may be given
  BlockingLeases,          \* jobs whose observers may never yield
  MaxConcurrency,    \* max_global_concurrency
  MaxTerminal,       \* WORKER_OBSERVER_TASK_MAX_CONCURRENCY
  Results            \* what handlers may return: a disposition, and whether it is valid

ASSUME WorkerAssumption ==
  /\ BlockingLeases \subseteq Leases /\ MaxConcurrency \in Nat \ {0} /\ MaxTerminal \in Nat \ {0}
  /\ Results \subseteq {"succeed", "continue", "retry", "fail"} \X BOOLEAN

VARIABLES
  stopping,       \* shutdown requested
  lease,        \* what the database holds for the lease
  exec,       \* the job task: where it is, what it persists, what it tells
  running,    \* the task of the observers' on_job_running
  terminal,   \* the task of the terminal event
  admitted,   \* ObserverTaskSets.terminal
  join_set,   \* WorkerLoop.join_set
  worker_loop        \* where the worker loop is

wvars == <<stopping, lease, exec, running, terminal, admitted, join_set, worker_loop>>

NoExec == [pc |-> "none", do |-> "none", valid |-> TRUE, event |-> "none", owns |-> FALSE, hooked |-> FALSE]
NoObserver == [state |-> "none", aborted |-> FALSE]

WorkerInit ==
  /\ stopping = FALSE
  /\ lease = [j \in Leases |-> "queued"]
  /\ exec = [j \in Leases |-> NoExec]
  /\ running = [j \in Leases |-> NoObserver] /\ terminal = [j \in Leases |-> NoObserver]
  /\ admitted = {} /\ join_set = {}
  /\ worker_loop = "top"

Active(t) == t.state \notin {"none", "ended"}
AbortTask(t) == IF Active(t) THEN [t EXCEPT !.aborted = TRUE] ELSE t
At(j, pc) == exec[j].pc = pc

(* Drop for JobRunningNotification: the job task ends and aborts the       *)
(* running observers it still owns.                                        *)
JobTaskEnds(j) ==
  /\ exec' = [exec EXCEPT ![j].pc = "done", ![j].owns = FALSE]
  /\ running' = IF exec[j].owns THEN [running EXCEPT ![j] = AbortTask(@)] ELSE running

-----------------------------------------------------------------------------
(* One claimed job: JobExecutor::execute.                                  *)

(* mark_job_running_or_abort, JobRunningNotification::spawn_in.            *)
MarkRunning(j) ==
  /\ At(j, "marking") /\ lease[j] = "leased"
  /\ exec' = [exec EXCEPT ![j].pc = "handler", ![j].owns = TRUE]
  /\ running' = [running EXCEPT ![j].state = "running"]
  /\ UNCHANGED <<stopping, lease, terminal, admitted, join_set, worker_loop>>

(* handle_running_progress_persist_failure: the lease was lost, or the     *)
(* claim is released, or that fails too and the reaper finds it.           *)
MarkFails(j, left) ==
  /\ At(j, "marking")
  /\ left = "released" => lease[j] = "leased"
  /\ left # "released" => left = lease[j]
  /\ lease' = [lease EXCEPT ![j] = left]
  /\ JobTaskEnds(j)
  /\ UNCHANGED <<stopping, terminal, admitted, join_set, worker_loop>>

(* The handler has returned, panicked or timed out.                        *)
HandlerReturns(j, result) ==
  /\ At(j, "handler")
  /\ exec' = [exec EXCEPT ![j].pc = "persist", ![j].do = result[1], ![j].valid = result[2]]
  /\ UNCHANGED <<stopping, lease, running, terminal, admitted, join_set, worker_loop>>

Told(j, event) == exec' = [exec EXCEPT ![j].pc = "notify", ![j].event = event]

(* JobExecutionFailure::LeaseMaintenance: a heartbeat failed or missed its *)
(* budget; the row may be gone, or not yet.                                *)
LeaseMaintenanceLost(j) ==
  /\ At(j, "handler")
  /\ Told(j, "lease_lost")
  /\ UNCHANGED <<stopping, lease, running, terminal, admitted, join_set, worker_loop>>

(* What complete_job_{success,continuation,failure} may leave behind.      *)
Targets(j) ==
  CASE exec[j].do = "succeed"  -> {"succeeded"}
    [] exec[j].do = "continue" -> {"continued"}
    [] exec[j].do = "retry"    -> {"retry", "dead"}
    [] exec[j].do = "fail"     -> {"dead"}

(* An invalid retry timing is not looked at when the attempts are used up. *)
Persistable(j, to) == exec[j].valid \/ (exec[j].do = "retry" /\ to = "dead")

PersistOk(j, to) ==
  /\ At(j, "persist") /\ lease[j] = "leased" /\ to \in Targets(j) /\ Persistable(j, to)
  /\ lease' = [lease EXCEPT ![j] = to]
  /\ Told(j, to)
  /\ UNCHANGED <<stopping, running, terminal, admitted, join_set, worker_loop>>

(* Mutant: every failed persistence is reported as a lost lease.           *)
LeaseLostWhenUnconfirmed(j, to) ==
  /\ At(j, "persist")
  /\ lease[j] = "leased" /\ to \in Targets(j) /\ Persistable(j, to)
  /\ lease' = [lease EXCEPT ![j] = to]
  /\ Told(j, "lease_lost")
  /\ UNCHANGED <<stopping, running, terminal, admitted, join_set, worker_loop>>

(* CommitUnconfirmed: the commit may have happened.                        *)
PersistUnconfirmed(j, to) ==
  /\ At(j, "persist")
  /\ lease[j] = "leased" /\ to \in Targets(j) /\ Persistable(j, to)
  /\ lease' = [lease EXCEPT ![j] = to]
  /\ Told(j, "persist_failed")
  /\ UNCHANGED <<stopping, running, terminal, admitted, join_set, worker_loop>>

(* handle_completion_persist_failure when nothing was committed.           *)
PersistFails(j) ==
  /\ At(j, "persist")
  /\ \/ Told(j, "persist_failed")
     \/ lease[j] # "leased" /\ Told(j, "lease_lost")
  /\ UNCHANGED <<stopping, lease, running, terminal, admitted, join_set, worker_loop>>

(* An invalid progress, continuation or retry timing makes the result a    *)
(* terminal failure, which is persisted in its place.                      *)
Rewrite(j) ==
  /\ At(j, "persist") /\ ~exec[j].valid
  /\ exec[j].do = "retry" => lease[j] = "leased"
  /\ exec' = [exec EXCEPT ![j].do = "fail", ![j].valid = TRUE]
  /\ UNCHANGED <<stopping, lease, running, terminal, admitted, join_set, worker_loop>>

(* The terminal task takes the handle of running observers and joins it.   *)
WaitsForRunning(j) == exec[j].owns /\ Active(running[j])

(* Mutant: a terminal event that is not admitted ends the job task.        *)
AfterNotifyAdmitted(j, admit) == IF admit /\ exec[j].event = "dead" THEN "hook" ELSE "ending"

(* apply_failure_completion_outcome: the hook follows the notification.    *)
AfterNotify(j, admit) == IF exec[j].event = "dead" THEN "hook" ELSE "ending"

(* ObserverTaskSets::try_admit.                                            *)
TryAdmit(finished) == Cardinality(admitted \ finished) < MaxTerminal

(* spawn_terminal_observer.                                                *)
Notify(j) ==
  /\ At(j, "notify")
  /\ LET finished == {k \in admitted : ~Active(terminal[k])}
         admit == TryAdmit(finished) IN
     /\ admitted' = (admitted \ finished) \cup IF admit THEN {j} ELSE {}
     /\ terminal' = IF ~admit THEN terminal
                    ELSE [terminal EXCEPT ![j].state = IF WaitsForRunning(j) THEN "draining" ELSE "notifying"]
     /\ exec' = [exec EXCEPT ![j].pc = AfterNotify(j, admit),
                             ![j].owns = @ /\ Active(running[j]) /\ ~admit]
  /\ UNCHANGED <<stopping, lease, running, join_set, worker_loop>>

(* notify_dead_letter_after_handler_failure.                               *)
StartHook(j) ==
  /\ At(j, "hook")
  /\ exec' = [exec EXCEPT ![j].pc = "hooking", ![j].hooked = TRUE]
  /\ UNCHANGED <<stopping, lease, running, terminal, admitted, join_set, worker_loop>>

(* The hook has returned, panicked or reached DEAD_LETTER_HOOK_TIMEOUT.    *)
HookEnds(j) ==
  /\ At(j, "hooking")
  /\ exec' = [exec EXCEPT ![j].pc = "ending"]
  /\ UNCHANGED <<stopping, lease, running, terminal, admitted, join_set, worker_loop>>

Finish(j) ==
  /\ At(j, "ending")
  /\ JobTaskEnds(j)
  /\ UNCHANGED <<stopping, lease, terminal, admitted, join_set, worker_loop>>

(* TaskRegistry aborts a job task that outlives the grace of a stop: its   *)
(* future is dropped where it waits; a commit it has sent may still happen.*)
JobTaskDropped(j, to) ==
  /\ stopping /\ exec[j].pc \notin {"none", "done"}
  /\ \/ to = lease[j]
     \/ At(j, "persist") /\ lease[j] = "leased" /\ to \in Targets(j) /\ Persistable(j, to)
  /\ lease' = [lease EXCEPT ![j] = to]
  /\ JobTaskEnds(j)
  /\ UNCHANGED <<stopping, terminal, admitted, join_set, worker_loop>>

-----------------------------------------------------------------------------
(* Observer tasks.                                                         *)

(* All of the observers' callbacks have ended, or the task was aborted.    *)
RunningEnds(j) ==
  /\ running[j].state = "running"
  /\ running' = [running EXCEPT ![j].state = "ended"]
  /\ UNCHANGED <<stopping, lease, exec, terminal, admitted, join_set, worker_loop>>

(* RunningObserverHandle::drain has joined the running observers.          *)
RunningJoined(j) ==
  /\ terminal[j].state = "draining" /\ ~Active(running[j])
  /\ terminal' = [terminal EXCEPT ![j].state = "notifying"]
  /\ UNCHANGED <<stopping, lease, exec, running, admitted, join_set, worker_loop>>

(* Drop for RunningObserverJoinGuard.                                      *)
DrainAborted(j) ==
  /\ terminal[j].state = "draining" /\ terminal[j].aborted
  /\ terminal' = [terminal EXCEPT ![j].state = "ended"]
  /\ running' = [running EXCEPT ![j] = AbortTask(@)]
  /\ UNCHANGED <<stopping, lease, exec, admitted, join_set, worker_loop>>

TerminalEnds(j) ==
  /\ terminal[j].state = "notifying"
  /\ terminal' = [terminal EXCEPT ![j].state = "ended"]
  /\ UNCHANGED <<stopping, lease, exec, running, admitted, join_set, worker_loop>>

-----------------------------------------------------------------------------
(* WorkerLoop.                                                             *)

JobsDone == {j \in join_set : At(j, "done")}
Capacity == MaxConcurrency - Cardinality(join_set)

(* iteration, up to the claim.                                             *)
Iterate ==
  /\ worker_loop = "top"
  /\ join_set' = join_set \ JobsDone
  /\ admitted' = {j \in admitted : Active(terminal[j])}
  /\ worker_loop' = IF stopping THEN "drain" ELSE IF Cardinality(join_set \ JobsDone) = MaxConcurrency THEN "sleep" ELSE "claim"
  /\ UNCHANGED <<stopping, lease, exec, running, terminal>>

(* claim, spawn_claimed_jobs; a failed claim is an empty one.              *)
Claim(batch) ==
  /\ worker_loop = "claim"
  /\ \A j \in batch : lease[j] = "queued"
  /\ IsFiniteSet(batch) /\ Cardinality(batch) <= Capacity
  /\ lease' = [j \in Leases |-> IF j \in batch THEN "leased" ELSE lease[j]]
  /\ exec' = [j \in Leases |-> IF j \in batch THEN [NoExec EXCEPT !.pc = "marking"] ELSE exec[j]]
  /\ join_set' = join_set \cup batch
  /\ worker_loop' = IF Cardinality(batch) = Capacity THEN "top" ELSE "sleep"
  /\ UNCHANGED <<stopping, running, terminal, admitted>>

(* wait_for_shutdown_or_poll_interval.                                     *)
WakeWorker ==
  /\ worker_loop = "sleep"
  /\ worker_loop' = IF stopping THEN "drain" ELSE "top"
  /\ UNCHANGED <<stopping, lease, exec, running, terminal, admitted, join_set>>

(* drain: every job task is joined before the observers are.               *)
DrainJobs ==
  /\ worker_loop = "drain" /\ JobsDone = join_set
  /\ join_set' = {}
  /\ worker_loop' = "observers"
  /\ UNCHANGED <<stopping, lease, exec, running, terminal, admitted>>

(* drain_terminal_observer_tasks.                                          *)
ObserversDrained ==
  /\ worker_loop \in {"observers", "aborting"}
  /\ \A j \in admitted : ~Active(terminal[j])
  /\ admitted' = {}
  /\ worker_loop' = "exited"
  /\ UNCHANGED <<stopping, lease, exec, running, terminal, join_set>>

(* TERMINAL_OBSERVER_SHUTDOWN_DRAIN_TIMEOUT: those that remain are aborted.*)
ObserverDrainTimeout ==
  /\ worker_loop = "observers" /\ \E j \in admitted : Active(terminal[j])
  /\ terminal' = [j \in Leases |-> IF j \in admitted THEN AbortTask(terminal[j]) ELSE terminal[j]]
  /\ worker_loop' = "aborting"
  /\ UNCHANGED <<stopping, lease, exec, running, admitted, join_set>>

(* TERMINAL_OBSERVER_ABORT_DRAIN_TIMEOUT: unresolved tasks are dropped.    *)
AbortTimeout ==
  /\ worker_loop = "aborting" /\ \E j \in admitted : Active(terminal[j])
  /\ admitted' = {}
  /\ worker_loop' = "exited"
  /\ UNCHANGED <<stopping, lease, exec, running, terminal, join_set>>

-----------------------------------------------------------------------------
(* The environment.                                                        *)

StopWorker ==
  /\ ~stopping
  /\ stopping' = TRUE
  /\ UNCHANGED <<lease, exec, running, terminal, admitted, join_set, worker_loop>>

(* The lease expires and a reaper, or a cancellation, ends it.             *)
LeaseTaken(j) ==
  /\ lease[j] = "leased"
  /\ lease' = [lease EXCEPT ![j] = "reaped"]
  /\ UNCHANGED <<stopping, exec, running, terminal, admitted, join_set, worker_loop>>

Rows == {"queued", "leased", "released", "succeeded", "continued", "retry", "dead", "reaped"}

JobStep(j) ==
  \/ MarkRunning(j) \/ \E left \in {"leased", "reaped", "released"} : MarkFails(j, left)
  \/ \E result \in Results : HandlerReturns(j, result)
  \/ LeaseMaintenanceLost(j) \/ PersistFails(j) \/ Rewrite(j)
  \/ \E to \in Rows : PersistOk(j, to) \/ PersistUnconfirmed(j, to)
  \/ Notify(j) \/ StartHook(j) \/ HookEnds(j) \/ Finish(j)

ObserverStep(j) == RunningEnds(j) \/ TerminalEnds(j)
JoinStep(j) == RunningJoined(j) \/ DrainAborted(j)

WorkerStep ==
  \/ Iterate \/ (\E batch \in SUBSET Leases : Claim(batch)) \/ WakeWorker
  \/ DrainJobs \/ ObserversDrained \/ ObserverDrainTimeout \/ AbortTimeout

WorkerTerminated == worker_loop = "exited" /\ UNCHANGED wvars

WorkerNext ==
  \/ WorkerStep \/ StopWorker \/ WorkerTerminated
  \/ \E j \in Leases : JobStep(j) \/ ObserverStep(j) \/ JoinStep(j) \/ LeaseTaken(j)
  \/ \E j \in Leases, to \in Rows : JobTaskDropped(j, to)

WorkerSpec == WorkerInit /\ [][WorkerNext]_wvars

(* The runtime polls every task that is ready and fires its timers; a      *)
(* handler ends by its timeout, a statement by the database's.             *)
WorkerFairSpec ==
  /\ WorkerSpec /\ WF_wvars(WorkerStep)
  /\ \A j \in Leases : WF_wvars(JobStep(j)) /\ WF_wvars(JoinStep(j))
  /\ \A j \in Leases \ BlockingLeases : WF_wvars(ObserverStep(j))

-----------------------------------------------------------------------------
(* Properties.                                                             *)

(* Types, and the limits of the job and of the terminal observer tasks.    *)
WorkerTypeOK ==
  /\ stopping \in BOOLEAN /\ lease \in [Leases -> Rows]
  /\ worker_loop \in {"top", "claim", "sleep", "drain", "observers", "aborting", "exited"}
  /\ join_set \subseteq Leases /\ Cardinality(join_set) <= MaxConcurrency
  /\ admitted \subseteq Leases /\ Cardinality(admitted) <= MaxTerminal

(* No observer is told how a job ended while it is still being told that   *)
(* the job runs.                                                           *)
RunningBeforeTerminal ==
  \A j \in Leases : terminal[j].state = "notifying" => ~Active(running[j])

(* What observers are told is what the database holds; "lease lost" is     *)
(* never said of a lease whose completion this worker did commit.          *)
EventsTellTheTruth ==
  \A j \in Leases :
    /\ exec[j].event \in {"succeeded", "continued", "retry", "dead"} => lease[j] = exec[j].event
    /\ exec[j].event = "lease_lost" => lease[j] \in {"leased", "reaped"}

(* The worker's dead-letter hook runs only for a dead letter the worker    *)
(* itself committed: never for a lease the reaper took, whose hook is the  *)
(* reaper's to call.                                                       *)
HookMeansOwnDeadLetter == \A j \in Leases : exec[j].hooked => lease[j] = "dead"

(* Running observers that outlive their job task are aborted, or joined by *)
(* a terminal task.                                                        *)
RunningIsOwned ==
  \A j \in Leases : exec[j].pc = "done" /\ Active(running[j]) => running[j].aborted \/ terminal[j].state = "draining"

(* When the loop has returned no job task is left, and of its observers    *)
(* only aborted ones and those an aborted terminal task is about to abort. *)
WorkerExitAborts ==
  worker_loop = "exited" => \A j \in Leases :
    /\ exec[j].pc \in {"none", "done"}
    /\ Active(terminal[j]) => terminal[j].aborted
    /\ Active(running[j]) => running[j].aborted \/ terminal[j].aborted

(* A stop ends the worker loop, whatever its observers do.                 *)
StopEndsTheWorker == stopping ~> (worker_loop = "exited")

(* A dead letter whose commit was confirmed has its hook called, whether   *)
(* or not there was room for its observers, unless a stop drops the task.  *)
ConfirmedDeadLettersAreHooked ==
  \A j \in Leases : (exec[j].event = "dead") ~> (exec[j].hooked \/ stopping)

(* The worker's callbacks: observers are told what the database holds, of  *)
(* the end only after the running notification is over; the hook is called *)
(* only for the worker's own dead letters; nothing outlives its owner.     *)
WorkerEventsTellTheTruth ==
  /\ WorkerTypeOK
  /\ RunningBeforeTerminal
  /\ EventsTellTheTruth
  /\ HookMeansOwnDeadLetter
  /\ RunningIsOwned
  /\ WorkerExitAborts
=============================================================================
