------------------------ MODULE WorkerLeasesProofs ------------------------
(***************************************************************************)
(* The tasks of module WorkerLeases change the queue only by steps of      *)
(* module JobQueue, so everything proved of the queue holds with workers   *)
(* that crash, lose answers and act late; and a handler that has renewed   *)
(* its lease is never polled past the deadline in its row.                 *)
(***************************************************************************)
EXTENDS WorkerLeases, JobQueueProofs

TasksTyped == task \in [Slots -> Task \cup {Idle}] /\ canceled \subseteq Jobs \X Nat

WorkersTypeInv == TypeInv /\ TasksTyped

(* A task that is not idle has the columns of a task.                      *)
LEMMA BusyTask ==
  ASSUME TasksTyped, NEW s \in Slots, task[s].pc # "idle"
  PROVE  /\ task[s] \in Task
         /\ task[s].job \in Jobs /\ task[s].run \in Nat /\ task[s].attempt \in Nat
         /\ task[s].stop \in Nat /\ task[s].renewed \in BOOLEAN
         /\ s[1] \in Workers
<1>1. task[s] \in Task
  BY DEF TasksTyped, Idle
<1> QED
  BY <1>1 DEF Task, Slots

(* A lifecycle call of a task that owns its lease is one of the calls that *)
(* module JobQueue offers.                                                 *)
LEMMA OwnedIdentity ==
  ASSUME TasksTyped, NEW s \in Slots, task[s].pc # "idle", OwnsLease(IdentityOf(s))
  PROVE  /\ IdentityOf(s) \in CurrentIdentities
         /\ IdentityOf(s).job = task[s].job
         /\ status[task[s].job] = "LEASED"
         /\ worker_id[task[s].job] = s[1]
<1>1. task[s].job \in Jobs
  BY BusyTask
<1> QED
  BY <1>1 DEF OwnsLease, IdentityOf, CurrentIdentities

(* A step of a task is a step of the queue, or leaves the queue alone.     *)
LEMMA TaskStepRefines ==
  ASSUME WorkersTypeInv, NEW s \in Slots, TaskStep(s)
  PROVE  [Next]_vars
<1> DEFINE id == IdentityOf(s)
<1>1. task[s].pc # "idle"
  BY DEF TaskStep, StartHandler, StartRejected, StartError, ReleaseClaim, ReleaseError,
         HeartbeatOk, HeartbeatAbort, LeaseLossNoticed, HandlerReturns, CompleteJob,
         CompleteError, HeartbeatDue, Busy
<1>2. LeaseCall(id) \/ UNCHANGED vars
  BY DEF TaskStep, StartHandler, StartRejected, StartError, ReleaseClaim, ReleaseError,
         HeartbeatOk, HeartbeatAbort, LeaseLossNoticed, HandlerReturns, CompleteJob,
         CompleteError, LeaseCall
<1>3. ASSUME LeaseCall(id) PROVE Next
  <2>1. OwnsLease(id)
    BY <1>3 DEF LeaseCall, MarkRunning, Heartbeat, CompleteSuccess, CompleteContinuation,
                CompleteFailure, ReleaseUnstarted, HoldsLiveLease
  <2>2. id \in CurrentIdentities
    BY <1>1, <2>1, OwnedIdentity DEF WorkersTypeInv
  <2> HIDE DEF id
  <2> QED BY <1>3, <2>2 DEF Next
<1> QED
  BY <1>2, <1>3

(* When no timer of the queue runs, time leaves the queue alone.           *)
LEMMA TimeRefines ==
  ASSUME TypeOK, TimePasses
  PROVE  [Next]_vars
<1>1. CASE ClockRunning
  BY <1>1 DEF Next, Tick
<1>2. CASE ~ClockRunning
  <2>1. lease \in [Jobs -> Nat] /\ next_run \in [Jobs -> Nat] /\ resource_claims \subseteq ClaimRow
    BY DEF TypeOK
  <2>2. \A j \in Jobs : lease[j] = 0 /\ next_run[j] = 0
    BY <1>2, <2>1 DEF ClockRunning
  <2>3. lease' = lease /\ next_run' = next_run
    BY <2>1, <2>2 DEF TimePasses, Elapse
  <2>4. \A c \in resource_claims : [c EXCEPT !.left = Elapse(c.left)] = c
    <3> SUFFICES ASSUME NEW c \in resource_claims
                 PROVE  [c EXCEPT !.left = Elapse(c.left)] = c
      OBVIOUS
    <3>1. c \in ClaimRow /\ c.left \in Nat
      BY <2>1 DEF ClaimRow
    <3>2. Elapse(c.left) = c.left
      BY <1>2, <3>1 DEF ClockRunning, Elapse
    <3> QED BY <3>1, <3>2 DEF ClaimRow
  <2>5. resource_claims' = resource_claims
    <3>1. resource_claims' = {[c EXCEPT !.left = Elapse(c.left)] : c \in resource_claims}
      BY DEF TimePasses
    <3> QED BY <2>4, <3>1
  <2> QED BY <2>3, <2>5 DEF TimePasses, vars, queue_vars
<1> QED
  BY <1>1, <1>2

(* Every step of the workers is a step of the queue or leaves it alone.    *)
LEMMA WorkersStepRefines ==
  ASSUME WorkersTypeInv, [WorkersNext]_wvars
  PROVE  [Next]_vars
<1>1. ASSUME NEW s \in Slots, NEW j \in Jobs, NEW left \in LeaseLefts,
             ClaimJob(s, j, left) \/ ClaimAnswerLost(s, j, left)
      PROVE  Next
  <2>1. s[1] \in Workers
    BY DEF Slots
  <2>2. Claim(s[1], j, JobTypes[s[1]], "WORKER_PRESTART", left)
    BY <1>1 DEF ClaimJob, ClaimAnswerLost
  <2> QED BY <2>1, <2>2 DEF Next, Origins
<1>2. ASSUME NEW w \in Workers, Crash(w) PROVE UNCHANGED vars
  BY <1>2 DEF Crash
<1>3. CASE OthersStep
  BY <1>3 DEF OthersStep, Next
<1>4. ASSUME NEW j \in Jobs, CancelJob(j) PROVE Next
  BY <1>4 DEF CancelJob, Next
<1>5. CASE WorkersTick
  BY <1>5, TimeRefines DEF WorkersTick, WorkersTypeInv, TypeInv
<1>6. CASE UNCHANGED wvars
  BY <1>6 DEF wvars
<1> QED
  BY <1>1, <1>2, <1>3, <1>4, <1>5, <1>6, TaskStepRefines DEF WorkersNext

(* Tasks keep their types: a running handler is dropped before its stop    *)
(* would pass zero.                                                        *)
LEMMA TasksTypedStep ==
  ASSUME WorkersTypeInv, [WorkersNext]_wvars
  PROVE  TasksTyped'
<1> USE DEF TasksTyped
<1>1. task \in [Slots -> Task \cup {Idle}] /\ canceled \subseteq Jobs \X Nat
  BY DEF WorkersTypeInv
<1>2. run_number \in [Jobs -> Nat] /\ attempt \in [Jobs -> Nat]
  BY DEF WorkersTypeInv, TypeInv, TypeOK
<1>3. Budget \in Nat
  BY WorkerAssumption
<1>4. ASSUME NEW s \in Slots, NEW j \in Jobs, NEW left \in LeaseLefts,
             ClaimJob(s, j, left) \/ ClaimAnswerLost(s, j, left), UNCHANGED canceled
      PROVE  TasksTyped'
  <2> DEFINE new == [pc |-> "claimed", job |-> j, run |-> run_number[j],
                     attempt |-> attempt[j] + 1, stop |-> 0, renewed |-> FALSE]
  <2>1. new \in Task
    BY <1>2 DEF Task
  <2>2. task' = [task EXCEPT ![s] = new] \/ task' = task
    BY <1>4 DEF ClaimJob, ClaimAnswerLost
  <2> HIDE DEF new
  <2> QED BY <1>1, <1>4, <2>1, <2>2
<1>5. ASSUME NEW s \in Slots, TaskStep(s), UNCHANGED canceled
      PROVE  TasksTyped'
  <2>1. task[s].pc # "idle"
    BY <1>5 DEF TaskStep, StartHandler, StartRejected, StartError, ReleaseClaim, ReleaseError,
           HeartbeatOk, HeartbeatAbort, LeaseLossNoticed, HandlerReturns, CompleteJob,
           CompleteError, HeartbeatDue, Busy
  <2>2. task[s] \in Task
    BY <2>1, BusyTask DEF WorkersTypeInv
  <2>3. \/ Ends(s)
        \/ \E pc \in {"claimed", "releasing", "running", "completing"} : Becomes(s, pc)
        \/ task' = [task EXCEPT ![s].pc = "running", ![s].stop = 2 * Budget]
        \/ task' = [task EXCEPT ![s].stop = @ + Budget, ![s].renewed = TRUE]
    BY <1>5 DEF TaskStep, StartHandler, StartRejected, StartError, ReleaseClaim, ReleaseError,
           HeartbeatOk, HeartbeatAbort, LeaseLossNoticed, HandlerReturns, CompleteJob,
           CompleteError
  <2> QED BY <1>1, <1>3, <1>5, <2>2, <2>3 DEF Ends, Becomes, Task
<1>6. ASSUME NEW w \in Workers, Crash(w), UNCHANGED canceled
      PROVE  TasksTyped'
  BY <1>1, <1>6 DEF Crash
<1>7. CASE OthersStep
  BY <1>1, <1>7 DEF OthersStep
<1>8. ASSUME NEW j \in Jobs, CancelJob(j)
      PROVE  TasksTyped'
  BY <1>1, <1>2, <1>8 DEF CancelJob
<1>9. CASE WorkersTick
  <2>1. \A s \in Slots : Busy(s, "running") => [task[s] EXCEPT !.stop = @ - 1] \in Task
    <3> SUFFICES ASSUME NEW s \in Slots, Busy(s, "running")
                 PROVE  [task[s] EXCEPT !.stop = @ - 1] \in Task
      OBVIOUS
    <3>1. task[s] \in Task /\ task[s].stop \in Nat
      BY BusyTask DEF Busy, WorkersTypeInv
    <3>2. task[s].stop > 0
      BY <1>9 DEF WorkersTick
    <3> QED BY <3>1, <3>2 DEF Task
  <2> QED BY <1>1, <1>9, <2>1 DEF WorkersTick
<1>10. CASE UNCHANGED wvars
  BY <1>1, <1>10 DEF wvars
<1> QED
  BY <1>4, <1>5, <1>6, <1>7, <1>8, <1>9, <1>10 DEF WorkersNext

(* The types hold initially and stay.                                      *)
LEMMA WorkersTypeInvariant == WorkersSpec => []WorkersTypeInv
<1>1. WorkersInit => WorkersTypeInv
  BY ConstantsAssumption
     DEF WorkersInit, Init, WorkersTypeInv, TypeInv, TypeOK, LeasedHasAttempt, Statuses, TasksTyped
<1>2. WorkersTypeInv /\ [WorkersNext]_wvars => WorkersTypeInv'
  BY WorkersStepRefines, TypeInvStep, TasksTypedStep DEF WorkersTypeInv
<1> QED
  BY <1>1, <1>2, PTL DEF WorkersSpec

(* Rows and tasks keep their types; no handler is polled past its stop.    *)
THEOREM WorkersTypeCorrect == WorkersSpec => []WorkersTypeOK
<1>1. WorkersTypeInv => WorkersTypeOK
  BY DEF WorkersTypeInv, TypeInv, TasksTyped, WorkersTypeOK
<1> QED
  BY <1>1, WorkersTypeInvariant, PTL

(* The workers implement the queue's specification: however they crash,    *)
(* lose answers or act late, the rows see only the queue's transactions.   *)
THEOREM WorkersImplementQueue == WorkersSpec => Spec
<1>1. WorkersInit => Init
  BY DEF WorkersInit
<1>2. WorkersTypeInv /\ [WorkersNext]_wvars => [Next]_vars
  BY WorkersStepRefines
<1> QED
  BY <1>1, <1>2, WorkersTypeInvariant, PTL DEF WorkersSpec, Spec

(* Whatever the workers do with their tasks, seen from outside the rows    *)
(* make only the steps of the queue's contract.                            *)
THEOREM WorkersKeepTheContract == WorkersSpec => KeepsTheContract
  BY WorkersImplementQueue, QueueKeepsTheContract, PTL

-----------------------------------------------------------------------------
(* Renewed handlers.                                                       *)

(* No heartbeat has succeeded before the handler runs.                     *)
FreshTasks == \A s \in Slots : task[s].pc \in {"claimed", "releasing"} => ~task[s].renewed

(* The columns of the row of job j that a grant depends on.                *)
RowKept(j) ==
  /\ status'[j] = status[j] /\ run_number'[j] = run_number[j] /\ attempt'[j] = attempt[j]
  /\ worker_id'[j] = worker_id[j] /\ lease'[j] = lease[j]

(* A handler and its row are left alone.                                   *)
LEMMA GrantKept ==
  ASSUME NEW t \in Slots, Granted(t), task'[t] = task[t], RowKept(task[t].job)
  PROVE  Granted(t)'
BY DEF Granted, RowKept, OwnsLease, IdentityOf

(* A call fenced by a lease identity changes only the row it names.        *)
LEMMA LeaseCallRow ==
  ASSUME TypeOK, NEW id, id.job \in Jobs, LeaseCall(id), NEW j \in Jobs, j # id.job
  PROVE  RowKept(j)
BY DEF TypeOK, LeaseCall, MarkRunning, Heartbeat, CompleteSuccess, CompleteContinuation,
       CompleteFailure, ReleaseUnstarted, AdvanceToNextRun, EndLease, DeadLetter, ScheduleRetry,
       UndoClaim, RowKept, queue_vars

(* With one task per worker id, only one task holds the grant of a row     *)
(* whose lease another task owns.                                          *)
LEMMA OwnerIsAlone ==
  ASSUME Capacity = 1, WorkersTypeInv, NEW s \in Slots, NEW t \in Slots, s # t,
         task[s].pc # "idle", OwnsLease(IdentityOf(s)), Granted(t)
  PROVE  task[t].job # task[s].job
<1>1. status[task[s].job] = "LEASED" /\ worker_id[task[s].job] = s[1]
  BY OwnedIdentity DEF WorkersTypeInv
<1>2. s[1] # t[1]
  BY DEF Slots
<1> QED
  BY <1>1, <1>2 DEF Granted, OwnsLease, IdentityOf

(* So a call of another task never touches the row that grants a handler   *)
(* its deadline.                                                           *)
LEMMA OtherTasksCall ==
  ASSUME Capacity = 1, WorkersTypeInv, NEW s \in Slots, NEW t \in Slots, s # t,
         task[s].pc # "idle", task[t].pc # "idle", Granted(t), LeaseCall(IdentityOf(s))
  PROVE  RowKept(task[t].job)
<1>1. OwnsLease(IdentityOf(s))
  BY DEF LeaseCall, MarkRunning, Heartbeat, CompleteSuccess, CompleteContinuation,
         CompleteFailure, ReleaseUnstarted, HoldsLiveLease
<1>2. /\ IdentityOf(s).job = task[s].job
      /\ task[s].job \in Jobs /\ task[t].job \in Jobs
  BY <1>1, OwnedIdentity, BusyTask DEF WorkersTypeInv
<1>3. task[t].job # task[s].job
  BY <1>1, OwnerIsAlone
<1> QED
  BY <1>2, <1>3, LeaseCallRow DEF WorkersTypeInv, TypeInv

(* The other clients touch no row that grants a live deadline, and a       *)
(* cancellation leaves the deadline as the quiescence marker.              *)
LEMMA OthersRow ==
  ASSUME TypeOK, NEW j \in Jobs, status[j] \in {"LEASED", "CANCELED"}, lease[j] > 0,
         \/ \E k \in Jobs, d \in RetryDelays : Enqueue(k, d)
         \/ \E k \in Jobs : Reap(k) \/ ReapDeferred(k)
         \/ \E c \in resource_claims : CleanupResourceClaim(c)
         \/ \E k \in Jobs, s \in Statuses : \E r \in 1..MaxRun[k] : CompareAndRequeue(k, s, r)
  PROVE  RowKept(j)
<1> USE DEF TypeOK, RowKept
<1>1. ASSUME NEW k \in Jobs, NEW d \in RetryDelays, Enqueue(k, d) PROVE RowKept(j)
  BY <1>1 DEF Enqueue
<1>2. ASSUME NEW k \in Jobs, Reap(k) \/ ReapDeferred(k) PROVE RowKept(j)
  BY <1>2 DEF Reap, ReapDeferred, ExpiredLease, UndoClaim, DeadLetter, ScheduleRetry, EndLease
<1>3. ASSUME NEW c \in resource_claims, CleanupResourceClaim(c) PROVE RowKept(j)
  BY <1>3 DEF CleanupResourceClaim, queue_vars
<1>4. ASSUME NEW k \in Jobs, NEW s, NEW r, CompareAndRequeue(k, s, r) PROVE RowKept(j)
  BY <1>4 DEF CompareAndRequeue, AdvanceToNextRun, EndLease
<1> QED
  BY <1>1, <1>2, <1>3, <1>4

(* Neither does a claim, which takes a pending row.                        *)
LEMMA ClaimKeepsRow ==
  ASSUME TypeOK, NEW j \in Jobs, status[j] \in {"LEASED", "CANCELED"},
         NEW w, NEW k \in Jobs, NEW allowed, NEW left,
         Claim(w, k, allowed, "WORKER_PRESTART", left)
  PROVE  RowKept(j)
BY DEF TypeOK, RowKept, Claim, Claimable, Due

(* The margin of a heartbeat: it renews the lease to more than the next    *)
(* stop, because period and budget are at most a third of the lease.       *)
LEMMA HeartbeatGrants ==
  ASSUME WorkersTypeInv, NEW s \in Slots, HeartbeatOk(s)
  PROVE  Granted(s)'
<1>1. PICK left \in LeaseLefts :
        LeaseTtl - left <= Budget - task[s].stop /\ Heartbeat(IdentityOf(s), left)
  BY DEF HeartbeatOk
<1>2. task[s] \in Task /\ task[s].job \in Jobs /\ task[s].stop \in Nat
  BY BusyTask DEF HeartbeatOk, HeartbeatDue, Busy, WorkersTypeInv
<1>3. task'[s] = [task[s] EXCEPT !.stop = @ + Budget, !.renewed = TRUE]
  BY DEF HeartbeatOk, WorkersTypeInv, TasksTyped
<1>4. /\ task'[s].stop = task[s].stop + Budget
      /\ task'[s].job = task[s].job /\ task'[s].run = task[s].run
      /\ task'[s].attempt = task[s].attempt
  BY <1>2, <1>3 DEF Task
<1>5. /\ OwnsLease(IdentityOf(s))
      /\ lease' = [lease EXCEPT ![task[s].job] = left]
      /\ UNCHANGED <<status, run_number, attempt, worker_id>>
  BY <1>1 DEF Heartbeat, HoldsLiveLease, IdentityOf
<1>6. lease'[task[s].job] = left
  BY <1>2, <1>5 DEF WorkersTypeInv, TypeInv, TypeOK
<1>7. left > task[s].stop + Budget
  BY <1>1, <1>2, ConstantsAssumption, WorkerAssumption DEF LeaseLefts
<1> QED
  BY <1>4, <1>5, <1>6, <1>7 DEF Granted, OwnsLease, IdentityOf

(* A handler that has renewed its lease.                                   *)
Renewed(t) == Busy(t, "running") /\ task[t].renewed

(* Two renewed handlers execute two jobs.                                  *)
RenewedJobsDiffer ==
  \A s, t \in Slots : (s # t /\ Renewed(s) /\ Renewed(t)) => task[s].job # task[t].job

(* No renewal before the handler runs, no renewed handler without its      *)
(* grant, and one renewed handler per job: a cancellation leaves two       *)
(* grants of one row indistinguishable, so the last is needed before it.   *)
GrantInv == FreshTasks /\ RenewedHandlersAreGranted /\ RenewedJobsDiffer

(* What a grant says of the row.                                           *)
LEMMA GrantedRow ==
  ASSUME WorkersTypeInv, GrantInv, NEW t \in Slots, Renewed(t)
  PROVE  /\ Granted(t) /\ task[t].pc # "idle" /\ task[t] \in Task
         /\ task[t].job \in Jobs /\ task[t].stop \in Nat
         /\ status[task[t].job] \in {"LEASED", "CANCELED"}
         /\ lease[task[t].job] \in Nat /\ lease[task[t].job] > 0
<1>1. Granted(t) /\ task[t].pc # "idle"
  BY DEF GrantInv, RenewedHandlersAreGranted, Renewed, Busy
<1>2. task[t] \in Task /\ task[t].job \in Jobs /\ task[t].stop \in Nat
  BY <1>1, BusyTask DEF WorkersTypeInv
<1>3. lease[task[t].job] \in Nat
  BY <1>2 DEF WorkersTypeInv, TypeInv, TypeOK
<1> QED
  BY <1>1, <1>2, <1>3 DEF Granted, OwnsLease, IdentityOf

(* The task of t is left alone and so is its row if it grants a deadline.  *)
LeftAlone(t) == task'[t] = task[t] /\ (Renewed(t) => RowKept(task[t].job))

(* After the step, t has no renewed lease.                                 *)
Unrenewed(t) ==
  /\ task'[t].pc \in {"claimed", "releasing"} => ~task'[t].renewed
  /\ task'[t].pc = "running" => ~task'[t].renewed

(* What an accepted heartbeat gives: the grant, on a job of its own.       *)
LEMMA HeartbeatKeeps ==
  ASSUME Capacity = 1, WorkersTypeInv, NEW s \in Slots, HeartbeatOk(s)
  PROVE  /\ Granted(s)' /\ task'[s].pc = "running" /\ task'[s].job = task[s].job
         /\ \A t \in Slots : t # s /\ Granted(t) => task[t].job # task[s].job
<1>1. task[s].pc = "running" /\ OwnsLease(IdentityOf(s))
  BY DEF HeartbeatOk, HeartbeatDue, Busy, Heartbeat, HoldsLiveLease
<1>2. task[s] \in Task
  BY <1>1, BusyTask DEF WorkersTypeInv
<1>3. task'[s] = [task[s] EXCEPT !.stop = @ + Budget, !.renewed = TRUE]
  BY DEF HeartbeatOk, WorkersTypeInv, TasksTyped
<1>4. task'[s].pc = "running" /\ task'[s].job = task[s].job
  BY <1>1, <1>2, <1>3 DEF Task
<1>5. ASSUME NEW t \in Slots, t # s, Granted(t)
      PROVE  task[t].job # task[s].job
  BY <1>1, <1>5, OwnerIsAlone
<1> QED
  BY <1>4, <1>5, HeartbeatGrants

(* The argument common to all steps but cancellation and time.             *)
LEMMA GrantInvKept ==
  ASSUME Capacity = 1, WorkersTypeInv, GrantInv,
         \A t \in Slots : LeftAlone(t) \/ Unrenewed(t) \/ HeartbeatOk(t)
  PROVE  GrantInv'
<1>1. ASSUME NEW t \in Slots, HeartbeatOk(t)
      PROVE  /\ Granted(t)' /\ task'[t].pc = "running" /\ task'[t].job = task[t].job
             /\ \A u \in Slots : u # t /\ Granted(u) => task[u].job # task[t].job
  BY <1>1, HeartbeatKeeps
<1>2. ASSUME NEW t \in Slots, LeftAlone(t), Renewed(t)'
      PROVE  /\ Renewed(t) /\ Granted(t) /\ Granted(t)' /\ task'[t].job = task[t].job
  <2>1. Renewed(t) /\ task'[t] = task[t] /\ RowKept(task[t].job)
    BY <1>2 DEF LeftAlone, Renewed, Busy
  <2>2. Granted(t)
    BY <2>1 DEF GrantInv, RenewedHandlersAreGranted, Renewed
  <2> QED BY <2>1, <2>2, GrantKept
<1>3. ASSUME NEW t \in Slots, Renewed(t)'
      PROVE  LeftAlone(t) \/ HeartbeatOk(t)
  BY <1>3 DEF Unrenewed, Renewed, Busy
<1>4. FreshTasks'
  <2> SUFFICES ASSUME NEW t \in Slots, task'[t].pc \in {"claimed", "releasing"}
               PROVE  ~task'[t].renewed
    BY DEF FreshTasks
  <2>1. CASE LeftAlone(t)
    BY <2>1 DEF LeftAlone, GrantInv, FreshTasks
  <2>2. CASE Unrenewed(t)
    BY <2>2 DEF Unrenewed
  <2>3. CASE HeartbeatOk(t)
    BY <1>1, <2>3
  <2> QED BY <2>1, <2>2, <2>3
<1>5. RenewedHandlersAreGranted'
  <2> SUFFICES ASSUME NEW t \in Slots, Renewed(t)'
               PROVE  Granted(t)'
    BY DEF RenewedHandlersAreGranted, Renewed
  <2> QED BY <1>1, <1>2, <1>3
<1>6. RenewedJobsDiffer'
  <2> SUFFICES ASSUME NEW s \in Slots, NEW t \in Slots, s # t, Renewed(s)', Renewed(t)'
               PROVE  task'[s].job # task'[t].job
    BY DEF RenewedJobsDiffer
  <2>1. CASE LeftAlone(s) /\ LeftAlone(t)
    BY <1>2, <2>1 DEF GrantInv, RenewedJobsDiffer
  <2>2. CASE HeartbeatOk(s) /\ LeftAlone(t)
    BY <1>1, <1>2, <2>2
  <2>3. CASE HeartbeatOk(t) /\ LeftAlone(s)
    BY <1>1, <1>2, <2>3
  <2>4. CASE HeartbeatOk(s) /\ HeartbeatOk(t)
    <3>1. task[s].pc # "idle" /\ OwnsLease(IdentityOf(s)) /\ OwnsLease(IdentityOf(t))
      BY <2>4 DEF HeartbeatOk, HeartbeatDue, Busy, Heartbeat, HoldsLiveLease
    <3>2. s[1] # t[1]
      BY DEF Slots
    <3>3. task[s].job # task[t].job
      BY <3>1, <3>2 DEF OwnsLease, IdentityOf
    <3> QED BY <1>1, <2>4, <3>3
  <2> QED BY <1>3, <2>1, <2>2, <2>3, <2>4
<1> QED
  BY <1>4, <1>5, <1>6 DEF GrantInv

(* Every step of tasks, other clients and time keeps the invariant.        *)
LEMMA GrantInvStep ==
  ASSUME Capacity = 1, WorkersTypeInv, GrantInv, [WorkersNext]_wvars
  PROVE  GrantInv'
<1>0. task \in [Slots -> Task \cup {Idle}]
  BY DEF WorkersTypeInv, TasksTyped
<1>1. ASSUME NEW s \in Slots, NEW j \in Jobs, NEW left \in LeaseLefts,
             ClaimJob(s, j, left) \/ ClaimAnswerLost(s, j, left)
      PROVE  GrantInv'
  <2>1. Claim(s[1], j, JobTypes[s[1]], "WORKER_PRESTART", left)
    BY <1>1 DEF ClaimJob, ClaimAnswerLost
  <2>2. \A t \in Slots : Renewed(t) => RowKept(task[t].job)
    BY <2>1, GrantedRow, ClaimKeepsRow DEF WorkersTypeInv, TypeInv
  <2>3. \A t \in Slots \ {s} : task'[t] = task[t]
    BY <1>0, <1>1 DEF ClaimJob, ClaimAnswerLost
  <2>4. Unrenewed(s)
    BY <1>0, <1>1 DEF ClaimJob, ClaimAnswerLost, Busy, Unrenewed
  <2> QED BY <2>2, <2>3, <2>4, GrantInvKept DEF LeftAlone
<1>2. ASSUME NEW s \in Slots, TaskStep(s)
      PROVE  GrantInv'
  <2>1. task[s].pc # "idle"
    BY <1>2 DEF TaskStep, StartHandler, StartRejected, StartError, ReleaseClaim, ReleaseError,
           HeartbeatOk, HeartbeatAbort, LeaseLossNoticed, HandlerReturns, CompleteJob,
           CompleteError, HeartbeatDue, Busy
  <2>2. task[s] \in Task
    BY <2>1, BusyTask DEF WorkersTypeInv
  <2>3. LeaseCall(IdentityOf(s)) \/ UNCHANGED vars
    BY <1>2 DEF TaskStep, StartHandler, StartRejected, StartError, ReleaseClaim, ReleaseError,
           HeartbeatOk, HeartbeatAbort, LeaseLossNoticed, HandlerReturns, CompleteJob,
           CompleteError, LeaseCall
  <2>4. \A t \in Slots \ {s} : Renewed(t) => RowKept(task[t].job)
    <3>1. CASE LeaseCall(IdentityOf(s))
      BY <2>1, <3>1, GrantedRow, OtherTasksCall
    <3>2. CASE UNCHANGED vars
      BY <3>2 DEF vars, queue_vars, RowKept
    <3> QED BY <2>3, <3>1, <3>2
  <2>5. \/ Ends(s)
        \/ Becomes(s, "completing")
        \/ Becomes(s, "releasing") /\ task[s].pc = "claimed"
        \/ task' = [task EXCEPT ![s].pc = "running", ![s].stop = 2 * Budget] /\ task[s].pc = "claimed"
        \/ task' = [task EXCEPT ![s].stop = @ + Budget, ![s].renewed = TRUE] /\ HeartbeatOk(s)
    BY <1>2 DEF TaskStep, StartHandler, StartRejected, StartError, ReleaseClaim, ReleaseError,
           HeartbeatOk, HeartbeatAbort, LeaseLossNoticed, HandlerReturns, CompleteJob,
           CompleteError, Busy
  <2>6. \A t \in Slots \ {s} : task'[t] = task[t]
    BY <1>0, <2>5 DEF Ends, Becomes
  <2>7. task[s].pc = "claimed" => ~task[s].renewed
    BY DEF GrantInv, FreshTasks
  <2>8. Unrenewed(s) \/ HeartbeatOk(s)
    <3>1. CASE Ends(s)
      BY <1>0, <3>1 DEF Ends, Idle, Unrenewed
    <3>2. CASE Becomes(s, "completing")
      BY <1>0, <2>2, <3>2 DEF Becomes, Task, Unrenewed
    <3>3. CASE Becomes(s, "releasing") /\ task[s].pc = "claimed"
      BY <1>0, <2>2, <2>7, <3>3 DEF Becomes, Task, Unrenewed
    <3>4. CASE task' = [task EXCEPT ![s].pc = "running", ![s].stop = 2 * Budget] /\ task[s].pc = "claimed"
      BY <1>0, <2>2, <2>7, <3>4 DEF Task, Unrenewed
    <3> QED BY <2>5, <3>1, <3>2, <3>3, <3>4
  <2> QED BY <2>4, <2>6, <2>8, GrantInvKept DEF LeftAlone
<1>3. ASSUME NEW w \in Workers, Crash(w)
      PROVE  GrantInv'
  <2>1. \A t \in Slots : task'[t] = task[t] \/ task'[t] = Idle
    BY <1>3 DEF Crash
  <2>2. \A t \in Slots : RowKept(task[t].job)
    BY <1>3 DEF Crash, vars, queue_vars, RowKept
  <2>3. \A t \in Slots : task'[t] = Idle => Unrenewed(t)
    BY DEF Unrenewed, Idle
  <2> QED BY <2>1, <2>2, <2>3, GrantInvKept DEF LeftAlone
<1>4. CASE OthersStep
  <2>1. \A t \in Slots : Renewed(t) => RowKept(task[t].job)
    BY <1>4, GrantedRow, OthersRow DEF OthersStep, WorkersTypeInv, TypeInv
  <2>2. task' = task
    BY <1>4 DEF OthersStep
  <2> QED BY <2>1, <2>2, GrantInvKept DEF LeftAlone
<1>5. ASSUME NEW j \in Jobs, CancelJob(j)
      PROVE  GrantInv'
  <2>1. task' = task
    BY <1>5 DEF CancelJob
  <2>2. FreshTasks' /\ RenewedJobsDiffer'
    BY <2>1 DEF GrantInv, FreshTasks, RenewedJobsDiffer, Renewed, Busy
  <2>3. ASSUME NEW t \in Slots, Renewed(t)
        PROVE  Granted(t)'
    <3>1. Granted(t) /\ task[t].job \in Jobs
      BY <2>3, GrantedRow
    <3> QED BY <1>5, <2>1, <3>1
            DEF CancelJob, Cancel, Granted, OwnsLease, IdentityOf, WorkersTypeInv, TypeInv, TypeOK
  <2> QED BY <2>1, <2>2, <2>3 DEF GrantInv, RenewedHandlersAreGranted, Renewed, Busy
<1>6. CASE WorkersTick
  <2>1. \A t \in Slots : task'[t] =
          IF Busy(t, "running") THEN [task[t] EXCEPT !.stop = @ - 1] ELSE task[t]
    BY <1>6 DEF WorkersTick
  <2>2. \A t \in Slots : Busy(t, "running") =>
          task[t] \in Task /\ task[t].stop \in Nat /\ task[t].stop > 0
    BY <1>6, BusyTask DEF WorkersTick, WorkersTypeInv, Busy
  <2>3. FreshTasks'
    BY <2>1, <2>2 DEF GrantInv, FreshTasks, Busy, Task
  <2>4. ASSUME NEW t \in Slots, Renewed(t)'
        PROVE  Renewed(t) /\ Granted(t)' /\ task'[t].job = task[t].job
    <3>1. Busy(t, "running")
      BY <2>1, <2>4 DEF Busy, Renewed
    <3>2. /\ task'[t].stop = task[t].stop - 1 /\ task'[t].renewed = task[t].renewed
          /\ task'[t].job = task[t].job /\ task'[t].run = task[t].run
          /\ task'[t].attempt = task[t].attempt
      BY <2>1, <2>2, <3>1 DEF Task
    <3>3. Renewed(t)
      BY <2>4, <3>1, <3>2 DEF Renewed
    <3>4. Granted(t) /\ task[t].job \in Jobs /\ lease[task[t].job] \in Nat
      BY <3>3, GrantedRow
    <3>5. /\ lease'[task[t].job] = Elapse(lease[task[t].job])
          /\ UNCHANGED <<status, run_number, attempt, worker_id>>
      BY <1>6, <3>4 DEF WorkersTick, TimePasses
    <3>6. lease'[task[t].job] > task'[t].stop
      BY <2>2, <3>1, <3>2, <3>4, <3>5 DEF Elapse, Granted
    <3> QED BY <3>2, <3>3, <3>4, <3>5, <3>6 DEF Granted, OwnsLease, IdentityOf
  <2>5. RenewedHandlersAreGranted'
    BY <2>4 DEF RenewedHandlersAreGranted, Renewed
  <2>6. RenewedJobsDiffer'
    BY <2>4 DEF GrantInv, RenewedJobsDiffer
  <2> QED BY <2>3, <2>5, <2>6 DEF GrantInv
<1>7. CASE UNCHANGED wvars
  <2>1. \A t \in Slots : task'[t] = task[t] /\ RowKept(task[t].job)
    BY <1>7 DEF wvars, vars, queue_vars, RowKept
  <2> QED BY <2>1, GrantInvKept DEF LeftAlone
<1> QED
  BY <1>1, <1>2, <1>3, <1>4, <1>5, <1>6, <1>7 DEF WorkersNext

(* The invariant holds of every behaviour.                                 *)
LEMMA GrantInvariant ==
  ASSUME Capacity = 1
  PROVE  WorkersSpec => []GrantInv
<1>1. WorkersInit => GrantInv
  BY DEF WorkersInit, GrantInv, FreshTasks, RenewedHandlersAreGranted, RenewedJobsDiffer,
         Renewed, Busy, Idle
<1>2. WorkersTypeInv /\ GrantInv /\ [WorkersNext]_wvars => GrantInv'
  BY GrantInvStep
<1> QED
  BY <1>1, <1>2, WorkersTypeInvariant, PTL DEF WorkersSpec

(* With one task per worker id, a handler that has renewed its lease is    *)
(* never polled past the deadline in its row.                              *)
THEOREM RenewedHandlersAreGrantedHolds ==
  ASSUME Capacity = 1
  PROVE  WorkersSpec => []RenewedHandlersAreGranted
<1>1. GrantInv => RenewedHandlersAreGranted
  BY DEF GrantInv
<1> QED
  BY <1>1, GrantInvariant, PTL

(* Two such handlers never run at once for one job or one resource: each   *)
(* would need the live deadline of the other's row or permit.              *)
THEOREM RenewedHandlersAreExclusiveHolds ==
  ASSUME Capacity = 1
  PROVE  WorkersSpec => []RenewedHandlersAreExclusive
<1>1. WorkersTypeInv /\ GrantInv /\ ResourceExclusion => RenewedHandlersAreExclusive
  <2> SUFFICES ASSUME WorkersTypeInv, GrantInv, ResourceExclusion,
                      NEW s \in Slots, NEW t \in Slots, s # t, Renewed(s), Renewed(t)
               PROVE  /\ task[s].job # task[t].job
                      /\ ResourceOf[task[s].job] = NoResource
                           \/ ResourceOf[task[s].job] # ResourceOf[task[t].job]
    BY DEF RenewedHandlersAreExclusive, Renewed
  <2>1. task[s].job # task[t].job
    BY DEF GrantInv, RenewedJobsDiffer
  <2>2. /\ task[s].job \in Jobs /\ task[t].job \in Jobs
        /\ LiveGrant(task[s].job) /\ LiveGrant(task[t].job)
    BY GrantedRow DEF LiveGrant
  <2> QED BY <2>1, <2>2 DEF ResourceExclusion
<1> QED
  BY <1>1, GrantInvariant, ResourceExclusionHolds, WorkersImplementQueue,
     WorkersTypeInvariant, PTL

=============================================================================
