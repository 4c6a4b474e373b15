---------------------------- MODULE WorkflowLocks ----------------------------
(***************************************************************************)
(* The transactions of one workflow run, statement by statement: the rows  *)
(* each statement locks and in which order, the advisory release lock, and *)
(* what a transaction sees of the others.                                  *)
(*                                                                         *)
(* Isolation is READ COMMITTED: a transaction sees what is committed when  *)
(* a statement starts and its own writes, and only writes rows it has      *)
(* locked.  A statement that locks several rows locks them one by one, in   *)
(* their order.  A transaction that fails is rolled back and may be tried  *)
(* again.                                                                  *)
(*                                                                         *)
(* Steps are named by their ids, which order them; the jobs of steps are   *)
(* ordered by when they were inserted (UUIDv7 ids).  A client is a worker with the job  *)
(* of a step, a caller of complete_external_workflow_step, or one that     *)
(* cancels the run or appends to it.                                       *)
(***************************************************************************)
EXTENDS Integers, Sequences, FiniteSets

CONSTANTS
  Steps,       \* ids of the steps
  External,    \* steps with execution_kind EXTERNAL
  Edges,       \* dependencies, <<prerequisite, dependent>>
  OnSuccess,   \* dependencies with release mode ON_SUCCESS
  Appended,    \* steps of the append request
  Window,      \* its append window step
  Clients,     \* <<"job", s>>, <<"external", s>>, <<"append", 0>>, <<"cancel", 0>>
  MaxTries     \* bound: transactions of a client that are rolled back

ASSUME LocksAssumption ==
  /\ Steps \subseteq Nat /\ IsFiniteSet(Steps)
  /\ External \subseteq Steps /\ Appended \subseteq Steps
  /\ Edges \subseteq Steps \X Steps /\ OnSuccess \subseteq Edges /\ Window \in Steps
  /\ Clients \subseteq ({"job", "external"} \X Steps) \cup ({"append", "cancel"} \X {0})
  /\ MaxTries \in Nat

(* Ids are given by uuidv7() when a step is inserted, so those of an       *)
(* append follow the ones the run began with.                              *)
ASSUME IdsAssumption == \A s \in Steps \ Appended, a \in Appended : s < a

VARIABLES
  step,   \* committed workflow_steps: status, counters, whether job_id is set
  run,    \* committed workflow_runs.status
  jobs,   \* the place of each step's job in the order of the job ids, 0 without one
  tx,     \* the transaction of each client
  tries   \* transactions of each client that were rolled back

vars == <<step, run, jobs, tx, tries>>

Terminal == {"SUCCEEDED", "FAILED", "CANCELED"}
OpenRun == {"RUNNING", "WAITING_FOR_EXTERNAL"}
ClosedRun == {"SUCCEEDED", "COMPLETED_WITH_ERRORS", "CANCELED"}

Least(set) == CHOOSE s \in set : \A o \in set : s <= o
Prereqs(d) == {p \in Steps : <<p, d>> \in Edges}
Dependents(p) == {d \in Steps : <<p, d>> \in Edges}

Row(status, pending, unsatisfied, job) ==
  [status |-> status, pending |-> pending, unsatisfied |-> unsatisfied, job |-> job]

NoRows == [s \in {} |-> Row("ABSENT", 0, 0, FALSE)]

(* No transaction; mine and run are the rows it wrote.                     *)
Idle == [pc |-> "idle", want |-> {}, held |-> {}, mine |-> NoRows, run |-> "same",
         goal |-> "none", queue |-> <<>>, ready |-> {}]

StatusOf(rows) ==
  LET with(set) == \E s \in DOMAIN rows : rows[s].status \in set IN
  IF with({"BLOCKED", "ENQUEUED", "RUNNING"}) THEN "RUNNING"
  ELSE IF with({"WAITING_FOR_EXTERNAL"}) THEN "WAITING_FOR_EXTERNAL"
  ELSE IF with({"FAILED", "CANCELED"}) THEN "COMPLETED_WITH_ERRORS"
  ELSE "SUCCEEDED"

(* The run as enqueue_workflow_run commits it.                             *)
Init ==
  /\ step = [s \in Steps |->
       CASE s \in Appended -> Row("ABSENT", 0, 0, FALSE)
         [] s \notin Appended /\ Prereqs(s) # {} -> Row("BLOCKED", Cardinality(Prereqs(s)), 0, FALSE)
         [] s \notin Appended /\ Prereqs(s) = {} ->
              IF s \in External THEN Row("WAITING_FOR_EXTERNAL", 0, 0, FALSE) ELSE Row("ENQUEUED", 0, 0, TRUE)]
  /\ run = StatusOf(step)
  /\ jobs = LET roots == {s \in Steps \ (Appended \cup External) : Prereqs(s) = {}} IN
            [s \in Steps |-> IF s \in roots THEN Cardinality({o \in roots : o <= s}) ELSE 0]
  /\ tx = [c \in Clients |-> Idle]
  /\ tries = [c \in Clients |-> 0]

-----------------------------------------------------------------------------
(* Locks.                                                                  *)

Exclusive(kind, s) == [row |-> <<kind, s>>, mode |-> "X"]
Shared(kind) == [row |-> <<kind, 0>>, mode |-> "S"]
Each(kind, set) == {Exclusive(kind, s) : s \in set}

Holders(c, l) ==
  {o \in Clients \ {c} : \E h \in tx[o].held : h.row = l.row /\ "X" \in {h.mode, l.mode}}

(* The lock that a statement takes next.                                   *)
Place(l) == IF l.row[1] = "job" THEN jobs[l.row[2]] ELSE l.row[2]
NextLock(c) == CHOOSE l \in tx[c].want : \A o \in tx[c].want : Place(l) <= Place(o)

WaitsFor(c) == IF tx[c].want = {} THEN {} ELSE Holders(c, NextLock(c))

(* Waits lead from c back to c: whatever set holds the clients that c      *)
(* waits for, and with each client the ones that one waits for, holds c.   *)
Circular(c, waits) ==
  /\ waits[c] # {}
  /\ \A S \in SUBSET Clients :
       waits[c] \subseteq S /\ (\A o \in S : waits[o] \subseteq S) => c \in S

InCycle(c) == Circular(c, [o \in Clients |-> WaitsFor(o)])

Lock(c) ==
  /\ tx[c].want # {} /\ WaitsFor(c) = {}
  /\ tx' = [tx EXCEPT ![c].held = @ \cup {NextLock(c)}, ![c].want = @ \ {NextLock(c)}]
  /\ UNCHANGED <<step, run, jobs, tries>>

RolledBack(c) ==
  /\ tx' = [tx EXCEPT ![c] = Idle]
  /\ tries' = [tries EXCEPT ![c] = @ + 1]
  /\ UNCHANGED <<step, run, jobs>>

(* The database rolls back a transaction of a cycle (deadlock_timeout).    *)
Victim(c) == InCycle(c) /\ RolledBack(c)

(* lock_workflow_run_release_shared waits for at most 5 s.                 *)
ReleaseTimeout(c) == tx[c].pc = "release" /\ WaitsFor(c) # {} /\ RolledBack(c)

-----------------------------------------------------------------------------
(* Statements.                                                             *)

View(c) == [s \in Steps |-> IF s \in DOMAIN tx[c].mine THEN tx[c].mine[s] ELSE step[s]]
RunView(c) == IF tx[c].run = "same" THEN run ELSE tx[c].run
Known(c) == {s \in Steps : View(c)[s].status # "ABSENT"}

At(c, pc) == tx[c].pc = pc /\ tx[c].want = {}

(* The transaction goes on at pc, where it first needs the locks want.     *)
GoTo(c, t, pc, want) ==
  /\ tx' = [tx EXCEPT ![c] = [t EXCEPT !.pc = pc, !.want = want]]
  /\ UNCHANGED <<step, run, jobs, tries>>

Write(t, rows) ==
  [t EXCEPT !.mine = [s \in DOMAIN rows \cup DOMAIN @ |-> IF s \in DOMAIN rows THEN rows[s] ELSE @[s]]]
Written(c, s, status) == [r \in {s} |-> [View(c)[r] EXCEPT !.status = status]]

Commit(c) ==
  /\ At(c, "commit")
  /\ step' = View(c)
  /\ run' = RunView(c)
  /\ tx' = [tx EXCEPT ![c] = Idle]
  /\ UNCHANGED <<jobs, tries>>

(* lock_workflow_step_jobs_for_update, lock_workflow_steps_for_update.     *)
JobRows(c) == Each("job", {s \in Steps : View(c)[s].job})
StepRows(c) == Each("step", Known(c))

(* try_lock_workflow_run_release_shared does not wait.                     *)
ReleaseIsFree(c) == Holders(c, Shared("release")) = {}

-----------------------------------------------------------------------------
(* resolve_terminal_step_queue: the steps of the queue are terminal, the   *)
(* steps in ready are dependents whose counters were just updated.         *)

(* load_direct_dependent_updates: the dependencies that exist.             *)
DependentsOf(c, p) == Dependents(p) \cap Known(c)

(* Mutant: dependents are updated without being locked first.              *)
DependentRowsUnlocked(c, p) == {}

(* lock_and_update_direct_dependents locks the dependents in their order.  *)
DependentRows(c, p) == Each("step", DependentsOf(c, p))

(* Mutant: a step without dependents stays in the queue.                   *)
NextPrerequisiteStays(c) ==
  /\ At(c, "cascade") /\ tx[c].ready = {} /\ tx[c].queue # <<>>
  /\ LET p == Head(tx[c].queue) IN
     GoTo(c, [tx[c] EXCEPT !.ready = DependentsOf(c, p)],
          IF DependentsOf(c, p) = {} THEN "cascade" ELSE "dependents", DependentRows(c, p))

NextPrerequisite(c) ==
  /\ At(c, "cascade") /\ tx[c].ready = {} /\ tx[c].queue # <<>>
  /\ LET p == Head(tx[c].queue) IN
     IF DependentsOf(c, p) = {} THEN GoTo(c, [tx[c] EXCEPT !.queue = Tail(@)], "cascade", {})
     ELSE GoTo(c, [tx[c] EXCEPT !.ready = DependentsOf(c, p)], "dependents", DependentRows(c, p))

UpdateDependents(c) ==
  /\ At(c, "dependents")
  /\ LET p == Head(tx[c].queue)
         failed == View(c)[p].status # "SUCCEEDED"
         rows == [d \in tx[c].ready |->
                    [View(c)[d] EXCEPT !.pending = @ - 1,
                                       !.unsatisfied = @ + IF <<p, d>> \in OnSuccess /\ failed THEN 1 ELSE 0]] IN
     GoTo(c, [Write(tx[c], rows) EXCEPT !.queue = Tail(@)], "cascade", {})

(* enqueue_ready_or_canceled_dependent, up to the lock of release_candidate*)
(* _step, and the same for a step that was appended.                       *)
NextDependent(c) ==
  /\ At(c, "cascade") /\ tx[c].ready # {}
  /\ LET d == Least(tx[c].ready)
         row == View(c)[d]
         rest == [tx[c] EXCEPT !.ready = @ \ {d}] IN
     \/ /\ row.pending # 0 \/ row.status # "BLOCKED"
        /\ GoTo(c, rest, "cascade", {})
     \/ /\ row.pending = 0 /\ row.status = "BLOCKED" /\ row.unsatisfied # 0
        /\ GoTo(c, [Write(rest, Written(c, d, "CANCELED")) EXCEPT !.queue = Append(@, d)], "cascade", {})
     \/ /\ row.pending = 0 /\ row.status = "BLOCKED" /\ row.unsatisfied = 0
        /\ ReleaseIsFree(c)
        /\ GoTo(c, [tx[c] EXCEPT !.held = @ \cup {Shared("release")}], "allows", {Shared("run")})
     \/ /\ row.pending = 0 /\ row.status = "BLOCKED" /\ row.unsatisfied = 0
        /\ ~ReleaseIsFree(c)
        /\ RolledBack(c)

(* workflow_run_allows_step_release, under FOR SHARE.                      *)
AllowsRelease(c) == RunView(c) \in OpenRun

(* A new job is the last in the order of the ids; one that was rolled back *)
(* leaves its place.                                                       *)
Inserted(d) ==
  [s \in Steps |->
     IF s = d THEN Cardinality({o \in Steps \ {d} : jobs[o] # 0}) + 1
     ELSE IF jobs[d] # 0 /\ jobs[s] > jobs[d] THEN jobs[s] - 1 ELSE jobs[s]]

(* release_job_step, release_external_step.                                *)
Release(c) ==
  /\ At(c, "allows")
  /\ LET d == Least(tx[c].ready)
         rest == [tx[c] EXCEPT !.ready = @ \ {d}, !.pc = "cascade"]
         row == Row(IF d \in External THEN "WAITING_FOR_EXTERNAL" ELSE "ENQUEUED", 0, 0, d \notin External) IN
     IF AllowsRelease(c)
     THEN /\ tx' = [tx EXCEPT ![c] = Write(rest, [s \in {d} |-> row])]
          /\ jobs' = IF d \in External THEN jobs ELSE Inserted(d)
          /\ UNCHANGED <<step, run, tries>>
     ELSE GoTo(c, rest, "cascade", {})

RecomputeRow == {Exclusive("run", 0)}

CascadeEnds(c) ==
  /\ At(c, "cascade") /\ tx[c].ready = {} /\ tx[c].queue = <<>>
  /\ GoTo(c, tx[c], "recompute", RecomputeRow)

(* recompute_workflow_run_status.                                          *)
Recompute(c) ==
  /\ At(c, "recompute")
  /\ GoTo(c, [tx[c] EXCEPT !.run = IF RunView(c) = "CANCELED" THEN @ ELSE StatusOf(View(c))], "commit", {})

Resolve(c) ==
  NextPrerequisite(c) \/ UpdateDependents(c) \/ NextDependent(c) \/ Release(c) \/ CascadeEnds(c) \/ Recompute(c)

-----------------------------------------------------------------------------
(* The transactions.                                                       *)

Begin(c, goal, pc, want) ==
  /\ tx[c] = Idle /\ tries[c] < MaxTries
  /\ GoTo(c, [Idle EXCEPT !.goal = goal], pc, want)

(* A worker claims the job, SKIP LOCKED, or ends its attempt; every path   *)
(* has the job row first and then the step row.                            *)
BeginJob(c, s) ==
  \/ /\ step[s].status = "ENQUEUED" /\ Holders(c, Exclusive("job", s)) = {}
     /\ Begin(c, "CLAIM", "job", {Exclusive("job", s)})
  \/ /\ step[s].status = "RUNNING"
     /\ \E goal \in {"SUCCEEDED", "FAILED", "RETRY"} : Begin(c, goal, "job", {Exclusive("job", s)})

(* The lease is checked under the lock of the job row.                     *)
JobLocked(c, s) ==
  /\ At(c, "job")
  /\ IF step[s].status = (IF tx[c].goal = "CLAIM" THEN "ENQUEUED" ELSE "RUNNING")
     THEN GoTo(c, tx[c], "step", {Exclusive("step", s)})
     ELSE GoTo(c, tx[c], "commit", {})

(* mark_workflow_step_running_for_claim, ..._enqueued_for_retry, and       *)
(* process_linked_workflow_step_terminal_by_job_id.                        *)
StepLocked(c, s) ==
  /\ At(c, "step")
  /\ LET goal == tx[c].goal
         status == View(c)[s].status IN
     \/ /\ goal = "CLAIM" /\ status \in {"ENQUEUED", "RUNNING"}
        /\ GoTo(c, Write(tx[c], Written(c, s, "RUNNING")), "commit", {})
     \/ /\ goal = "RETRY" /\ status = "RUNNING"
        /\ GoTo(c, Write(tx[c], Written(c, s, "ENQUEUED")), "commit", {})
     \/ /\ goal \in Terminal /\ status \notin Terminal
        /\ GoTo(c, Write(tx[c], Written(c, s, goal)), "release", {Shared("release")})
     \/ /\ \/ goal = "CLAIM" /\ status \notin {"ENQUEUED", "RUNNING"}
           \/ goal = "RETRY" /\ status # "RUNNING"
           \/ goal \in Terminal /\ status \in Terminal
        /\ GoTo(c, tx[c], "commit", {})

ReleaseLocked(c, s) ==
  /\ At(c, "release")
  /\ GoTo(c, [tx[c] EXCEPT !.queue = <<s>>], "cascade", {})

JobClient(c, s) == BeginJob(c, s) \/ JobLocked(c, s) \/ StepLocked(c, s) \/ ReleaseLocked(c, s) \/ ReleaseTimeout(c)

(* complete_external_workflow_step locks every step of the run first, and  *)
(* then the step and, by the same FOR UPDATE, the run.                     *)
BeginExternal(c, s) ==
  \E goal \in {"SUCCEEDED", "FAILED"} : Begin(c, goal, "steps", StepRows(c))

ExternalStepsLocked(c, s) ==
  /\ At(c, "steps")
  /\ IF s \in Known(c) THEN GoTo(c, tx[c], "external_step", {Exclusive("step", s)})
                       ELSE GoTo(c, tx[c], "commit", {})

ExternalStepLocked(c, s) ==
  /\ At(c, "external_step")
  /\ GoTo(c, tx[c], "external", {Exclusive("run", 0)})

ExternalLocked(c, s) ==
  /\ At(c, "external")
  /\ \/ /\ View(c)[s].status # "WAITING_FOR_EXTERNAL"
        /\ GoTo(c, tx[c], "commit", {})
     \/ /\ View(c)[s].status = "WAITING_FOR_EXTERNAL" /\ ReleaseIsFree(c)
        /\ GoTo(c, [Write(tx[c], Written(c, s, tx[c].goal))
                      EXCEPT !.queue = <<s>>, !.held = @ \cup {Shared("release")}], "cascade", {})
     \/ /\ View(c)[s].status = "WAITING_FOR_EXTERNAL" /\ ~ReleaseIsFree(c)
        /\ RolledBack(c)

ExternalClient(c, s) ==
  BeginExternal(c, s) \/ ExternalStepsLocked(c, s) \/ ExternalStepLocked(c, s) \/ ExternalLocked(c, s)

(* append_workflow_steps.                                                  *)
BeginAppend(c) == Begin(c, "APPEND", "steps", StepRows(c))

AppendStepsLocked(c) ==
  /\ At(c, "steps")
  /\ GoTo(c, tx[c], "append", {Exclusive("run", 0)})

(* initial_dependency_counters from the steps that were locked.            *)
InsertedRow(c, d) ==
  LET ended == {p \in Prereqs(d) \ Appended : View(c)[p].status \in Terminal} IN
  Row("BLOCKED", Cardinality(Prereqs(d) \ ended),
      Cardinality({p \in ended : <<p, d>> \in OnSuccess /\ View(c)[p].status # "SUCCEEDED"}), FALSE)

AlreadyApplied(c) == \E s \in Appended : View(c)[s].status # "ABSENT"

(* load_existing_mutation_request, ensure_append_window_is_open and the    *)
(* status of the run.                                                      *)
AppendRefused(c) ==
  \/ AlreadyApplied(c)
  \/ View(c)[Window].status # "WAITING_FOR_EXTERNAL"
  \/ RunView(c) \in ClosedRun

AppendRunLocked(c) ==
  /\ At(c, "append")
  /\ LET rows == [d \in Appended |-> InsertedRow(c, d)] IN
     \/ AppendRefused(c) /\ GoTo(c, tx[c], "commit", {})
     \/ /\ ~AppendRefused(c) /\ ReleaseIsFree(c)
        /\ GoTo(c, [Write(tx[c], rows) EXCEPT
                      !.held = @ \cup {Shared("release")} \cup {Exclusive("step", d) : d \in Appended},
                      !.ready = {d \in Appended : rows[d].pending = 0}], "cascade", {})
     \/ ~AppendRefused(c) /\ ~ReleaseIsFree(c) /\ RolledBack(c)

AppendClient(c) == BeginAppend(c) \/ AppendStepsLocked(c) \/ AppendRunLocked(c)

(* Mutant: cancellation takes the step rows before the job rows.           *)
CancelOrderStepsFirst(pc) ==
  CASE pc = "begin" -> "cancel_steps" [] pc = "cancel_steps" -> "cancel_jobs" [] pc = "cancel_jobs" -> "cancel_release"
    [] pc = "cancel_release" -> "cancel_jobs_again" [] pc = "cancel_jobs_again" -> "cancel_run" [] OTHER -> "sweep"

(* acquire_cancel_workflow_lock_phase.                                     *)
CancelOrder(pc) ==
  CASE pc = "begin" -> "cancel_jobs" [] pc = "cancel_jobs" -> "cancel_release" [] pc = "cancel_release" -> "cancel_jobs_again"
    [] pc = "cancel_jobs_again" -> "cancel_steps" [] pc = "cancel_steps" -> "cancel_run" [] OTHER -> "sweep"

CancelRows(c, pc) ==
  CASE pc \in {"cancel_jobs", "cancel_jobs_again"} -> JobRows(c)
    [] pc = "cancel_release" -> {Exclusive("release", 0)}
    [] pc = "cancel_steps" -> StepRows(c)
    [] pc = "cancel_run" -> {Exclusive("run", 0)}
    [] OTHER -> {}

BeginCancel(c) == Begin(c, "CANCEL", CancelOrder("begin"), CancelRows(c, CancelOrder("begin")))

CancelLocked(c) ==
  /\ tx[c].pc \in {"cancel_jobs", "cancel_release", "cancel_jobs_again", "cancel_steps", "cancel_run"}
  /\ At(c, tx[c].pc)
  /\ LET next == CancelOrder(tx[c].pc) IN GoTo(c, tx[c], next, CancelRows(c, next))

(* Mutant: the sweep takes the steps that failed as well.                  *)
SweepFailedToo(c) ==
  /\ At(c, "sweep")
  /\ IF RunView(c) \in ClosedRun THEN GoTo(c, tx[c], "commit", {})
     ELSE LET swept == {s \in Known(c) : View(c)[s].status \notin Terminal}
              rows == [s \in Known(c) |-> LET old == View(c)[s] IN
                [old EXCEPT !.status = IF @ # "SUCCEEDED" THEN "CANCELED" ELSE @,
                            !.pending = @ - Cardinality(Prereqs(s) \cap swept),
                            !.unsatisfied = @ + Cardinality({p \in Prereqs(s) \cap swept : <<p, s>> \in OnSuccess})]]
          IN GoTo(c, [Write(tx[c], rows) EXCEPT !.run = "CANCELED"], "commit", {})

(* WorkflowCancellationSweep: the run first, then every step that is not   *)
(* terminal and, with it, the counters of its dependents.                  *)
Sweep(c) ==
  /\ At(c, "sweep")
  /\ IF RunView(c) \in ClosedRun THEN GoTo(c, tx[c], "commit", {})
     ELSE LET swept == {s \in Known(c) : View(c)[s].status \notin Terminal}
              rows == [s \in Known(c) |-> LET old == View(c)[s] IN
                [old EXCEPT !.status = IF s \in swept THEN "CANCELED" ELSE @,
                            !.pending = @ - Cardinality(Prereqs(s) \cap swept),
                            !.unsatisfied = @ + Cardinality({p \in Prereqs(s) \cap swept : <<p, s>> \in OnSuccess})]]
          IN GoTo(c, [Write(tx[c], rows) EXCEPT !.run = "CANCELED"], "commit", {})

CancelClient(c) == BeginCancel(c) \/ CancelLocked(c) \/ Sweep(c)

Step(c) ==
  \/ Lock(c) \/ Victim(c) \/ Resolve(c) \/ Commit(c)
  \/ c[1] = "job" /\ JobClient(c, c[2])
  \/ c[1] = "external" /\ ExternalClient(c, c[2])
  \/ c[1] = "append" /\ AppendClient(c)
  \/ c[1] = "cancel" /\ CancelClient(c)

Next == \E c \in Clients : Step(c)

Spec == Init /\ [][Next]_vars

(* A statement of a transaction that was begun is executed, and a wait     *)
(* that is in a deadlock or has a timeout ends.  The database grants a     *)
(* lock in the order it was asked for, so nobody waits for it for ever     *)
(* while others come and go.                                               *)
FairSpec ==
  /\ Spec
  /\ \A c \in Clients : WF_vars(tx[c] # Idle /\ Step(c)) /\ SF_vars(Lock(c))

-----------------------------------------------------------------------------
(* Properties.                                                             *)

(* The counters of a step agree with the committed steps it depends on, so *)
(* that no completion is lost or counted twice, however the statements of  *)
(* two completions, an append and a cancellation interleave.               *)
CountersAgree ==
  \A d \in {s \in Steps : step[s].status # "ABSENT"} :
    /\ step[d].pending = Cardinality({p \in Prereqs(d) : step[p].status \notin Terminal})
    /\ step[d].unsatisfied =
         Cardinality({p \in Prereqs(d) : <<p, d>> \in OnSuccess /\ step[p].status \in {"FAILED", "CANCELED"}})

(* No step is stranded: one without open prerequisites is not BLOCKED, and *)
(* the run has the status its steps give it, as soon as the transaction    *)
(* that ended the last prerequisite is committed.                          *)
NothingStranded ==
  run # "CANCELED" =>
    /\ \A d \in Steps : step[d].status = "BLOCKED" => step[d].pending > 0
    /\ run = StatusOf(step)

(* A canceled run stays quiet: no step of it is left to be done, whatever  *)
(* was being completed or appended when it was canceled.                   *)
CanceledRunIsQuiet ==
  run = "CANCELED" => \A s \in Steps : step[s].status \in Terminal \cup {"ABSENT"}

(* Of completions, an append, external completions and a cancellation of   *)
(* one run, however their statements interleave, none is lost or counted   *)
(* twice, nothing is left BLOCKED behind ended steps, and a canceled run   *)
(* has nothing left to do.                                                 *)
NoEndIsLost == CountersAgree /\ NothingStranded /\ CanceledRunIsQuiet

Atomic == INSTANCE AtomicRun WITH status <- [s \in Steps |-> step[s].status]

(* Every transaction happens at once, at its commit: whatever statements   *)
(* of others ran between its own, it has started, given back or ended one  *)
(* step, appended or canceled, with exactly the releases and cancellations *)
(* that follow from the steps as they are then, and the status of the run. *)
CommitsAreAtomic == Atomic!AtomicSpec

(* Waits other than those of at most 5 s for the release lock.             *)
UnboundedWaits == [o \in Clients |-> IF tx[o].pc = "release" THEN {} ELSE WaitsFor(o)]

(* A circle of waits that a cancellation is part of has a completion in it *)
(* that waits for at most 5 s for the release lock: "this bounded wait     *)
(* turns it into workflow.release_conflict instead of an unbounded         *)
(* deadlock" (terminal.rs).                                                *)
CancelWaitsAreBounded == \A c \in Clients : c[1] = "cancel" => ~Circular(c, UnboundedWaits)

(* Every transaction ends: waits end, the cascade comes to its end.        *)
EveryTransactionEnds == \A c \in Clients : tx[c] # Idle ~> tx[c] = Idle

Completing(c) == c[1] = "job" /\ tx[c].goal \in {"SUCCEEDED", "FAILED"}

(* What a test asserts: "concurrent terminal completions must not          *)
(* deadlock".                                                              *)
CompletionsDoNotDeadlock ==
  ~\E c \in Clients : InCycle(c) /\ \A o \in Clients : InCycle(o) => Completing(o)
=============================================================================
