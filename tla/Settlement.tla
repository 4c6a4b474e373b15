----------------------------- MODULE Settlement -----------------------------
(***************************************************************************)
(* The supervisor's shutdown: the stop request and its clock, the startup  *)
(* watch, the runtime loops, the descendants they spawn, the stop signal   *)
(* task, and the settlement owner that joins them within its budget and    *)
(* writes the report from which the application learns whether it may      *)
(* release what the runtime was using.                                     *)
(*                                                                         *)
(* Tasks run beside the owner: each action is one step of one of them      *)
(* between two synchronisation points.  A task may also never end.         *)
(***************************************************************************)
EXTENDS Naturals, FiniteSets

CONSTANTS
  Loops,          \* enabled runtime loops
  Children,       \* descendants that loops and descendants may spawn
  Signal,         \* the stop signal task
  SignalKinds,    \* a subset of {"none", "runtime", "application"}
  Graceful,       \* graceful allowance
  Abort,          \* abort allowance
  MaxTime,        \* bound: the clock
  None            \* no request, no report, no task

ASSUME SettlementAssumption ==
  /\ Graceful \in Nat /\ Abort \in Nat /\ MaxTime \in Nat \ {0}
  /\ SignalKinds \subseteq {"none", "runtime", "application"}
  /\ Signal \notin Children /\ None \notin Loops \cup Children \cup {Signal}
  /\ None \notin [at : Nat,
                   cause : [kind : {"Requested", "LoopFailure", "DescendantFailure", "SignalFailed"},
                            task : Loops \cup Children \cup {Signal, None}]]

VARIABLES
  now,            \* tokio's clock
  budget,         \* whether the deadlines of the budget can be represented
  kind,           \* which stop signal the supervisor runs
  request,        \* first cause and earliest start of the stop, or None
  unpublished,    \* a request whose publication is still to come
  published,      \* the watch that loops and the signal task look at
  dirty,          \* the watch has changed since the owner last looked
  startup,        \* the startup watch
  loop,           \* the loop tasks
  desc,           \* the descendants, the signal task included
  joined,         \* loops whose join the owner has recorded
  collected,      \* descendants removed from the registry
  recorded,       \* descendants with a record
  mode,           \* abort_mode of the registry
  prior,          \* a callback was interrupted before the stop
  callbacks,      \* a callback was interrupted during the stop
  sig,            \* what the signal task has published
  owner,          \* the settlement owner
  report          \* the delivered report, or None

signal_vars == <<request, unpublished, published, sig>>
task_vars == <<loop, desc>>
registry_vars == <<collected, recorded, mode, prior, callbacks>>
owner_vars == <<joined, owner, report>>
svars == <<now, budget, kind, request, unpublished, published, dirty, startup, loop, desc, joined,
          collected, recorded, mode, prior, callbacks, sig, owner, report>>

Descendants == Children \cup {Signal}

NewTask == [st |-> "running", result |-> "none", aborted |-> FALSE]

(* Initialization::new: with no loop enabled there is nothing to wait for. *)
StartupInit == [state |-> IF Loops = {} THEN "Initialized" ELSE "Starting", pending |-> Loops]

(* RuntimeShutdownDriver::start: the signal is registered before its poll. *)
DescInit(k) ==
  [d \in Descendants |-> IF d = Signal /\ k # "none" THEN NewTask ELSE [NewTask EXCEPT !.st = "unborn"]]

SettlementInit ==
  /\ now = 1 /\ budget \in BOOLEAN /\ kind \in SignalKinds
  /\ request = None /\ unpublished = FALSE /\ published = FALSE /\ dirty = FALSE
  /\ startup = StartupInit
  /\ loop = [l \in Loops |-> NewTask]
  /\ desc = DescInit(kind)
  /\ joined = {} /\ collected = {} /\ recorded = {}
  /\ mode = "None" /\ prior = FALSE /\ callbacks = FALSE
  /\ sig = [error |-> FALSE, panic |-> "none", initiating |-> FALSE]
  /\ owner = [pc |-> "observe", phase |-> "none", graceful |-> FALSE, timer |-> 0]
  /\ report = None

-----------------------------------------------------------------------------
(* ShutdownSignal.                                                         *)

(* Mutant: the latest request sets the clock.                              *)
RequestedLatest(started, cause) ==
  LET s == IF started < now THEN started ELSE now IN
  IF request = None THEN [at |-> s, cause |-> cause] ELSE [request EXCEPT !.at = s]

(* request_since: the first cause stays, the earliest start wins.          *)
Requested(started, cause) ==
  LET s == IF started < now THEN started ELSE now IN
  IF request = None THEN [at |-> s, cause |-> cause]
  ELSE [request EXCEPT !.at = IF s < @ THEN s ELSE @]

Cause(k, t) == [kind |-> k, task |-> t]

(* ShutdownHandle: the application asks, with the start of its own stop.   *)
RequestShutdown(started) ==
  /\ report = None
  /\ request' = Requested(started, Cause("Requested", None))
  /\ request' # request
  /\ unpublished' = TRUE
  /\ UNCHANGED <<now, budget, kind, published, dirty, startup, sig>>
  /\ UNCHANGED <<task_vars, registry_vars, owner_vars>>

(* publish_request: the startup watch stops, then every receiver wakes.    *)
Publish ==
  /\ unpublished
  /\ unpublished' = FALSE /\ published' = TRUE /\ dirty' = TRUE
  /\ startup' = [startup EXCEPT !.state = "Stopped"]
  /\ UNCHANGED <<now, budget, kind, request, sig>>
  /\ UNCHANGED <<task_vars, registry_vars, owner_vars>>

-----------------------------------------------------------------------------
(* Loops.                                                                  *)

(* LoopStartup::acknowledge, serialised with stop on the watch.            *)
Acknowledged(l) ==
  LET left == startup.pending \ {l} IN
  IF startup.state # "Starting" THEN startup
  ELSE [state |-> IF left = {} THEN "Initialized" ELSE "Starting", pending |-> left]

LoopStarts(l) ==
  /\ loop[l].st = "running" /\ l \in startup.pending
  /\ startup' = Acknowledged(l)
  /\ startup' # startup
  /\ UNCHANGED <<now, budget, kind, request, unpublished, published, dirty, sig>>
  /\ UNCHANGED <<task_vars, registry_vars, owner_vars>>

(* A loop returns, panics or is dropped by its abort; its startup token is *)
(* dropped with it.                                                        *)
LoopEnds(l, result) ==
  /\ loop[l].st = "running"
  /\ result = "Shutdown" => published
  /\ result = "Cancelled" => loop[l].aborted
  /\ loop' = [loop EXCEPT ![l].st = "done", ![l].result = result]
  /\ startup' = [startup EXCEPT !.state = "Stopped"]
  /\ UNCHANGED <<now, budget, kind, request, unpublished, published, dirty, sig, desc>>
  /\ UNCHANGED <<registry_vars, owner_vars>>

-----------------------------------------------------------------------------
(* Descendants: TaskRegistry::spawn_on and the tasks' own ends.            *)

(* A parent that runs: a loop, or a descendant that is not the signal.     *)
Spawning ==
  \/ \E l \in Loops : loop[l].st = "running"
  \/ \E c \in Children : desc[c].st = "running"

(* EntryKind::should_abort.                                                *)
ShouldAbort(d, m) ==
  \/ m = "All"
  \/ m = "AfterGracefulTimeout" /\ ~(d = Signal /\ sig.initiating)

(* Registered before its first poll, and never polled once aborts began.   *)
Spawn(c) ==
  /\ Spawning
  /\ desc[c].st = "unborn"
  /\ desc' = [desc EXCEPT ![c].st = "running", ![c].aborted = ShouldAbort(c, mode)]
  /\ UNCHANGED <<now, budget, kind, request, unpublished, published, dirty, startup, sig, loop>>
  /\ UNCHANGED <<registry_vars, owner_vars>>

DescendantEnds(c, result) ==
  /\ desc[c].st = "running"
  /\ result = "Cancelled" => desc[c].aborted
  /\ desc' = [desc EXCEPT ![c].st = "done", ![c].result = result]
  /\ UNCHANGED <<now, budget, kind, request, unpublished, published, dirty, startup, sig, loop>>
  /\ UNCHANGED <<registry_vars, owner_vars>>

(* SharedJoin::abort: an owner of a best-effort task gives it up.          *)
AbortDescendant(c) ==
  /\ Spawning
  /\ desc[c].st = "running" /\ ~desc[c].aborted
  /\ desc' = [desc EXCEPT ![c].aborted = TRUE]
  /\ UNCHANGED <<now, budget, kind, request, unpublished, published, dirty, startup, sig, loop>>
  /\ UNCHANGED <<registry_vars, owner_vars>>

(* record_callback: a hook or observer timed out or panicked.              *)
CallbackFails ==
  /\ Spawning
  /\ IF request # None THEN callbacks' = TRUE /\ UNCHANGED prior
                       ELSE prior' = TRUE /\ UNCHANGED callbacks
  /\ UNCHANGED <<now, budget, kind, signal_vars, dirty, startup, collected, recorded, mode>>
  /\ UNCHANGED <<task_vars, owner_vars>>

-----------------------------------------------------------------------------
(* The stop signal task.                                                   *)

(* request_after_signal_trigger: evidence, first cause and the identity of *)
(* the initiating task in one critical section.                            *)
SignalTriggers(outcome) ==
  /\ desc[Signal].st = "running" /\ ~desc[Signal].aborted
  /\ sig' = [error |-> outcome = "error",
             panic |-> IF outcome = "panic" THEN "poll" ELSE "none",
             initiating |-> request = None]
  /\ request' = IF request # None THEN request
       ELSE [at |-> now, cause |-> CASE outcome = "ok" -> Cause("Requested", None)
                                     [] outcome = "error" -> Cause("SignalFailed", None)
                                     [] outcome = "panic" -> Cause("DescendantFailure", Signal)]
  /\ unpublished' = TRUE
  /\ desc' = [desc EXCEPT ![Signal].st = "dropping",
                          ![Signal].result = IF outcome = "panic" THEN "Panic" ELSE "Ok"]
  /\ UNCHANGED <<now, budget, kind, published, dirty, startup, loop>>
  /\ UNCHANGED <<registry_vars, owner_vars>>

(* The select sees the stop, or the abort drops the task.                  *)
SignalStops(result) ==
  /\ desc[Signal].st = "running"
  /\ result = "Ok" => published
  /\ result = "Cancelled" => desc[Signal].aborted
  /\ desc' = [desc EXCEPT ![Signal].st = "dropping", ![Signal].result = result]
  /\ UNCHANGED <<now, budget, kind, signal_vars, dirty, startup, loop>>
  /\ UNCHANGED <<registry_vars, owner_vars>>

(* The application's future is destroyed, apart from its poll.             *)
SignalDestroyed(panics) ==
  /\ desc[Signal].st = "dropping"
  /\ sig' = [sig EXCEPT !.panic = IF ~panics THEN @
       ELSE IF @ = "poll" THEN "poll_and_destruction" ELSE "destruction"]
  /\ desc' = [desc EXCEPT ![Signal].st = "done",
                          ![Signal].result = IF panics THEN "Panic" ELSE @]
  /\ UNCHANGED <<now, budget, kind, request, unpublished, published, dirty, startup, loop>>
  /\ UNCHANGED <<registry_vars, owner_vars>>

-----------------------------------------------------------------------------
(* Collection of joins.                                                    *)

InRegistry == {d \in Descendants : desc[d].st # "unborn" /\ d \notin collected}
FinishedDescendants == {d \in InRegistry : desc[d].st = "done"}
FinishedLoops == {l \in Loops \ joined : loop[l].st = "done"}

(* A cancellation that the owner asked of its own signal task.             *)
OwnerCancelled(d) ==
  d = Signal /\ kind = "runtime" /\ desc[d].aborted /\ desc[d].result = "Cancelled"

Failed(d) == desc[d].result # "Ok"
LoopFailed(l) == loop[l].result # "Shutdown"

(* CancellationPolicy::classify: which join asks for a stop.               *)
RequestsShutdown(d) ==
  \/ desc[d].result = "Panic"
  \/ Failed(d) /\ ~desc[d].aborted /\ ~(d = Signal /\ kind = "runtime")

(* Mutant: a task that its owner aborted before the stop leaves no trace.  *)
PriorForgotten(d) == prior

(* Routine aborts before the stop are counted, not recorded.               *)
PriorWith(d) == prior \/ (request' = None /\ desc[d].aborted /\ Failed(d))

(* poll_empty for one join; whoever polls a shared join collects.          *)
CollectDescendant(d) ==
  /\ d \in FinishedDescendants /\ report = None
  /\ collected' = collected \cup {d}
  /\ request' = IF RequestsShutdown(d) THEN Requested(now, Cause("DescendantFailure", d)) ELSE request
  /\ unpublished' = (unpublished \/ RequestsShutdown(d))
  /\ prior' = PriorWith(d)
  /\ recorded' = IF request' # None \/ (Failed(d) /\ ~desc[d].aborted)
                 THEN recorded \cup {d} ELSE recorded
  /\ UNCHANGED <<now, budget, kind, published, dirty, startup, sig, mode, callbacks>>
  /\ UNCHANGED <<task_vars, owner_vars>>

(* record_result: a loop that did not end by the stop requests it.         *)
CollectLoop(l) ==
  /\ l \in FinishedLoops
  /\ owner.pc \in {"observe", "settle", "final", "harvest"}
  /\ joined' = joined \cup {l}
  /\ request' = IF LoopFailed(l) THEN Requested(now, Cause("LoopFailure", l)) ELSE request
  /\ unpublished' = (unpublished \/ LoopFailed(l))
  /\ UNCHANGED <<now, budget, kind, published, dirty, startup, sig, owner, report>>
  /\ UNCHANGED <<task_vars, registry_vars>>

-----------------------------------------------------------------------------
(* run_report_inner and settle_until.                                      *)

OwnerOnly ==
  /\ UNCHANGED <<now, budget, kind, signal_vars, startup, joined, report>>
  /\ UNCHANGED <<task_vars, registry_vars>>

OwnerGoto(pc) == owner' = [owner EXCEPT !.pc = pc]
OwnerWakes(pc) == owner' = [owner EXCEPT !.pc = pc, !.timer = 0]

(* The stop is seen in the state; its clock decides the deadlines.         *)
OwnerSeesStop ==
  /\ owner.pc = "observe" /\ request # None
  /\ owner' = [owner EXCEPT !.pc = "settle", !.phase = "graceful"]
  /\ UNCHANGED dirty /\ OwnerOnly

Allowance ==
  CASE ~budget -> 0
    [] budget /\ owner.phase = "graceful" -> Graceful
    [] OTHER -> Graceful + Abort

PhaseEnds(settled) ==
  owner' = IF owner.phase = "graceful" /\ ~settled THEN [owner EXCEPT !.pc = "abort"]
           ELSE [owner EXCEPT !.pc = "harvest", !.graceful = owner.phase = "graceful"]

(* pending.is_empty(): loops that are joined spawn nothing any more.       *)
SettleLoops ==
  /\ owner.pc = "settle"
  /\ OwnerGoto(IF joined = Loops THEN "settle_registry" ELSE "subscribe")
  /\ UNCHANGED dirty /\ OwnerOnly

(* descendants.is_empty().                                                 *)
SettleRegistry ==
  /\ owner.pc = "settle_registry"
  /\ FinishedDescendants = {}
  /\ IF InRegistry = {} THEN PhaseEnds(TRUE) ELSE OwnerGoto("subscribe")
  /\ UNCHANGED dirty /\ OwnerOnly

(* phase_elapsed: mark the watch as seen, then read the clock.             *)
PhaseSubscribes ==
  /\ owner.pc = "subscribe"
  /\ dirty' = FALSE
  /\ OwnerGoto("read")
  /\ OwnerOnly

PhaseReads ==
  /\ owner.pc = "read"
  /\ owner' = [owner EXCEPT !.pc = "wait", !.timer = request.at + Allowance]
  /\ UNCHANGED dirty /\ OwnerOnly

(* The biased select: the deadline, a change of the watch, a join.         *)
PhaseWakes ==
  /\ owner.pc = "wait"
  /\ \/ now >= owner.timer /\ OwnerWakes("final")
     \/ now < owner.timer /\ dirty /\ OwnerWakes("subscribe")
     \/ /\ now < owner.timer
        /\ FinishedLoops # {} \/ (joined = Loops /\ InRegistry = FinishedDescendants)
        /\ OwnerWakes("settle")
  /\ UNCHANGED dirty /\ OwnerOnly

(* Mutant: the boundary waits for the loops that are not joined.           *)
BoundaryWaits ==
  /\ owner.pc = "final" /\ joined = Loops
  /\ OwnerGoto("final_registry")
  /\ UNCHANGED dirty /\ OwnerOnly

(* The boundary of a phase: every finished join is collected first.        *)
PhaseElapsedLoops ==
  /\ owner.pc = "final" /\ FinishedLoops = {}
  /\ OwnerGoto("final_registry")
  /\ UNCHANGED dirty /\ OwnerOnly

PhaseElapsedRegistry ==
  /\ owner.pc = "final_registry" /\ FinishedDescendants = {}
  /\ PhaseEnds(joined = Loops /\ InRegistry = {})
  /\ UNCHANGED dirty /\ OwnerOnly

(* TaskRegistry::abort: later spawns are aborted too.                      *)
AbortedDescendants(m) ==
  [d \in Descendants |->
     IF d \in InRegistry /\ desc[d].st # "done" /\ ShouldAbort(d, m)
     THEN [desc[d] EXCEPT !.aborted = TRUE] ELSE desc[d]]

AbortDescendants ==
  /\ owner.pc = "abort" /\ FinishedDescendants = {}
  /\ mode' = "AfterGracefulTimeout"
  /\ desc' = AbortedDescendants(mode')
  /\ OwnerGoto("abort_loops")
  /\ UNCHANGED <<now, budget, kind, signal_vars, dirty, startup, loop, joined, report,
                 collected, recorded, prior, callbacks>>

AbortedLoops ==
  [l \in Loops |-> IF l \notin joined /\ loop[l].st = "running"
                   THEN [loop[l] EXCEPT !.aborted = TRUE] ELSE loop[l]]

AbortLoops ==
  /\ owner.pc = "abort_loops"
  /\ loop' = AbortedLoops
  /\ owner' = [owner EXCEPT !.pc = "settle", !.phase = "abort"]
  /\ UNCHANGED <<now, budget, kind, signal_vars, dirty, startup, desc, joined, report,
                 registry_vars>>

Harvest ==
  /\ owner.pc = "harvest" /\ FinishedLoops = {}
  /\ OwnerGoto("snapshot")
  /\ UNCHANGED dirty /\ OwnerOnly

-----------------------------------------------------------------------------
(* RuntimeShutdownReport.                                                  *)

LoopRecord(l) == [result |-> loop[l].result, aborted |-> loop[l].aborted]
TaskRecord(d) == [result |-> desc[d].result, aborted |-> desc[d].aborted,
                  error |-> Failed(d) /\ ~OwnerCancelled(d)]

(* The unjoined tasks decide between the two timeouts.                     *)
SettlementOf(graceful, unjoined) ==
  CASE graceful -> "Settled"
    [] ~graceful /\ unjoined = {} -> "GracefulTimeout"
    [] OTHER -> "AbortTimeout"

Report(settlement, unjoined) ==
  [cause |-> request.cause, settlement |-> settlement, unjoined |-> unjoined,
   loops |-> [l \in joined |-> LoopRecord(l)], descendants |-> [d \in recorded |-> TaskRecord(d)],
   deadline_error |-> owner.phase # "none" /\ ~budget, signal_error |-> sig.error,
   signal_panic |-> sig.panic, callbacks |-> callbacks, prior |-> prior]

Deliver ==
  /\ owner.pc = "snapshot" /\ FinishedDescendants = {}
  /\ LET unjoined == InRegistry \cup (Loops \ joined) IN
     report' = Report(SettlementOf(owner.graceful, unjoined), unjoined)
  /\ OwnerGoto("done")
  /\ UNCHANGED <<now, budget, kind, signal_vars, dirty, startup, joined>>
  /\ UNCHANGED <<task_vars, registry_vars>>

(* Drop for SettlementOwner: the owner's future is dropped or panics.      *)
OwnerInterrupted ==
  /\ owner.pc # "done" /\ FinishedDescendants = {}
  /\ request # None
  /\ mode' = "All"
  /\ desc' = AbortedDescendants(mode')
  /\ loop' = AbortedLoops
  /\ report' = Report("Interrupted", InRegistry \cup (Loops \ joined))
  /\ OwnerWakes("done")
  /\ UNCHANGED <<now, budget, kind, signal_vars, dirty, startup, joined>>
  /\ UNCHANGED <<collected, recorded, prior, callbacks>>

(* An owner that never saw a stop requests it as it is dropped.            *)
OwnerDropped ==
  /\ owner.pc # "done" /\ request = None
  /\ request' = Requested(now, Cause("Requested", None))
  /\ unpublished' = TRUE
  /\ UNCHANGED <<now, budget, kind, published, dirty, startup, sig>>
  /\ UNCHANGED <<task_vars, registry_vars, owner_vars>>

-----------------------------------------------------------------------------
Tick ==
  /\ now < MaxTime /\ report = None
  /\ now' = now + 1
  /\ UNCHANGED <<budget, kind, signal_vars, dirty, startup>>
  /\ UNCHANGED <<task_vars, registry_vars, owner_vars>>

TaskStep ==
  \/ \E l \in Loops : LoopStarts(l)
  \/ \E l \in Loops : \E r \in {"Shutdown", "Returned", "Panic", "Cancelled"} :
       LoopEnds(l, r)
  \/ \E c \in Children : Spawn(c)
  \/ \E c \in Children : \E r \in {"Ok", "Panic", "Cancelled"} : DescendantEnds(c, r)
  \/ \E c \in Children : AbortDescendant(c)
  \/ CallbackFails

SignalStep ==
  \/ \E o \in {"ok", "error", "panic"} : SignalTriggers(o)
  \/ \E r \in {"Ok", "Cancelled"} : SignalStops(r)
  \/ \E p \in BOOLEAN : SignalDestroyed(p)

OwnerStep ==
  \/ \E l \in Loops : CollectLoop(l)
  \/ \E d \in Descendants : CollectDescendant(d)
  \/ OwnerSeesStop
  \/ SettleLoops \/ SettleRegistry
  \/ PhaseSubscribes \/ PhaseReads \/ PhaseWakes
  \/ PhaseElapsedLoops \/ PhaseElapsedRegistry
  \/ AbortDescendants \/ AbortLoops
  \/ Harvest \/ Deliver

(* The owner has delivered its report and is gone.                         *)
SettlementTerminated == report # None /\ UNCHANGED svars

SettlementNext ==
  \/ \E started \in 0..(now + 1) : RequestShutdown(started)
  \/ Publish
  \/ TaskStep
  \/ SignalStep
  \/ OwnerStep
  \/ OwnerInterrupted
  \/ OwnerDropped
  \/ Tick
  \/ SettlementTerminated

SettlementSpec == SettlementInit /\ [][SettlementNext]_svars

(* The owner's task and the clock are never held up; the tasks may be.     *)
SettlementFairSpec ==
  SettlementSpec /\ WF_svars(OwnerStep) /\ WF_svars(Publish) /\ WF_svars(Tick)

-----------------------------------------------------------------------------
(* Classification of a report.                                             *)

(* permits_dependency_cleanup.                                             *)
PermitsCleanup(r) ==
  /\ ~r.prior /\ ~r.callbacks /\ r.signal_panic = "none"
  /\ r.settlement \in {"Settled", "GracefulTimeout"}
  /\ \A l \in DOMAIN r.loops : r.loops[l].result \notin {"Panic", "Cancelled"}
  /\ \A d \in DOMAIN r.descendants : ~r.descendants[d].error

(* is_success.                                                             *)
IsSuccess(r) ==
  /\ PermitsCleanup(r)
  /\ r.settlement = "Settled" /\ ~r.deadline_error /\ ~r.signal_error
  /\ \A l \in DOMAIN r.loops : r.loops[l].result = "Shutdown"
  /\ \A d \in DOMAIN r.descendants : ~r.descendants[d].error

FailedLoops(r) == {l \in DOMAIN r.loops : r.loops[l].result # "Shutdown"}
FailedTasks(r) == {d \in DOMAIN r.descendants : r.descendants[d].error}

(* Tasks that a report may name when the cause names none.                 *)
TaskFailures(r) ==
  {[kind |-> "Loop", task |-> l] : l \in FailedLoops(r)}
  \cup {[kind |-> "Descendant", task |-> d] : d \in FailedTasks(r)}

OrElse(A, B) == IF A # {} THEN A ELSE B
Failure(k, t) == {[kind |-> k, task |-> t]}

(* The failure that the cause itself names, if the report has it.          *)
CausingFailures(r) ==
  IF r.cause.kind = "LoopFailure" /\ r.cause.task \in FailedLoops(r) THEN Failure("Loop", r.cause.task)
  ELSE IF r.cause.kind = "DescendantFailure" /\ r.cause.task \in FailedTasks(r)
  THEN Failure("Descendant", r.cause.task)
  ELSE IF r.cause.kind = "DescendantFailure" /\ r.cause.task = Signal
          /\ r.signal_panic \in {"poll", "poll_and_destruction"} THEN Failure("SignalPanicked", Signal)
  ELSE {}

SignalPanics(r) == IF r.signal_panic # "none" THEN Failure("SignalPanicked", Signal) ELSE {}

(* triggering_failure, as the set of failures it may choose.               *)
TriggeringFailures(r) == OrElse(CausingFailures(r), OrElse(TaskFailures(r), SignalPanics(r)))

SignalFailures(r) == IF r.signal_error THEN Failure("Signal", Signal) ELSE {}

(* settlement_failure: the first that applies.                             *)
SettlementFailures(r) ==
  IF r.settlement = "Interrupted" THEN Failure("SettlementInterrupted", None)
  ELSE IF r.deadline_error THEN Failure("UnrepresentableDeadline", None)
  ELSE IF r.settlement # "Settled" THEN Failure(r.settlement, None)
  ELSE IF r.signal_error THEN SignalFailures(r)
  ELSE IF r.callbacks THEN Failure("CallbackInterrupted", None)
  ELSE IF r.prior THEN Failure("EarlierCallbackInterruptions", None)
  ELSE {}

(* failure: which evidence leads depends on the cause.                     *)
Failures(r) ==
  CASE r.cause.kind = "SignalFailed" ->
         OrElse(SignalFailures(r), OrElse(SettlementFailures(r), TriggeringFailures(r)))
    [] r.cause.kind \in {"LoopFailure", "DescendantFailure"} ->
         OrElse(TriggeringFailures(r), SettlementFailures(r))
    [] OTHER -> OrElse(SettlementFailures(r), TriggeringFailures(r))

-----------------------------------------------------------------------------
(* Properties.                                                             *)

TaskType ==
  [st : {"unborn", "running", "dropping", "done"}, aborted : BOOLEAN,
   result : {"none", "Ok", "Shutdown", "Returned", "Panic", "Cancelled"}]

(* Every variable keeps its type.                                          *)
SettlementTypeOK ==
  /\ now \in 1..MaxTime
  /\ request = None \/ request.at \in 0..now
  /\ loop \in [Loops -> TaskType] /\ desc \in [Descendants -> TaskType]
  /\ joined \subseteq Loops /\ recorded \subseteq collected /\ collected \subseteq Descendants
  /\ mode \in {"None", "AfterGracefulTimeout", "All"}
  /\ owner.phase \in {"none", "graceful", "abort"} /\ owner.timer \in 0..(MaxTime + Graceful + Abort)
  /\ unpublished \in BOOLEAN /\ published \in BOOLEAN /\ dirty \in BOOLEAN

Stopped(t) == t.st \in {"unborn", "done"}

(* RuntimeShutdownCleanupPermit, "every supervised loop and tracked        *)
(* descendant has been joined": with a permit nothing of the runtime runs, *)
(* and nothing of it was cut short but the runtime's own signal task.      *)
PermitMeansStopped ==
  (report # None /\ PermitsCleanup(report)) =>
    /\ \A l \in Loops : loop[l].st = "done" /\ loop[l].result \notin {"Panic", "Cancelled"}
    /\ \A d \in Descendants : Stopped(desc[d])
    /\ \A d \in Descendants : desc[d].st = "done" =>
         desc[d].result = "Ok" \/ OwnerCancelled(d)

(* classify, "denied cleanup retains a shutdown failure": the expect never *)
(* fires, and a clean settlement is exactly a successful one.              *)
ReportIsConsistent ==
  report # None =>
    /\ ~PermitsCleanup(report) => Failures(report) # {}
    /\ IsSuccess(report) <=> (PermitsCleanup(report) /\ Failures(report) = {})

(* failure(): what a loop, a descendant or the signal did to start the     *)
(* stop is what the report names, whatever failed while it drained.        *)
FailureNamesTheCause ==
  report # None =>
    /\ report.cause.kind \in {"LoopFailure", "DescendantFailure"} =>
         \A f \in Failures(report) : f.task = report.cause.task
    /\ report.cause.kind = "SignalFailed" => \A f \in Failures(report) : f.kind = "Signal"

(* phase_elapsed, "An enclosing owner can tighten a deadline while         *)
(* settlement is already waiting": the owner never sleeps on a deadline    *)
(* that a request has moved, without the wake-up being on its way.         *)
WaitsForTheTightestDeadline ==
  (owner.pc = "wait" /\ ~dirty /\ ~unpublished) => owner.timer = request.at + Allowance

(* RuntimeStartup: Initialized says that every loop has acknowledged and   *)
(* none has ended or been asked to.                                        *)
InitializedMeansRunning ==
  startup.state = "Initialized" =>
    /\ startup.pending = {} /\ ~published
    /\ \A l \in Loops : loop[l].st = "running"

(* request_since: the first cause stays, the deadline only comes closer,   *)
(* and a stopped startup is not initialised again.                         *)
StopOnlyTightens ==
  [][/\ request # None => /\ request'.cause = request.cause
                          /\ request'.at <= request.at
     /\ startup.state = "Stopped" => startup'.state = "Stopped"]_svars

(* run_report: a stop whose deadlines the bounded clock reaches ends in a  *)
(* report, even if no task ever ends.                                      *)
StopsAreReported ==
  (request # None /\ request.at + Graceful + Abort <= MaxTime) ~> report # None

(* The final report tells the truth: with a cleanup permit everything has  *)
(* stopped and nothing was cut short, without one the report names a       *)
(* failure, and what started the stop is the failure it names.             *)
ReportsTellTheTruth ==
  /\ SettlementTypeOK
  /\ PermitMeansStopped
  /\ ReportIsConsistent
  /\ FailureNamesTheCause

(* Stop requests of several sources: the first cause stays, the deadline   *)
(* only comes closer, the owner never sleeps on one that has moved, and a  *)
(* startup that was stopped is never reported as initialised.              *)
StopsOnlyTighten ==
  /\ []WaitsForTheTightestDeadline
  /\ []InitializedMeansRunning
  /\ StopOnlyTightens
=============================================================================
