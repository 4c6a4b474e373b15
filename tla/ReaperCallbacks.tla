--------------------------- MODULE ReaperCallbacks ---------------------------
(***************************************************************************)
(* The reaper loop after the database has committed a batch of expired     *)
(* leases: the dead-letter hooks of the terminal ones, admitted within a   *)
(* window of concurrency, the lifecycle observers of all of them, admitted *)
(* within a limit of their own, and a stop that arrives at any point.      *)
(*                                                                         *)
(* Hooks and observers are tasks of the application's code: they end,      *)
(* panic when polled or when destroyed, time out, or do not yield and can  *)
(* then be neither timed out nor aborted.                                  *)
(***************************************************************************)
EXTENDS Naturals, FiniteSets

CONSTANTS
  Jobs,           \* jobs whose leases expire
  Handled,        \* jobs whose type has a registered handler
  Blocking,       \* jobs whose callbacks may never yield
  MaxHooks,       \* REAPER_TERMINAL_HOOK_MAX_CONCURRENCY
  MaxWatchers,    \* REAPER_REAPED_OBSERVER_MAX_CONCURRENCY
  BatchSize,      \* claim_batch_size
  Endings,        \* ways in which a callback may end
  Destructions    \* whether the destruction of a callback may panic

ASSUME ReaperAssumption ==
  /\ Handled \subseteq Jobs /\ Blocking \subseteq Jobs
  /\ MaxHooks \in Nat \ {0} /\ MaxWatchers \in Nat \ {0} /\ BatchSize \in Nat \ {0}
  /\ Endings \subseteq {"completed", "panicked", "timed_out", "cancelled"} /\ Destructions \subseteq BOOLEAN

VARIABLES
  stop,           \* shutdown requested, or its sender gone
  row,            \* the committed disposition of each job
  reaper,         \* the loop: where it is, its batch and its fanout
  task,           \* hook and observer task of each job
  in_flight,      \* TerminalHookFanout.in_flight
  watchers,       \* ReapedObserverTasks.in_flight
  evidence        \* callbacks whose failure the task registry has recorded

rvars == <<stop, row, reaper, task, in_flight, watchers, evidence>>

Hook(j) == <<"hook", j>>
Watcher(j) == <<"watch", j>>
Callbacks == {Hook(j) : j \in Jobs} \cup {Watcher(j) : j \in Jobs}

NoTask == [state |-> "none", result |-> "none", broke |-> FALSE, aborted |-> FALSE]
NoBatch == [pc |-> "top", todo |-> {}, batch |-> {}, observed |-> FALSE, budget |-> 0, skipped |-> {}]

ReaperInit ==
  /\ stop = FALSE
  /\ row = [j \in Jobs |-> "leased"]
  /\ reaper = NoBatch
  /\ task = [c \in Callbacks |-> NoTask]
  /\ in_flight = {} /\ watchers = {} /\ evidence = {}

Goto(pc) == reaper' = [reaper EXCEPT !.pc = pc]
Ended(c) == task[c].state = "ended"
Finished(set) == {c \in set : Ended(c)}

-----------------------------------------------------------------------------
(* Callbacks.                                                              *)

(* CallbackGuard::poll: a destruction that panics after a completed poll   *)
(* is the callback's own outcome.                                          *)
Outcome(result, broke) == IF result = "completed" /\ broke THEN "panicked" ELSE result

(* record_hook, notify_all_observers and Drop for CallbackGuard.           *)
Records(result, broke) == result \in {"panicked", "timed_out"} \/ broke

(* invoke_dead_letter_hook, notify_observer: a callback completes, panics, *)
(* or is destroyed by its timeout or by an abort.                          *)
CallbackEnds(c, result, broke) ==
  /\ task[c].state = "running"
  /\ result = "cancelled" => task[c].aborted
  /\ task' = [task EXCEPT ![c].state = "ended", ![c].result = Outcome(result, broke), ![c].broke = broke]
  /\ evidence' = IF Records(Outcome(result, broke), broke) THEN evidence \cup {c} ELSE evidence
  /\ UNCHANGED <<stop, row, reaper, in_flight, watchers>>

Spawned(c) == [task EXCEPT ![c].state = "running"]
Aborted(set) == [c \in Callbacks |-> IF c \in set /\ ~Ended(c) THEN [task[c] EXCEPT !.aborted = TRUE] ELSE task[c]]

-----------------------------------------------------------------------------
(* run_reaper_loop_initialized.                                            *)

Top ==
  /\ reaper.pc = "top"
  /\ watchers' = watchers \ Finished(watchers)
  /\ Goto(IF stop THEN "abort_watchers" ELSE "reap")
  /\ UNCHANGED <<stop, row, task, in_flight, evidence>>

(* TerminalHookFanout::with_registry.                                      *)
Fanout(batch) ==
  [NoBatch EXCEPT !.pc = "hooks", !.todo = batch, !.batch = batch,
                  !.observed = stop, !.budget = IF stop THEN MaxHooks ELSE 0]

(* reap_expired_leases_with_diagnostics has committed the batch.           *)
Reap(batch, dead) ==
  /\ reaper.pc = "reap"
  /\ row' = [j \in Jobs |-> IF j \in dead THEN "dead" ELSE IF j \in batch THEN "retry" ELSE row[j]]
  /\ reaper' = Fanout(batch)
  /\ UNCHANGED <<stop, task, in_flight, watchers, evidence>>

ReapFails ==
  /\ reaper.pc = "reap"
  /\ Goto("sleep")
  /\ UNCHANGED <<stop, row, task, in_flight, watchers, evidence>>

-----------------------------------------------------------------------------
(* notify_handlers_of_terminal_lease_expirations_inner.                    *)

HasHook(j) == row[j] = "dead" /\ j \in Handled

PassOver(j) ==
  /\ reaper.pc = "hooks" /\ j \in reaper.todo /\ ~HasHook(j)
  /\ reaper' = [reaper EXCEPT !.todo = @ \ {j}]
  /\ UNCHANGED <<stop, row, task, in_flight, watchers, evidence>>

Full == Cardinality(in_flight) >= MaxHooks
Observed == reaper.observed \/ stop
Budget == IF reaper.observed THEN reaper.budget ELSE MaxHooks

(* wait_for_capacity_or_observe_shutdown is over and                       *)
(* reserve_hook_admission answers.                                         *)
Reserved(j) == Observed => Budget > 0 /\ ~Full

AdmitHook(j) ==
  /\ reaper.pc = "hooks" /\ j \in reaper.todo /\ HasHook(j)
  /\ Observed \/ ~Full
  /\ reaper' = [reaper EXCEPT !.todo = @ \ {j}, !.observed = Observed,
                 !.budget = IF ~Observed THEN 0 ELSE IF Reserved(j) THEN Budget - 1 ELSE Budget,
                 !.skipped = IF Reserved(j) THEN @ ELSE @ \cup {j}]
  /\ task' = IF Reserved(j) THEN Spawned(Hook(j)) ELSE task
  /\ in_flight' = IF Reserved(j) THEN in_flight \cup {Hook(j)} ELSE in_flight
  /\ UNCHANGED <<stop, row, watchers, evidence>>

(* Mutant: what a stop finds unadmitted is given up without being counted. *)
EndAdmissionEarly ==
  /\ reaper.pc = "hooks" /\ (reaper.todo = {} \/ stop)
  /\ reaper' = [reaper EXCEPT !.todo = {}, !.observed = stop, !.pc = IF stop THEN "finish" ELSE "drain"]
  /\ UNCHANGED <<stop, row, task, in_flight, watchers, evidence>>

EndAdmission ==
  /\ reaper.pc = "hooks" /\ reaper.todo = {}
  /\ Goto(IF reaper.observed THEN "finish" ELSE "drain")
  /\ UNCHANGED <<stop, row, task, in_flight, watchers, evidence>>

(* Hooks are joined while the window is full and the stop is not observed, *)
(* and while the fanout drains.                                            *)
Joining ==
  \/ reaper.pc = "hooks" /\ Full /\ ~reaper.observed /\ reaper.todo # {}
  \/ reaper.pc \in {"drain", "finish", "abort_hooks"}

JoinHook(c) ==
  /\ Joining /\ c \in Finished(in_flight)
  /\ in_flight' = in_flight \ {c}
  /\ UNCHANGED <<stop, row, reaper, task, watchers, evidence>>

(* drain_results_until_complete_or_shutdown.                               *)
DrainEnds ==
  /\ reaper.pc = "drain"
  /\ in_flight = {} \/ stop
  /\ \/ in_flight = {} /\ Goto(IF stop THEN "abort_watchers" ELSE "watch_batch")
     \/ in_flight # {} /\ reaper' = [reaper EXCEPT !.observed = TRUE, !.pc = "finish"]
  /\ UNCHANGED <<stop, row, task, in_flight, watchers, evidence>>

(* finish, drain_terminal_hooks_for_shutdown.                              *)
ShutdownDrained ==
  /\ reaper.pc \in {"finish", "abort_hooks"} /\ in_flight = {}
  /\ Goto("abort_watchers")
  /\ UNCHANGED <<stop, row, task, in_flight, watchers, evidence>>

(* TERMINAL_HOOK_SHUTDOWN_DRAIN_TIMEOUT.                                   *)
ShutdownDrainTimeout ==
  /\ reaper.pc = "finish" /\ in_flight # {}
  /\ task' = Aborted(in_flight)
  /\ Goto("abort_hooks")
  /\ UNCHANGED <<stop, row, in_flight, watchers, evidence>>

(* TERMINAL_HOOK_ABORT_DRAIN_TIMEOUT: the unresolved tasks are dropped.    *)
AbortDrainTimeout ==
  /\ reaper.pc = "abort_hooks" /\ in_flight # {}
  /\ in_flight' = {}
  /\ Goto("abort_watchers")
  /\ UNCHANGED <<stop, row, task, watchers, evidence>>

-----------------------------------------------------------------------------
(* ReapedObserverTasks.                                                    *)

WatcherAdmitted(free) == Cardinality(watchers \ free) < MaxWatchers

(* spawn_batch, one record; what finished since the last one is drained.   *)
WatchReaped(j) ==
  /\ reaper.pc = "watch_batch" /\ j \in reaper.batch
  /\ reaper' = [reaper EXCEPT !.batch = @ \ {j}]
  /\ LET free == Finished(watchers) IN
     IF WatcherAdmitted(free)
     THEN /\ watchers' = (watchers \ free) \cup {Watcher(j)}
          /\ task' = Spawned(Watcher(j))
     ELSE watchers' = watchers \ free /\ UNCHANGED task
  /\ UNCHANGED <<stop, row, in_flight, evidence>>

BatchWatched ==
  /\ reaper.pc = "watch_batch" /\ reaper.batch = {}
  /\ watchers' = watchers \ Finished(watchers)
  /\ Goto("sleep")
  /\ UNCHANGED <<stop, row, task, in_flight, evidence>>

(* wait_for_request_or_timeout.                                            *)
WakeReaper ==
  /\ reaper.pc = "sleep"
  /\ reaper' = IF stop THEN [NoBatch EXCEPT !.pc = "abort_watchers"] ELSE NoBatch
  /\ UNCHANGED <<stop, row, task, in_flight, watchers, evidence>>

(* abort_reaped_observer_fanout.                                           *)
AbortWatchers ==
  /\ reaper.pc = "abort_watchers"
  /\ task' = Aborted(watchers)
  /\ watchers' = watchers \ Finished(watchers)
  /\ Goto(IF watchers = Finished(watchers) THEN "exited" ELSE "drain_watchers")
  /\ UNCHANGED <<stop, row, in_flight, evidence>>

(* All joined, or REAPED_OBSERVER_ABORT_DRAIN_TIMEOUT.                     *)
WatchersDrained ==
  /\ reaper.pc = "drain_watchers"
  /\ watchers' = {}
  /\ Goto("exited")
  /\ UNCHANGED <<stop, row, task, in_flight, evidence>>

-----------------------------------------------------------------------------
StopReaper ==
  /\ ~stop
  /\ stop' = TRUE
  /\ UNCHANGED <<row, reaper, task, in_flight, watchers, evidence>>

Leased == {j \in Jobs : row[j] = "leased"}

ReaperStep ==
  \/ Top \/ ReapFails
  \/ \E batch \in SUBSET Leased : \E dead \in SUBSET batch :
       IsFiniteSet(batch) /\ Cardinality(batch) <= BatchSize /\ Reap(batch, dead)
  \/ \E j \in Jobs : PassOver(j) \/ AdmitHook(j) \/ WatchReaped(j)
  \/ EndAdmission \/ DrainEnds \/ ShutdownDrained \/ ShutdownDrainTimeout \/ AbortDrainTimeout
  \/ \E c \in Callbacks : JoinHook(c)
  \/ BatchWatched \/ WakeReaper \/ AbortWatchers \/ WatchersDrained

CallbackStep(c) ==
  \E result \in Endings, broke \in Destructions : CallbackEnds(c, result, broke)

ReaperTerminated == reaper.pc = "exited" /\ UNCHANGED rvars

ReaperNext == ReaperStep \/ (\E c \in Callbacks : CallbackStep(c)) \/ StopReaper \/ ReaperTerminated

ReaperSpec == ReaperInit /\ [][ReaperNext]_rvars

(* The runtime polls the loop and fires its timers; a callback that yields *)
(* ends by itself, by its timeout or by its abort.                         *)
ReaperFairSpec ==
  /\ ReaperSpec /\ WF_rvars(ReaperStep)
  /\ \A j \in Jobs \ Blocking : WF_rvars(CallbackStep(Hook(j)))

-----------------------------------------------------------------------------
(* Properties.                                                             *)

ReaperTypeOK ==
  /\ stop \in BOOLEAN /\ row \in [Jobs -> {"leased", "dead", "retry"}]
  /\ in_flight \subseteq {Hook(j) : j \in Jobs} /\ watchers \subseteq {Watcher(j) : j \in Jobs}
  /\ reaper.budget \in 0..MaxHooks /\ evidence \subseteq Callbacks
  /\ Cardinality(in_flight) <= MaxHooks /\ Cardinality(watchers) <= MaxWatchers

(* "attempt one bounded concurrency window instead of silently skipping    *)
(* every committed hook": a hook is skipped only after a stop, and only    *)
(* when a whole window of hooks of its batch has been started.             *)
SkippedMeansWindowUsed ==
  reaper.skipped # {} =>
    stop /\ Cardinality({j \in reaper.batch : task[Hook(j)].state # "none"}) >= MaxHooks

(* A dead letter that is committed has its hook started or counted as      *)
(* skipped before the loop does anything else.                             *)
DeadLettersAreAccountedFor ==
  \A j \in Jobs : HasHook(j) /\ task[Hook(j)].state = "none" =>
    j \in reaper.todo \cup reaper.skipped

(* notify_reaped_lease_side_effects: an observer hears of a batch when its *)
(* hooks have ended, and not at all when the stop interrupted them.        *)
HooksBeforeObservers ==
  \A j \in Jobs : task[Watcher(j)].state # "none" /\ HasHook(j) => Ended(Hook(j))

(* "retained interruption evidence continues to prohibit cooperative       *)
(* cleanup": a callback that panicked, was timed out or whose destruction  *)
(* panicked is on record, whoever destroyed it.                            *)
InterruptionsLeaveEvidence ==
  \A c \in Callbacks : Ended(c) /\ (task[c].result \in {"panicked", "timed_out"} \/ task[c].broke) => c \in evidence

(* When the loop has returned, whatever of it still runs was aborted.      *)
ReaperExitAborts ==
  reaper.pc = "exited" => \A c \in Callbacks : task[c].state = "running" => task[c].aborted

(* A stop ends the loop even when callbacks never yield.                   *)
StopEndsTheReaper == stop ~> (reaper.pc = "exited")

(* One hook that never yields does not keep the others of its batch from   *)
(* being started.                                                          *)
DeadLettersAreHandled ==
  \A j \in Jobs : HasHook(j) ~> (task[Hook(j)].state # "none" \/ stop)

(* The reaper's callbacks: every committed dead letter has its hook        *)
(* started or counted as skipped, skipping takes a stop and a full window, *)
(* observers come after hooks, interruptions are on record, and nothing    *)
(* outlives the loop that was not aborted.                                 *)
ReapedJobsAreAccountedFor ==
  /\ ReaperTypeOK
  /\ SkippedMeansWindowUsed
  /\ DeadLettersAreAccountedFor
  /\ HooksBeforeObservers
  /\ InterruptionsLeaveEvidence
  /\ ReaperExitAborts
=============================================================================
