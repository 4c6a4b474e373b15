------------------------------ MODULE MC_Live ------------------------------
(***************************************************************************)
(* What must eventually happen to queued work: leases, resource claims,    *)
(* enqueue intents, due schedules, the transactions of a workflow run and  *)
(* failed attempts.  Each is a small instance of its module; a behaviour   *)
(* explores the one that its case names, and the fairness is that of the   *)
(* module, in its case.                                                    *)
(***************************************************************************)
EXTENDS WorkerLeases, TLC

CONSTANTS j1, w1, r1, k1, ra, rb, rm, c1, p1, p2, NoRow, s1, s2, None, Cases

VARIABLES
  case,
  intent, job, due, enabled, gens, txn, locks,       \* EnqueueIntents
  now, schedules, definitions, fired, session,       \* Schedules
  step, run, jobs, tx, tries,                        \* WorkflowLocks
  clock, jitter, queued, worker, audit, events, dead, told, asked  \* RetryTiming

MCResourceOf == [j \in Jobs |-> r1]
MCPriority == [j \in Jobs |-> 1]
MCMaxAttempts == [j \in Jobs |-> 2]
MCMaxRun == [j \in Jobs |-> 2]
MCJobTypes == [w \in Workers |-> Jobs]

(* An intent to promote, one that cannot be decoded, and a job of another  *)
(* request in their way, beside two promoters.                             *)
MCCall(r, ops, lock) == [key |-> k1, request |-> r, ops |-> ops, lock |-> lock]
Intents == INSTANCE EnqueueIntents WITH
  Keys <- {k1}, Requests <- {ra, rb, rm}, Malformed <- {rm}, MaxGen <- 1, Clients <- {c1},
  Promoters <- {p1, p2}, Retainers <- {}, BatchLimit <- 1,
  Calls <- {MCCall(ra, "record", "NoKeyUpdate"), MCCall(rm, "record", "NoKeyUpdate"),
            MCCall(rb, "enqueue", "KeyShare")}

(* A scheduler's session and an operator's, who sets the schedule again.   *)
Fire == INSTANCE Schedules WITH
  Sessions <- {s1, s2}, Names <- {"n1"}, Types <- {"t1"}, Crons <- {"often"},
  Bases <- [c \in {"often"} |-> 1..5], Jitter <- [t \in 0..8 |-> IF t = 3 THEN 2 ELSE IF t = 4 THEN 0 ELSE 1],
  MaxJitter <- 2, RetryDelay <- 2, MaxTime <- 5, MaxCursorWrites <- 0, tx <- session,
  Operations <- {[kind |-> "scheduler"],
                 [kind |-> "plain", entries |-> <<[name |-> "n1", type |-> "t1", active |-> TRUE,
                                                   cron |-> "often", next |-> 1]>>]}

(* One job releases another beside an external step, while the run is      *)
(* canceled.                                                               *)
LinkClients == {<<"job", 1>>, <<"external", 3>>, <<"cancel", 0>>}
Link == INSTANCE WorkflowLocks WITH
  Steps <- {1, 2, 3}, External <- {3}, Edges <- {<<1, 2>>}, OnSuccess <- {<<1, 2>>}, Appended <- {},
  Window <- 3, Clients <- LinkClients, MaxTries <- 1

(* Three attempts, whose failures a worker or a direct caller reports.     *)
Retry == INSTANCE RetryTiming WITH
  Micro <- 2, Milli <- 4, MaxMs <- 3, PostgresMinimum <- 2, ChronoMax <- 39, Start <- 4, LastClaim <- 12,
  LeaseNs <- 4, MaxAttempts <- 3, Kinds <- {"RETRYABLE"}, Codes <- {"limited", "other"}, Delays <- {13},
  Instants <- {}, Overrides <- "limited" :> 2, BaseMs <- 1, MaxExp <- 2, CapMs <- 3, FloorMs <- 1,
  Jitters <- {-1, 0}, DirectDelays <- {-1, 0}, ReaperDelayMs <- 1,
  now <- clock, job <- queued

-----------------------------------------------------------------------------
leases == wvars
intents == <<intent, job, due, enabled, gens, txn, locks>>
fire == <<now, schedules, definitions, fired, session>>
link == <<step, run, jobs, tx, tries>>
retry == <<clock, jitter, queued, worker, audit, events, dead, told, asked>>

MCInit ==
  /\ case \in Cases
  /\ WorkersInit /\ Intents!IntentsInit /\ Fire!Init /\ Link!Init /\ Retry!RetryInit
  /\ case # "intents" => enabled
  /\ definitions["t1"] = TRUE
  /\ case # "retry" => jitter = 0

(* The scheduler's session does nothing else, and the operator's no passes. *)
FireCase == /\ session[s1].op \in {None, Fire!SchedulerPass}
            /\ session[s2].op # Fire!SchedulerPass

MCNext ==
  /\ UNCHANGED case
  /\ \/ case = "leases" /\ WorkersNext /\ UNCHANGED <<intents, fire, link, retry>>
     \/ case = "intents" /\ Intents!IntentsNext /\ UNCHANGED <<leases, fire, link, retry>>
     \/ case = "fire" /\ Fire!Next /\ FireCase' /\ UNCHANGED <<leases, intents, link, retry>>
     \/ case = "link" /\ Link!Next /\ UNCHANGED <<leases, intents, fire, retry>>
     \/ case = "retry" /\ Retry!RetryNext /\ UNCHANGED <<leases, intents, fire, link>>

MCFairSpec ==
  /\ MCInit /\ [][MCNext]_<<case, leases, intents, fire, link, retry>>
  /\ WF_leases(case = "leases" /\ WorkersTick)
  /\ \A s \in Slots :
       /\ WF_leases(case = "leases" /\ HandlerReturns(s) /\ UNCHANGED canceled)
       /\ WF_leases(case = "leases" /\ (CompleteJob(s) \/ CompleteError(s)) /\ UNCHANGED canceled)
  /\ \A j \in Jobs : SF_leases(case = "leases" /\ Reap(j) /\ UNCHANGED <<task, canceled>>)
  /\ WF_leases(case = "leases" /\ (\E c \in resource_claims : CleanupResourceClaim(c))
               /\ UNCHANGED <<task, canceled>>)
  /\ WF_intents(case = "intents" /\ (Intents!Commit(c1) \/ Intents!Rollback(c1)))
  /\ WF_intents(case = "intents" /\ Intents!BecomesDue(k1))
  /\ \A p \in {p1, p2} : WF_intents(case = "intents" /\ Intents!PassStep(p))
  /\ WF_fire(case = "fire" /\ Fire!SchedulingStep(s1)) /\ SF_fire(case = "fire" /\ Fire!ClaimLock(s1))
  /\ WF_fire(case = "fire" /\ Fire!RollbackSession(s2))
  /\ \A c \in LinkClients : /\ WF_link(case = "link" /\ tx[c] # Link!Idle /\ Link!Step(c))
                            /\ SF_link(case = "link" /\ Link!Lock(c))
  /\ WF_retry(case = "retry" /\ Retry!Tick)
  /\ WF_retry(case = "retry" /\ (Retry!ReapTerminal \/ Retry!ReapRetry))
  /\ \A i \in 1..3 : WF_retry(case = "retry" /\ Retry!Completion(i))

-----------------------------------------------------------------------------
(* Every lease comes to an end, whatever crashed while holding it, and a   *)
(* resource held for a canceled lease becomes free again.                  *)
LeasesAndClaimsEnd == LeasesEnd /\ QuiescingClaimsEnd

(* Once its type stays enabled and passes no longer fail, every pending    *)
(* intent is promoted, found in conflict or, after that, removed: earlier  *)
(* deferrals and passes that were rolled back, jobs of the application and *)
(* other promoters only delay it.                                          *)
PendingIntentsResolve == Intents!PendingIntentsResolve

(* run_scheduler_loop: a schedule that is due is fired or put off, once    *)
(* passes are no longer rolled back.                                       *)
DueSchedulesAreServed == Fire!DueSchedulesAreServed

(* Every transaction on a workflow run ends: its waits end, by a grant, as *)
(* the victim of a deadlock or by the timeout of the release lock, and so  *)
(* does the cascade.                                                       *)
EveryTransactionEnds == Link!EveryTransactionEnds

(* A failed attempt does not keep its lease, whatever its handler asks for *)
(* and whether or not its failure can be written; of worker and reaper     *)
(* only one ends it, its backoff is not less than an earlier one's, and no *)
(* attempt starts before the bound of the one before.                      *)
FailuresSettleOnce ==
  /\ []Retry!BackoffNeverShrinks
  /\ Retry!AttemptsFailOnce
  /\ Retry!NoAttemptBeforeItsBound
  /\ Retry!FailuresSettle
=============================================================================
