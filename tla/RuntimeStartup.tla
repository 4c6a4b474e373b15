--------------------------- MODULE RuntimeStartup ---------------------------
(***************************************************************************)
(* Building and starting a supervisor: configuration read from the         *)
(* environment or given by the caller, the builder's calls in any order    *)
(* and any number, preparation with its checks and their order, and the    *)
(* loops, each of which validates its configuration again as it begins.    *)
(***************************************************************************)
EXTENDS Integers, Sequences, FiniteSets, SequencesExt

CONSTANTS
  Environments,   \* variable -> text that parses as an Int, Garbage or Missing
  Configs,        \* configurations that a caller builds directly
  PromoterConfigs,
  MaxCalls,       \* bound: calls on one builder
  MaxBatch,       \* JOBS_CLAIM_BATCH_SIZE_MAX
  Missing, Garbage

Variables == {"worker", "poll", "batch", "ttl", "concurrency", "reaper", "schedule",
              "retry", "promoterPoll", "promoterBatch"}

ASSUME StartupAssumption ==
  /\ MaxCalls \in Nat /\ MaxBatch \in Nat \ {0}
  /\ Environments \subseteq [Variables -> Int \cup {Garbage, Missing}]
  /\ Missing \notin {"direct", "catalog", "mixed", "InvalidConfig", "MixedSources", "MissingRegistry"}

AllLoops == {"worker", "promoter", "scheduler", "reaper"}

VARIABLES
  phase,          \* "environment", "building", "prepared", "started", "refused"
  env,            \* the process environment
  fromEnv,        \* the builder is that of builder_from_env
  config,         \* JobsConfig
  builder,        \* the other fields of SupervisorBuilder
  calls,          \* the calls made on the builder, in order
  error,          \* why it was refused
  begun           \* loop -> whether its own validation accepted the configuration

uvars == <<phase, env, fromEnv, config, builder, calls, error, begun>>

-----------------------------------------------------------------------------
(* Configuration.                                                          *)

RaisedTo(x, low) == IF x < low THEN low ELSE x
Clamp(x, low, high) == IF x < low THEN low ELSE IF x > high THEN high ELSE x

(* parse_value_if_present; an unsigned type, Nat, does not parse a sign.   *)
Parses(e, name, type) == e[name] # Missing /\ e[name] # Garbage /\ e[name] \in type

(* parse_value.                                                            *)
Parse(e, name, type, default) == IF Parses(e, name, type) THEN e[name] ELSE default

(* JobsConfig::from_lookup; a blank worker id is replaced by a fresh one.  *)
FromLookup(e) ==
  [worker |-> "id",
   poll |-> RaisedTo(Parse(e, "poll", Nat, 500), 1),
   batch |-> Clamp(Parse(e, "batch", Int, 16), 1, MaxBatch),
   ttl |-> RaisedTo(Parse(e, "ttl", Int, 60), 10),
   concurrency |-> RaisedTo(Parse(e, "concurrency", Nat, 32), 1),
   reaper |-> RaisedTo(Parse(e, "reaper", Nat, 15), 1),
   schedule |-> RaisedTo(Parse(e, "schedule", Nat, 30), 1),
   retry |-> RaisedTo(Parse(e, "retry", Int, 30000), 1000)]

(* IntentPromoterConfig::from_lookup_with_jobs_config_defaults.            *)
PromoterFromLookup(e, c) ==
  [poll |-> IF Parses(e, "promoterPoll", Nat) THEN RaisedTo(e["promoterPoll"], 1) ELSE c.poll,
   batch |-> IF Parses(e, "promoterBatch", Int) THEN Clamp(e["promoterBatch"], 1, MaxBatch) ELSE c.batch]

(* IntentPromoterConfig::from_jobs_config.                                 *)
PromoterFromJobs(c) == [poll |-> c.poll, batch |-> c.batch]

ValidBatch(n) == n \in 1..MaxBatch

(* JobsConfig::validate.                                                   *)
Valid(c) ==
  /\ c.worker # "blank" /\ c.poll > 0 /\ ValidBatch(c.batch) /\ c.ttl >= 1
  /\ c.concurrency >= 1 /\ c.reaper > 0 /\ c.schedule > 0 /\ c.retry >= 1

ValidPromoter(c) == c.poll > 0 /\ ValidBatch(c.batch)

(* validate_worker_loop, validate_scheduler_loop, validate_reaper_loop and *)
(* the promoter's validate, as each loop calls them.                       *)
ValidWorkerLoop(c) ==
  c.worker # "blank" /\ c.poll > 0 /\ ValidBatch(c.batch) /\ c.ttl >= 1 /\ c.concurrency >= 1
ValidSchedulerLoop(c) == ValidBatch(c.batch) /\ c.schedule > 0
ValidReaperLoop(c) == ValidBatch(c.batch) /\ c.reaper > 0 /\ c.retry >= 1

LoopAccepts(l) ==
  CASE l = "worker" -> ValidWorkerLoop(config)
    [] l = "promoter" -> ValidPromoter(builder.promoter)
    [] l = "scheduler" -> ValidSchedulerLoop(config)
    [] l = "reaper" -> ValidReaperLoop(config)

-----------------------------------------------------------------------------
(* The builder.                                                            *)

NewBuilder == [selection |-> Missing, enabled |-> AllLoops, promoter |-> Missing]

StartupInit ==
  /\ phase = "environment"
  /\ env \in Environments
  /\ fromEnv = FALSE
  /\ config = Missing
  /\ builder = NewBuilder
  /\ calls = <<>>
  /\ error = Missing
  /\ begun = <<>>

(* Supervisor::builder; without a Tokio runtime there is none.             *)
Builder(c, inRuntime) ==
  /\ phase = "environment"
  /\ config' = c
  /\ phase' = IF inRuntime THEN "building" ELSE "refused"
  /\ error' = IF inRuntime THEN Missing ELSE "MissingRuntime"
  /\ UNCHANGED <<env, fromEnv, builder, calls, begun>>

BuilderFromEnv ==
  /\ phase = "environment"
  /\ fromEnv' = TRUE
  /\ config' = FromLookup(env)
  /\ builder' = [builder EXCEPT !.promoter = PromoterFromLookup(env, FromLookup(env))]
  /\ phase' = "building"
  /\ UNCHANGED <<env, calls, error, begun>>

Call(name, b) ==
  /\ phase = "building" /\ Len(calls) < MaxCalls
  /\ builder' = b
  /\ calls' = Append(calls, name)
  /\ UNCHANGED <<phase, env, fromEnv, config, error, begun>>

(* Mutant: two sources are forgotten when a third is given.                *)
SelectionForgetful(current, source) ==
  IF current \in {Missing, source, "mixed"} THEN source ELSE "mixed"

(* RegistrySelection::direct and catalog.                                  *)
Selection(current, source) == IF current \in {Missing, source} THEN source ELSE "mixed"

WithRegistry == Call(<<"with", "direct">>, [builder EXCEPT !.selection = Selection(@, "direct")])
WithCatalog == Call(<<"with", "catalog">>, [builder EXCEPT !.selection = Selection(@, "catalog")])

WithoutWorker(enabled) == enabled \ {"worker", "promoter"}

DisableWorker == Call(<<"disable", "worker">>, [builder EXCEPT !.enabled = WithoutWorker(@)])
DisablePromoter == Call(<<"disable", "promoter">>, [builder EXCEPT !.enabled = @ \ {"promoter"}])
DisableScheduler == Call(<<"disable", "scheduler">>, [builder EXCEPT !.enabled = @ \ {"scheduler"}])
DisableReaper == Call(<<"disable", "reaper">>, [builder EXCEPT !.enabled = @ \ {"reaper"}])
WithPromoterConfig(c) == Call(<<"with", "promoter_config">>, [builder EXCEPT !.promoter = c])
WithObserver == Call(<<"with", "observer">>, builder)

-----------------------------------------------------------------------------
(* prepare and start.                                                      *)

PromoterConfig == IF builder.promoter = Missing THEN PromoterFromJobs(config) ELSE builder.promoter

(* The first check that fails names the error.                             *)
Refusal ==
  IF ~Valid(config) \/ ("promoter" \in builder.enabled /\ ~ValidPromoter(PromoterConfig)) THEN "InvalidConfig"
  ELSE IF builder.selection = "mixed" THEN "MixedSources"
  ELSE IF builder.selection = Missing /\ builder.enabled \cap {"worker", "reaper"} # {} THEN "MissingRegistry"
  ELSE Missing

Prepare ==
  /\ phase = "building"
  /\ error' = Refusal
  /\ phase' = IF Refusal = Missing THEN "prepared" ELSE "refused"
  /\ builder' = [builder EXCEPT !.promoter = PromoterConfig]
  /\ UNCHANGED <<env, fromEnv, config, calls, begun>>

StartLoops ==
  /\ phase = "prepared"
  /\ phase' = "started"
  /\ UNCHANGED <<env, fromEnv, config, builder, calls, error, begun>>

(* A loop whose validation fails exits, which stops the runtime.           *)
BeginLoop(l) ==
  /\ phase = "started" /\ l \in builder.enabled \ DOMAIN begun
  /\ begun' = [m \in DOMAIN begun \cup {l} |-> IF m = l THEN LoopAccepts(l) ELSE begun[m]]
  /\ UNCHANGED <<phase, env, fromEnv, config, builder, calls, error>>

BuilderCall ==
  \/ WithRegistry \/ WithCatalog
  \/ DisableWorker \/ DisablePromoter \/ DisableScheduler \/ DisableReaper
  \/ \E c \in PromoterConfigs : WithPromoterConfig(c)
  \/ WithObserver

StartupNext ==
  \/ BuilderFromEnv
  \/ \E c \in Configs, inRuntime \in BOOLEAN : Builder(c, inRuntime)
  \/ BuilderCall \/ Prepare \/ StartLoops
  \/ \E l \in AllLoops : BeginLoop(l)

StartupSpec == StartupInit /\ [][StartupNext]_uvars

-----------------------------------------------------------------------------
(* Properties.                                                             *)

With(what) == Contains(calls, <<"with", what>>)
Without(l) == Contains(calls, <<"disable", l>>)

(* The clamps of the environment's values are at least as strict as the    *)
(* validation of prepare: no text in the environment, alone or inherited   *)
(* by the promoter, makes a supervisor refuse its configuration.           *)
EnvironmentIsAlwaysAccepted ==
  fromEnv /\ ~With("promoter_config") => error # "InvalidConfig"

(* What prepare accepted no loop refuses when it begins: prepare validates *)
(* before it starts, "before spawning loops" in the tests' words.          *)
LoopsAcceptTheirConfig == \A l \in DOMAIN begun : begun[l]

(* with_catalog: "calling this and with_registry on the same builder is    *)
(* rejected by build", in whatever order and however often; and a worker   *)
(* or a reaper never runs without handlers.                                *)
HandlersComeFromOneSource ==
  phase = "started" =>
    /\ ~(With("direct") /\ With("catalog"))
    /\ builder.enabled \cap {"worker", "reaper"} # {} => With("direct") \/ With("catalog")

(* The loops that run are those that no call turned off; disable_worker    *)
(* takes the promoter with it and no later call brings either back.        *)
LoopsAreThoseLeftEnabled ==
  phase = "started" => builder.enabled =
    AllLoops \ {l \in AllLoops : Without(l) \/ (l = "promoter" /\ Without("worker"))}

(* A supervisor starts exactly the loops its builder left enabled, with    *)
(* handlers of one source and a configuration that no loop then refuses;   *)
(* no environment makes it refuse the configuration read from it.          *)
RuntimesStartAsConfigured ==
  /\ LoopsAcceptTheirConfig
  /\ HandlersComeFromOneSource
  /\ LoopsAreThoseLeftEnabled
  /\ EnvironmentIsAlwaysAccepted
=============================================================================
