------------------------- MODULE DeclarationsProofs -------------------------
(***************************************************************************)
(* Proofs about what an application declares: how a runtime is built and   *)
(* started, catalogs and their synchronisation, and the timing of retries. *)
(***************************************************************************)
EXTENDS RuntimeStartup, Catalog, RetryTiming, NaturalsInduction, WellFoundedInduction, TLAPS

-----------------------------------------------------------------------------
(* Building and starting a supervisor.                                     *)

CallNames == {"with", "disable"} \X {"direct", "catalog", "worker", "promoter", "scheduler", "reaper",
                                     "promoter_config", "observer"}

(* The builder's fields are what its calls made of them.                   *)
BuilderStory ==
  /\ calls \in Seq(CallNames)
  /\ builder = [selection |-> builder.selection, enabled |-> builder.enabled, promoter |-> builder.promoter]
  /\ builder.selection =
       IF With("direct") THEN IF With("catalog") THEN "mixed" ELSE "direct"
       ELSE IF With("catalog") THEN "catalog" ELSE Missing
  /\ builder.enabled = AllLoops \ {l \in AllLoops : Without(l) \/ (l = "promoter" /\ Without("worker"))}

(* What was read from the environment is in range, and what was prepared   *)
(* passed every check.                                                     *)
ConfigStory ==
  /\ phase = "environment" => ~fromEnv
  /\ phase \in {"environment", "building"} => error = Missing
  /\ fromEnv => Valid(config) /\ (~With("promoter_config") => ValidPromoter(builder.promoter))
  /\ phase \in {"prepared", "started"} =>
       /\ Valid(config)
       /\ "promoter" \in builder.enabled => ValidPromoter(builder.promoter)
       /\ builder.selection # "mixed"
       /\ builder.enabled \cap {"worker", "reaper"} # {} => builder.selection # Missing

StartupInv == BuilderStory /\ ConfigStory /\ LoopsAcceptTheirConfig /\ EnvironmentIsAlwaysAccepted

(* A call is remembered, and nothing else is.                              *)
LEMMA CallsAreRemembered ==
  ASSUME NEW s \in Seq(CallNames), NEW e \in CallNames
  PROVE  /\ Append(s, e) \in Seq(CallNames)
         /\ \A x : Contains(Append(s, e), x) <=> Contains(s, x) \/ x = e
<1>1. Append(s, e) \in Seq(CallNames) /\ Len(Append(s, e)) = Len(s) + 1 /\ Len(s) \in Nat
  OBVIOUS
<1>2. \A i \in 1..Len(s) : Append(s, e)[i] = s[i]
  OBVIOUS
<1>3. Append(s, e)[Len(s) + 1] = e
  OBVIOUS
<1> QED BY <1>1, <1>2, <1>3 DEF Contains

(* The clamps of the environment's values pass the validation.             *)
LEMMA LookupIsValid ==
  ASSUME NEW e
  PROVE  Valid(FromLookup(e)) /\ ValidPromoter(PromoterFromLookup(e, FromLookup(e)))
<1>0. MaxBatch \in Nat /\ MaxBatch >= 1
  BY StartupAssumption
<1>1. ASSUME NEW name, NEW default \in Int, NEW low \in Int
      PROVE  /\ RaisedTo(Parse(e, name, Nat, default), low) \in Int
             /\ RaisedTo(Parse(e, name, Nat, default), low) >= low
             /\ RaisedTo(Parse(e, name, Int, default), low) \in Int
             /\ RaisedTo(Parse(e, name, Int, default), low) >= low
             /\ Clamp(Parse(e, name, Int, default), 1, MaxBatch) \in 1..MaxBatch
  BY <1>0 DEF Parse, Parses, RaisedTo, Clamp
<1>2. /\ FromLookup(e).worker = "id"
      /\ FromLookup(e).poll >= 1 /\ FromLookup(e).poll \in Int
      /\ FromLookup(e).batch \in 1..MaxBatch
      /\ FromLookup(e).ttl >= 10 /\ FromLookup(e).ttl \in Int
      /\ FromLookup(e).concurrency >= 1
      /\ FromLookup(e).reaper >= 1 /\ FromLookup(e).reaper \in Int
      /\ FromLookup(e).schedule >= 1 /\ FromLookup(e).schedule \in Int
      /\ FromLookup(e).retry >= 1000 /\ FromLookup(e).retry \in Int
  BY <1>1 DEF FromLookup
<1>3. Valid(FromLookup(e))
  BY <1>2 DEF Valid, ValidBatch
<1>4. /\ Parses(e, "promoterPoll", Nat) => RaisedTo(e["promoterPoll"], 1) >= 1
      /\ Parses(e, "promoterPoll", Nat) => RaisedTo(e["promoterPoll"], 1) \in Int
      /\ Parses(e, "promoterBatch", Int) => Clamp(e["promoterBatch"], 1, MaxBatch) \in 1..MaxBatch
  BY <1>0 DEF Parses, RaisedTo, Clamp
<1>5. ValidPromoter(PromoterFromLookup(e, FromLookup(e)))
  BY <1>2, <1>4 DEF ValidPromoter, ValidBatch, PromoterFromLookup
<1> QED BY <1>3, <1>5

LEMMA StartupInitInv == StartupInit => StartupInv
<1> SUFFICES ASSUME StartupInit PROVE StartupInv
  OBVIOUS
<1>1. calls = <<>> /\ \A x : ~Contains(calls, x)
  BY DEF StartupInit, Contains
<1>2. BuilderStory
  BY <1>1 DEF StartupInit, BuilderStory, NewBuilder, With, Without, AllLoops
<1>3. ConfigStory /\ EnvironmentIsAlwaysAccepted
  BY DEF StartupInit, ConfigStory, EnvironmentIsAlwaysAccepted
<1>4. LoopsAcceptTheirConfig
  <2>1. DOMAIN begun = {}
    BY DEF StartupInit
  <2> QED BY <2>1 DEF LoopsAcceptTheirConfig
<1> QED BY <1>2, <1>3, <1>4 DEF StartupInv

(* A call of the builder, remembered as name, makes b of it.               *)
LEMMA CallInv ==
  ASSUME StartupInv, NEW name \in CallNames, NEW b, Call(name, b),
         b = [selection |-> b.selection, enabled |-> b.enabled, promoter |-> b.promoter],
         b.selection = CASE name = <<"with", "direct">> -> Selection(builder.selection, "direct")
                         [] name = <<"with", "catalog">> -> Selection(builder.selection, "catalog")
                         [] OTHER -> builder.selection,
         b.enabled = CASE name = <<"disable", "worker">> -> WithoutWorker(builder.enabled)
                       [] name = <<"disable", "promoter">> -> builder.enabled \ {"promoter"}
                       [] name = <<"disable", "scheduler">> -> builder.enabled \ {"scheduler"}
                       [] name = <<"disable", "reaper">> -> builder.enabled \ {"reaper"}
                       [] OTHER -> builder.enabled,
         name = <<"with", "promoter_config">> \/ b.promoter = builder.promoter
  PROVE  StartupInv'
<1>0. /\ builder' = b /\ calls' = Append(calls, name) /\ phase = "building"
      /\ UNCHANGED <<phase, env, fromEnv, config, error, begun>>
  BY DEF Call
<1>1. calls' \in Seq(CallNames) /\ \A x : Contains(calls', x) <=> Contains(calls, x) \/ x = name
  BY <1>0, CallsAreRemembered DEF StartupInv, BuilderStory
<1>2. builder'.selection =
        IF With("direct")' THEN IF With("catalog")' THEN "mixed" ELSE "direct"
        ELSE IF With("catalog")' THEN "catalog" ELSE Missing
  <2>1. With("direct")' <=> With("direct") \/ name = <<"with", "direct">>
    BY <1>1 DEF With
  <2>2. With("catalog")' <=> With("catalog") \/ name = <<"with", "catalog">>
    BY <1>1 DEF With
  <2>3. <<"with", "direct">> # <<"with", "catalog">>
    OBVIOUS
  <2> HIDE DEF With
  <2> QED BY <1>0, <2>1, <2>2, <2>3, StartupAssumption DEF StartupInv, BuilderStory, Selection
<1>3. builder'.enabled =
        AllLoops \ {l \in AllLoops : Without(l)' \/ (l = "promoter" /\ Without("worker")')}
  <2>1. \A l : Without(l)' <=> Without(l) \/ name = <<"disable", l>>
    BY <1>1 DEF Without
  <2>2. builder.enabled = AllLoops \ {l \in AllLoops : Without(l) \/ (l = "promoter" /\ Without("worker"))}
    BY DEF StartupInv, BuilderStory
  <2>3. ASSUME NEW l \in AllLoops
        PROVE  l \in builder'.enabled <=> ~(Without(l)' \/ (l = "promoter" /\ Without("worker")'))
    <3>1. l \in builder.enabled <=> ~(Without(l) \/ (l = "promoter" /\ Without("worker")))
      BY <2>2
    <3>2. l \in builder'.enabled <=>
            l \in builder.enabled /\ name # <<"disable", l>> /\ ~(l = "promoter" /\ name = <<"disable", "worker">>)
      <4>1. /\ name = <<"disable", "worker">> => builder'.enabled = WithoutWorker(builder.enabled)
            /\ name = <<"disable", "promoter">> => builder'.enabled = builder.enabled \ {"promoter"}
            /\ name = <<"disable", "scheduler">> => builder'.enabled = builder.enabled \ {"scheduler"}
            /\ name = <<"disable", "reaper">> => builder'.enabled = builder.enabled \ {"reaper"}
        BY <1>0
      <4>2. (\A m \in AllLoops : name # <<"disable", m>>) => builder'.enabled = builder.enabled
        BY <1>0 DEF AllLoops
      <4>3. \A m \in AllLoops : name = <<"disable", m>> => name[2] = m
        OBVIOUS
      <4> QED BY <4>1, <4>2, <4>3 DEF WithoutWorker, AllLoops
    <3> QED BY <2>1, <3>1, <3>2
  <2>4. builder'.enabled \subseteq AllLoops
    BY <1>0, <2>2 DEF WithoutWorker
  <2> QED BY <2>3, <2>4
<1>4. BuilderStory'
  BY <1>0, <1>1, <1>2, <1>3 DEF BuilderStory, With, Without
<1>5. With("promoter_config")' <=> With("promoter_config") \/ name = <<"with", "promoter_config">>
  BY <1>1 DEF With
<1>6. ConfigStory' /\ LoopsAcceptTheirConfig' /\ EnvironmentIsAlwaysAccepted'
  <2> HIDE DEF With
  <2> QED BY <1>0, <1>5 DEF StartupInv, ConfigStory, LoopsAcceptTheirConfig, EnvironmentIsAlwaysAccepted, Valid,
                             ValidPromoter
<1> QED BY <1>4, <1>6 DEF StartupInv

LEMMA BuilderCallInv ==
  ASSUME StartupInv, BuilderCall
  PROVE  StartupInv'
<1>0. builder = [selection |-> builder.selection, enabled |-> builder.enabled, promoter |-> builder.promoter]
  BY DEF StartupInv, BuilderStory
<1>1. CASE WithRegistry
  <2> DEFINE b == [builder EXCEPT !.selection = Selection(@, "direct")]
  <2>1. b = [selection |-> Selection(builder.selection, "direct"), enabled |-> builder.enabled,
             promoter |-> builder.promoter]
    BY <1>0
  <2> QED BY <1>1, <2>1, CallInv DEF WithRegistry, CallNames
<1>2. CASE WithCatalog
  <2> DEFINE b == [builder EXCEPT !.selection = Selection(@, "catalog")]
  <2>1. b = [selection |-> Selection(builder.selection, "catalog"), enabled |-> builder.enabled,
             promoter |-> builder.promoter]
    BY <1>0
  <2> QED BY <1>2, <2>1, CallInv DEF WithCatalog, CallNames
<1>3. CASE DisableWorker
  <2> DEFINE b == [builder EXCEPT !.enabled = WithoutWorker(@)]
  <2>1. b = [selection |-> builder.selection, enabled |-> WithoutWorker(builder.enabled),
             promoter |-> builder.promoter]
    BY <1>0
  <2> QED BY <1>3, <2>1, CallInv DEF DisableWorker, CallNames
<1>4. CASE DisablePromoter
  <2> DEFINE b == [builder EXCEPT !.enabled = @ \ {"promoter"}]
  <2>1. b = [selection |-> builder.selection, enabled |-> builder.enabled \ {"promoter"},
             promoter |-> builder.promoter]
    BY <1>0
  <2> QED BY <1>4, <2>1, CallInv DEF DisablePromoter, CallNames
<1>5. CASE DisableScheduler
  <2> DEFINE b == [builder EXCEPT !.enabled = @ \ {"scheduler"}]
  <2>1. b = [selection |-> builder.selection, enabled |-> builder.enabled \ {"scheduler"},
             promoter |-> builder.promoter]
    BY <1>0
  <2> QED BY <1>5, <2>1, CallInv DEF DisableScheduler, CallNames
<1>6. CASE DisableReaper
  <2> DEFINE b == [builder EXCEPT !.enabled = @ \ {"reaper"}]
  <2>1. b = [selection |-> builder.selection, enabled |-> builder.enabled \ {"reaper"},
             promoter |-> builder.promoter]
    BY <1>0
  <2> QED BY <1>6, <2>1, CallInv DEF DisableReaper, CallNames
<1>7. ASSUME NEW c \in PromoterConfigs, WithPromoterConfig(c) PROVE StartupInv'
  <2> DEFINE b == [builder EXCEPT !.promoter = c]
  <2>1. b = [selection |-> builder.selection, enabled |-> builder.enabled, promoter |-> c]
    BY <1>0
  <2> QED BY <1>7, <2>1, CallInv DEF WithPromoterConfig, CallNames
<1>8. CASE WithObserver
  BY <1>0, <1>8, CallInv DEF WithObserver, CallNames
<1> QED BY <1>1, <1>2, <1>3, <1>4, <1>5, <1>6, <1>7, <1>8 DEF BuilderCall

LEMMA StartupNextInv == StartupInv /\ [StartupNext]_uvars => StartupInv'
<1> SUFFICES ASSUME StartupInv, [StartupNext]_uvars PROVE StartupInv'
  OBVIOUS
<1> USE DEF StartupInv
<1>1. CASE UNCHANGED uvars
  BY <1>1 DEF uvars, BuilderStory, ConfigStory, LoopsAcceptTheirConfig, EnvironmentIsAlwaysAccepted, With, Without
<1>2. CASE BuilderFromEnv
  <2>1. /\ builder' = [builder EXCEPT !.promoter = PromoterFromLookup(env, FromLookup(env))]
        /\ config' = FromLookup(env) /\ phase' = "building" /\ UNCHANGED <<env, calls, error, begun>>
        /\ phase = "environment" /\ ~fromEnv
    BY <1>2 DEF BuilderFromEnv, ConfigStory
  <2>2. /\ builder'.promoter = PromoterFromLookup(env, FromLookup(env))
        /\ builder'.selection = builder.selection /\ builder'.enabled = builder.enabled
        /\ builder' = [selection |-> builder'.selection, enabled |-> builder'.enabled, promoter |-> builder'.promoter]
    BY <2>1 DEF BuilderStory
  <2>3. Valid(config') /\ ValidPromoter(builder'.promoter)
    BY <2>1, <2>2, LookupIsValid DEF ConfigStory
  <2>4. BuilderStory'
    BY <2>1, <2>2 DEF BuilderStory, With, Without
  <2>5. error # "InvalidConfig"
    BY <2>1, StartupAssumption DEF ConfigStory
  <2> QED BY <2>1, <2>3, <2>4, <2>5 DEF ConfigStory, LoopsAcceptTheirConfig, EnvironmentIsAlwaysAccepted
<1>3. ASSUME NEW c \in Configs, NEW inRuntime \in BOOLEAN, Builder(c, inRuntime) PROVE StartupInv'
  BY <1>3 DEF Builder, BuilderStory, ConfigStory, LoopsAcceptTheirConfig, EnvironmentIsAlwaysAccepted, With, Without
<1>4. CASE BuilderCall
  BY <1>4, BuilderCallInv
<1>5. CASE Prepare
  <2>1. /\ builder' = [builder EXCEPT !.promoter = PromoterConfig] /\ error' = Refusal
        /\ phase' = IF Refusal = Missing THEN "prepared" ELSE "refused"
        /\ UNCHANGED <<env, fromEnv, config, calls, begun>> /\ phase = "building"
    BY <1>5 DEF Prepare
  <2>2. /\ builder'.promoter = PromoterConfig
        /\ builder'.selection = builder.selection /\ builder'.enabled = builder.enabled
        /\ builder' = [selection |-> builder'.selection, enabled |-> builder'.enabled, promoter |-> builder'.promoter]
    BY <2>1 DEF BuilderStory
  <2>3. fromEnv /\ ~With("promoter_config") => Valid(config) /\ ValidPromoter(PromoterConfig)
    BY DEF ConfigStory, PromoterConfig, PromoterFromJobs, Valid, ValidPromoter
  <2>4. BuilderStory'
    BY <2>1, <2>2 DEF BuilderStory, With, Without
  <2>5. ConfigStory'
    BY <2>1, <2>2, <2>3, StartupAssumption DEF ConfigStory, Refusal, With
  <2>6. LoopsAcceptTheirConfig' /\ EnvironmentIsAlwaysAccepted'
    BY <2>1, <2>3, StartupAssumption DEF LoopsAcceptTheirConfig, EnvironmentIsAlwaysAccepted, Refusal, With
  <2> QED BY <2>4, <2>5, <2>6
<1>6. CASE StartLoops
  BY <1>6 DEF StartLoops, BuilderStory, ConfigStory, LoopsAcceptTheirConfig, EnvironmentIsAlwaysAccepted, With, Without
<1>7. ASSUME NEW l \in AllLoops, BeginLoop(l) PROVE StartupInv'
  <2>1. LoopAccepts(l)
    BY <1>7 DEF BeginLoop, LoopAccepts, ConfigStory, Valid, ValidWorkerLoop, ValidSchedulerLoop, ValidReaperLoop,
                AllLoops
  <2>2. LoopsAcceptTheirConfig'
    BY <1>7, <2>1 DEF BeginLoop, LoopsAcceptTheirConfig
  <2> QED BY <1>7, <2>2 DEF BeginLoop, BuilderStory, ConfigStory, EnvironmentIsAlwaysAccepted, With, Without
<1> QED BY <1>1, <1>2, <1>3, <1>4, <1>5, <1>6, <1>7 DEF StartupNext

(* A supervisor, with any environment, configurations and calls: it starts *)
(* exactly the loops its builder left enabled, with handlers of one source *)
(* and a configuration no loop refuses; none read from the environment is  *)
(* refused.                                                                *)
THEOREM StartupCorrect == StartupSpec => []RuntimesStartAsConfigured
<1>1. StartupInv => RuntimesStartAsConfigured
  BY StartupAssumption
     DEF StartupInv, RuntimesStartAsConfigured, BuilderStory, ConfigStory, HandlersComeFromOneSource,
         LoopsAreThoseLeftEnabled
<1>2. StartupSpec => []StartupInv
  BY StartupInitInv, StartupNextInv, PTL DEF StartupSpec
<1> QED BY <1>1, <1>2, PTL

-----------------------------------------------------------------------------
(* Catalogs.                                                               *)

OverridesType == [attempts : Int \cup {None}, enabled : BOOLEAN \cup {None}]

(* What registration lets through.                                         *)
JobStory(j, t) ==
  /\ j = [handler |-> j.handler, overrides |-> j.overrides, delays |-> j.delays]
  /\ HandlerType[j.handler] = t
  /\ j.overrides \in OverridesType
  /\ \A k \in DOMAIN j.delays : j.delays[k] > 0

CatalogStory(c) ==
  /\ c = [defaults |-> c.defaults, jobs |-> c.jobs, schedules |-> c.schedules]
  /\ c.defaults \in DefinitionSettings
  /\ DOMAIN c.jobs \subseteq Types
  /\ \A t \in DOMAIN c.jobs : JobStory(c.jobs[t], t)

CatalogInv ==
  /\ DOMAIN catalog = Processes /\ DOMAIN registry = Processes
  /\ definitions \in [Types -> DefinitionSettings \cup {None}]
  /\ StoredSettingsAreValid
  /\ \A p \in Processes : catalog[p] # None => CatalogStory(catalog[p])
  /\ \A p \in Processes : registry[p] # None => catalog[p] # None /\ registry[p] = catalog[p].jobs

LEMMA WithJobStory ==
  ASSUME NEW c, CatalogStory(c), NEW t \in Types, NEW j, JobStory(j, t)
  PROVE  CatalogStory(WithJob(c, t, j))
<1> DEFINE jobs == [u \in DOMAIN c.jobs \cup {t} |-> IF u = t THEN j ELSE c.jobs[u]]
<1>1. WithJob(c, t, j) = [defaults |-> c.defaults, jobs |-> jobs, schedules |-> c.schedules]
  BY DEF WithJob, CatalogStory
<1>2. DOMAIN jobs \subseteq Types /\ \A u \in DOMAIN jobs : JobStory(jobs[u], u)
  BY DEF CatalogStory
<1> HIDE DEF jobs
<1>3. c.defaults \in DefinitionSettings
  BY DEF CatalogStory
<1> QED BY <1>1, <1>2, <1>3 DEF CatalogStory

LEMMA NewStory == CatalogStory(New)
<1>1. [attempts |-> 3, enabled |-> TRUE] \in DefinitionSettings
  <2>1. 3 \in Int
    OBVIOUS
  <2> QED BY Zenon, <2>1 DEF DefinitionSettings
<1>2. New.jobs = <<>> /\ DOMAIN New.jobs = {}
  BY DEF New
<1> QED BY <1>1, <1>2 DEF CatalogStory, New

LEMMA InsertHandlerStory ==
  ASSUME NEW c, CatalogStory(c), NEW h \in Handlers, InsertHandler(c, HandlerType[h], h) # None
  PROVE  CatalogStory(InsertHandler(c, HandlerType[h], h)) /\ HandlerType[h] \in Types
<1> DEFINE t == HandlerType[h]
           j == [handler |-> h, overrides |-> NoOverrides, delays |-> <<>>]
<1>1. t \in Types /\ InsertHandler(c, t, h) = WithJob(c, t, j)
  BY CatalogAssumption DEF InsertHandler
<1>2. NoOverrides \in OverridesType
  BY DEF NoOverrides, OverridesType
<1>3. JobStory(j, t)
  <2>1. DOMAIN j.delays = {}
    OBVIOUS
  <2> QED BY <1>2, <2>1 DEF JobStory
<1> HIDE DEF j
<1> QED BY <1>1, <1>3, WithJobStory

LEMMA TryHandlerStory ==
  ASSUME NEW c, CatalogStory(c), NEW h \in Handlers
  PROVE  /\ TryHandler(c, h) # None => CatalogStory(TryHandler(c, h)) /\ HandlerType[h] \in Types
         /\ \A t : TryJob(c, t, h) # None => CatalogStory(TryJob(c, t, h)) /\ t \in Types
BY InsertHandlerStory DEF TryHandler, TryJob

LEMMA TryOverridesStory ==
  ASSUME NEW c, c # None => CatalogStory(c), NEW t, NEW o \in OverridesType, TryOverrides(c, t, o) # None
  PROVE  CatalogStory(TryOverrides(c, t, o))
<1> DEFINE j == [c.jobs[t] EXCEPT !.overrides = o]
<1>1. c # None /\ t \in DOMAIN c.jobs /\ TryOverrides(c, t, o) = WithJob(c, t, j) /\ CatalogStory(c)
  BY DEF TryOverrides, Registered
<1>2. t \in Types /\ JobStory(c.jobs[t], t)
  BY <1>1 DEF CatalogStory
<1>3. JobStory(j, t)
  BY <1>2 DEF JobStory
<1> HIDE DEF j
<1> QED BY <1>1, <1>2, <1>3, WithJobStory

LEMMA TryRetryDelayStory ==
  ASSUME NEW c, CatalogStory(c), NEW t, NEW code, NEW ms \in Int, TryRetryDelay(c, t, code, ms) # None
  PROVE  CatalogStory(TryRetryDelay(c, t, code, ms))
<1> DEFINE old == c.jobs[t].delays
           delays == [k \in DOMAIN old \cup {code} |-> IF k = code THEN ms ELSE old[k]]
           j == [c.jobs[t] EXCEPT !.delays = delays]
<1>1. t \in DOMAIN c.jobs /\ ms > 0 /\ TryRetryDelay(c, t, code, ms) = WithJob(c, t, j)
  BY DEF TryRetryDelay, Registered
<1>2. t \in Types /\ JobStory(c.jobs[t], t)
  BY <1>1 DEF CatalogStory
<1>3. \A k \in DOMAIN delays : delays[k] > 0
  BY <1>1, <1>2 DEF JobStory
<1>4. JobStory(j, t)
  <2> HIDE DEF delays
  <2> QED BY <1>2, <1>3 DEF JobStory
<1> HIDE DEF j
<1> QED BY <1>1, <1>2, <1>4, WithJobStory

LEMMA FromSpecsStory ==
  ASSUME NEW hs \in SUBSET Handlers, FromSpecs(Specs, hs) # None
  PROVE  CatalogStory(FromSpecs(Specs, hs))
<1> DEFINE h(t) == CHOOSE g \in hs : HandlerType[g] = t
           jobs == [t \in DOMAIN Specs |-> [handler |-> h(t), overrides |-> Specs[t], delays |-> <<>>]]
<1>1. FromSpecs(Specs, hs) = [New EXCEPT !.jobs = jobs]
      /\ \A t \in DOMAIN Specs : \E g \in hs : HandlerType[g] = t
  BY DEF FromSpecs
<1>2. \A t \in DOMAIN Specs : HandlerType[h(t)] = t
  BY <1>1
<1>3. \A t \in DOMAIN Specs : Specs[t] \in OverridesType
  BY CatalogAssumption DEF OverridesType, DefinitionSettings
<1> HIDE DEF h
<1>4. ASSUME NEW t \in DOMAIN jobs PROVE JobStory(jobs[t], t)
  <2>1. DOMAIN <<>> = {}
    OBVIOUS
  <2> QED BY <1>2, <1>3, <2>1 DEF JobStory
<1>5. DOMAIN jobs \subseteq Types
  BY CatalogAssumption
<1> HIDE DEF jobs
<1>6. FromSpecs(Specs, hs) = [defaults |-> New.defaults, jobs |-> jobs, schedules |-> New.schedules]
  BY <1>1 DEF New
<1>7. New.defaults \in DefinitionSettings
  BY NewStory DEF CatalogStory
<1> QED BY <1>4, <1>5, <1>6, <1>7 DEF CatalogStory

(* Every registration leaves a catalog in order, or none.                  *)
LEMMA RegistrationStory ==
  ASSUME CatalogInv, NEW p \in Processes, Registration(p)
  PROVE  \E c : /\ catalog' = [catalog EXCEPT ![p] = c] /\ (c # None => CatalogStory(c))
                /\ registry[p] = None /\ UNCHANGED <<registry, tables>>
<1>0. Registering(p)
  BY DEF Registration, SetDefaults, RegisterHandler, RegisterJob, RegisterHandlerWith, RegisterJobWith,
         OverrideDefinition, OverrideRetryDelay, RegisterSchedule, BindSpecs, Becomes
<1>1. CatalogStory(catalog[p]) /\ registry[p] = None
  BY <1>0 DEF Registering, CatalogInv
<1>2. ASSUME NEW c, c # None => CatalogStory(c), Becomes(p, c)
      PROVE  \E d : /\ catalog' = [catalog EXCEPT ![p] = d] /\ (d # None => CatalogStory(d))
                    /\ registry[p] = None /\ UNCHANGED <<registry, tables>>
  BY <1>1, <1>2 DEF Becomes
<1>3. ASSUME NEW d \in Defaults, SetDefaults(p, d)
      PROVE  CatalogStory([catalog[p] EXCEPT !.defaults = d])
  <2>1. d \in DefinitionSettings
    BY CatalogAssumption
  <2>2. [catalog[p] EXCEPT !.defaults = d] =
          [defaults |-> d, jobs |-> catalog[p].jobs, schedules |-> catalog[p].schedules]
    BY <1>1 DEF CatalogStory
  <2> QED BY <1>1, <2>1, <2>2 DEF CatalogStory
<1>4. ASSUME NEW s \in Schedules, RegisterSchedule(p, s), TrySchedule(catalog[p], s) # None
      PROVE  CatalogStory(TrySchedule(catalog[p], s))
  <2> DEFINE c == catalog[p]
  <2>1. TrySchedule(c, s) = [c EXCEPT !.schedules = Append(@, s)]
    BY <1>4 DEF TrySchedule
  <2>2. TrySchedule(c, s) = [defaults |-> c.defaults, jobs |-> c.jobs, schedules |-> Append(c.schedules, s)]
    BY <1>1, <2>1 DEF CatalogStory
  <2> QED BY <1>1, <2>2 DEF CatalogStory
<1>5. \A o \in DefinitionOverrides : o \in OverridesType
  BY CatalogAssumption DEF OverridesType
<1>6. CASE \E d \in Defaults : SetDefaults(p, d)
  BY <1>2, <1>3, <1>6 DEF SetDefaults
<1>7. CASE \E h \in Handlers : RegisterHandler(p, h) \/ \E t \in Types \cup {BlankName} : RegisterJob(p, t, h)
  BY <1>1, <1>2, <1>7, TryHandlerStory DEF RegisterHandler, RegisterJob
<1>8. CASE \E h \in Handlers, o \in DefinitionOverrides :
             RegisterHandlerWith(p, h, o) \/ \E t \in Types : RegisterJobWith(p, t, h, o)
  <2>1. PICK h \in Handlers, o \in DefinitionOverrides :
          RegisterHandlerWith(p, h, o) \/ \E t \in Types : RegisterJobWith(p, t, h, o)
    BY <1>8
  <2>2. CASE RegisterHandlerWith(p, h, o)
    BY <1>1, <1>2, <1>5, <2>2, TryHandlerStory, TryOverridesStory DEF RegisterHandlerWith
  <2>3. ASSUME NEW t \in Types, RegisterJobWith(p, t, h, o)
        PROVE  TryOverrides(TryJob(catalog[p], t, h), t, o) # None =>
                 CatalogStory(TryOverrides(TryJob(catalog[p], t, h), t, o))
    BY <1>1, <1>5, TryHandlerStory, TryOverridesStory
  <2> QED BY <1>2, <2>1, <2>2, <2>3 DEF RegisterJobWith
<1>9. CASE \E t \in Types, o \in DefinitionOverrides : OverrideDefinition(p, t, o)
  BY <1>1, <1>2, <1>5, <1>9, TryOverridesStory DEF OverrideDefinition
<1>10. CASE \E t \in Types, code \in FailureCodes, ms \in RetryDelays : OverrideRetryDelay(p, t, code, ms)
  BY <1>1, <1>2, <1>10, TryRetryDelayStory, CatalogAssumption DEF OverrideRetryDelay
<1>11. CASE \E s \in Schedules : RegisterSchedule(p, s)
  BY <1>2, <1>4, <1>11 DEF RegisterSchedule
<1>12. CASE \E hs \in SUBSET Handlers : BindSpecs(p, hs)
  BY <1>1, <1>12, FromSpecsStory DEF BindSpecs
<1> QED BY <1>6, <1>7, <1>8, <1>9, <1>10, <1>11, <1>12 DEF Registration

(* The settings a registered type has are in range for its table.          *)
LEMMA EffectiveTyped ==
  ASSUME NEW c, CatalogStory(c), NEW t \in DOMAIN c.jobs
  PROVE  Effective(c, t) \in DefinitionSettings
<1>1. c.jobs[t].overrides \in OverridesType /\ c.defaults \in DefinitionSettings
  BY DEF CatalogStory, JobStory
<1> DEFINE o == c.jobs[t].overrides
           d == c.defaults
           attempts == IF o.attempts = None THEN d.attempts ELSE o.attempts
           enabled == IF o.enabled = None THEN d.enabled ELSE o.enabled
<1>2. attempts \in Int /\ enabled \in BOOLEAN
  BY <1>1 DEF OverridesType, DefinitionSettings
<1>3. Effective(c, t) = [attempts |-> attempts, enabled |-> enabled]
  BY DEF Effective, ApplyTo
<1> HIDE DEF attempts, enabled
<1>4. [attempts |-> attempts, enabled |-> enabled] \in DefinitionSettings
  BY Zenon, <1>2 DEF DefinitionSettings
<1> QED BY <1>3, <1>4

LEMMA SettingsUpdates ==
  ASSUME NEW s \in DefinitionSettings, NEW b \in BOOLEAN
  PROVE  /\ [s EXCEPT !.enabled = b] \in DefinitionSettings
         /\ [s EXCEPT !.enabled = b].attempts = s.attempts
         /\ [s EXCEPT !.enabled = b].enabled = b
BY DEF DefinitionSettings

(* What a synchronisation writes for one type.                             *)
LEMMA SyncedRow ==
  ASSUME CatalogInv, NEW c, CatalogStory(c), NEW scope, NEW exact \in BOOLEAN, NEW t \in Types
  PROVE  LET new == Synced(c, scope, exact)[t] IN
         /\ new \in DefinitionSettings \cup {None}
         /\ t \in DOMAIN c.jobs =>
              /\ new \in DefinitionSettings /\ new.attempts = Effective(c, t).attempts
              /\ IF ~exact /\ Effective(c, t).enabled /\ Stored(t) THEN new.enabled = definitions[t].enabled
                 ELSE new.enabled = Effective(c, t).enabled
         /\ t \notin DOMAIN c.jobs /\ t \in scope /\ EnabledRow(t) =>
              new \in DefinitionSettings /\ ~new.enabled /\ new.attempts = definitions[t].attempts
         /\ t \notin DOMAIN c.jobs /\ ~(t \in scope /\ EnabledRow(t)) => new = definitions[t]
<1>1. definitions[t] \in DefinitionSettings \cup {None}
  BY DEF CatalogInv
<1>2. Stored(t) => definitions[t] \in DefinitionSettings /\ definitions[t].enabled \in BOOLEAN
  BY <1>1 DEF Stored, DefinitionSettings
<1>3. CASE t \in DOMAIN c.jobs
  <2>1. Effective(c, t) \in DefinitionSettings
    BY <1>3, EffectiveTyped
  <2>2. Synced(c, scope, exact)[t] = Upserted(c, t, exact)
    BY <1>3 DEF Synced, Registered
  <2>3. CASE ~exact /\ Effective(c, t).enabled /\ Stored(t)
    <3>1. Upserted(c, t, exact) = [Effective(c, t) EXCEPT !.enabled = definitions[t].enabled]
      BY <2>3 DEF Upserted
    <3> QED BY <1>2, <1>3, <2>1, <2>2, <2>3, <3>1, SettingsUpdates
  <2>4. CASE ~(~exact /\ Effective(c, t).enabled /\ Stored(t))
    <3>1. Upserted(c, t, exact) = Effective(c, t)
      BY <2>4 DEF Upserted
    <3> QED BY <1>3, <2>1, <2>2, <2>4, <3>1
  <2> QED BY <2>3, <2>4
<1>4. CASE t \notin DOMAIN c.jobs /\ t \in scope /\ EnabledRow(t)
  <2>1. Synced(c, scope, exact)[t] = [definitions[t] EXCEPT !.enabled = FALSE]
    BY <1>4 DEF Synced, Registered, AbsentTypes
  <2>2. FALSE \in BOOLEAN /\ Stored(t)
    BY <1>4 DEF EnabledRow
  <2> QED BY <1>2, <1>4, <2>1, <2>2, SettingsUpdates
<1>5. CASE t \notin DOMAIN c.jobs /\ ~(t \in scope /\ EnabledRow(t))
  BY <1>1, <1>5 DEF Synced, Registered, AbsentTypes
<1> QED BY <1>3, <1>4, <1>5

(* A synchronisation leaves valid rows, and its process or none.           *)
LEMMA SyncDefinitionsInv ==
  ASSUME CatalogInv, NEW p \in Processes, NEW scope, NEW exact \in BOOLEAN, SyncDefinitions(p, scope, exact)
  PROVE  CatalogInv'
<1>0. catalog[p] # None /\ registry[p] = None /\ CatalogStory(catalog[p])
  BY DEF SyncDefinitions, Registering, CatalogInv
<1>1. UNCHANGED registry /\ (UNCHANGED catalog \/ catalog' = [catalog EXCEPT ![p] = None])
  BY DEF SyncDefinitions, Ends
<1>2. CASE SyncAccepted(catalog[p], scope, exact)
  <2> DEFINE c == catalog[p]
             new == Synced(c, scope, exact)
  <2>1. definitions' = new /\ \A t \in DOMAIN c.jobs : ValidSettings(Effective(c, t))
    BY <1>2 DEF SyncDefinitions, SyncAccepted, ValidatedDefaults
  <2>2. new = [t \in Types |-> new[t]]
    BY DEF Synced
  <2>3. ASSUME NEW t \in Types
        PROVE  new[t] \in DefinitionSettings \cup {None} /\ (new[t] # None => new[t].attempts > 0)
    <3>1. definitions[t] # None => definitions[t].attempts > 0
      BY DEF CatalogInv, StoredSettingsAreValid, Stored
    <3> QED BY <1>0, <2>1, <3>1, SyncedRow DEF ValidSettings, EnabledRow, Stored
  <2> HIDE DEF new
  <2>4. definitions' \in [Types -> DefinitionSettings \cup {None}]
    BY <2>1, <2>2, <2>3
  <2>5. StoredSettingsAreValid'
    BY <2>1, <2>3 DEF StoredSettingsAreValid, Stored
  <2> QED BY <1>0, <1>1, <2>4, <2>5 DEF CatalogInv
<1>3. CASE ~SyncAccepted(catalog[p], scope, exact)
  <2>1. UNCHANGED definitions
    BY <1>3 DEF SyncDefinitions
  <2> QED BY <1>0, <1>1, <2>1 DEF CatalogInv, StoredSettingsAreValid, Stored
<1> QED BY <1>2, <1>3

LEMMA CatalogInitInv == CatalogInit => CatalogInv
<1> SUFFICES ASSUME CatalogInit PROVE CatalogInv
  OBVIOUS
<1> QED BY NewStory DEF CatalogInit, CatalogInv, StoredSettingsAreValid, Stored

LEMMA OperatorInv ==
  ASSUME CatalogInv, Operator
  PROVE  CatalogInv'
<1>1. ASSUME NEW t \in Types, NEW s \in DefinitionSettings, s.attempts > 0,
             definitions' = [definitions EXCEPT ![t] = s], UNCHANGED <<catalog, registry>>
      PROVE  CatalogInv'
  BY <1>1 DEF CatalogInv, StoredSettingsAreValid, Stored
<1>2. ASSUME NEW t \in Types, Pause(t) \/ Resume(t) PROVE CatalogInv'
  <2>1. Stored(t) /\ definitions[t] \in DefinitionSettings /\ definitions[t].attempts > 0
    BY <1>2 DEF Pause, Resume, EnabledRow, Stored, CatalogInv, StoredSettingsAreValid
  <2>2. \E b \in BOOLEAN : definitions' = [definitions EXCEPT ![t] = [definitions[t] EXCEPT !.enabled = b]]
    <3>1. CASE Pause(t)
      BY Zenon, <3>1 DEF Pause
    <3>2. CASE Resume(t)
      BY Zenon, <3>2 DEF Resume
    <3> QED BY <1>2, <3>1, <3>2
  <2> QED BY <1>1, <1>2, <2>1, <2>2, SettingsUpdates DEF Pause, Resume
<1>3. ASSUME NEW t \in Types, NEW s \in Defaults, UpsertDefinition(t, s) \/ InsertIfMissing(t, s) PROVE CatalogInv'
  BY <1>1, <1>3, CatalogAssumption DEF UpsertDefinition, InsertIfMissing, ValidSettings
<1>4. ASSUME NEW n \in DOMAIN schedules, SwitchSchedule(n) PROVE CatalogInv'
  BY <1>4 DEF SwitchSchedule, CatalogInv, StoredSettingsAreValid, Stored
<1> QED BY <1>2, <1>3, <1>4 DEF Operator

LEMMA CatalogNextInv == CatalogInv /\ [CatalogNext]_cvars => CatalogInv'
<1> SUFFICES ASSUME CatalogInv, [CatalogNext]_cvars PROVE CatalogInv'
  OBVIOUS
<1>1. ASSUME NEW p \in Processes, Registration(p) PROVE CatalogInv'
  BY <1>1, RegistrationStory DEF CatalogInv, tables, StoredSettingsAreValid, Stored
<1>2. ASSUME NEW p \in Processes, Synchronisation(p) PROVE CatalogInv'
  <2>1. ASSUME NEW specs, NEW scope, NEW exact, SyncSchedulesOf(p, specs, scope, exact) PROVE CatalogInv'
    <3>1. /\ UNCHANGED <<registry, definitions>> /\ registry[p] = None
          /\ UNCHANGED catalog \/ catalog' = [catalog EXCEPT ![p] = None]
      BY <2>1 DEF SyncSchedulesOf, Registering, Ends
    <3> QED BY <3>1 DEF CatalogInv, StoredSettingsAreValid, Stored
  <2>2. CASE SyncDefinitions(p, {}, FALSE) \/ \E scope \in Scopes : SyncDefinitions(p, scope, TRUE)
    BY <2>2, SyncDefinitionsInv
  <2> QED BY <1>2, <2>1, <2>2 DEF Synchronisation, SyncSchedules, SyncSchedulesExact, SyncSchedulesWith
<1>3. ASSUME NEW p \in Processes, Run(p) PROVE CatalogInv'
  BY <1>3 DEF Run, Registering, ToRegistry, tables, CatalogInv, StoredSettingsAreValid, Stored
<1>4. ASSUME NEW p \in Processes, Restart(p) PROVE CatalogInv'
  BY <1>4, NewStory DEF Restart, tables, CatalogInv, StoredSettingsAreValid, Stored
<1>5. CASE \/ \E p \in Processes : StoreRequest(p)
           \/ \E p \in Processes, types \in (SUBSET Types) \ {{}} : BuildRequest(p, types)
           \/ \E p \in Processes, t \in DOMAIN Specs : SubmitSpec(p, t)
           \/ \E p \in Processes, t \in Types : RunJob(p, t)
           \/ UNCHANGED cvars
  <2>1. UNCHANGED <<catalog, registry, definitions>>
    BY <1>5 DEF StoreRequest, BuildRequest, SubmitSpec, RunJob, tables, cvars
  <2> QED BY <2>1 DEF CatalogInv, StoredSettingsAreValid, Stored
<1> QED BY <1>1, <1>2, <1>3, <1>4, <1>5, OperatorInv DEF CatalogNext

LEMMA CatalogSafety ==
  ASSUME CatalogInv
  PROVE  StoredSettingsAreValid /\ RetryPoliciesAreUsable /\ QueuedWorkFindsAHandler
<1>1. RetryPoliciesAreUsable
  BY DEF CatalogInv, RetryPoliciesAreUsable, CatalogStory, JobStory
<1>2. QueuedWorkFindsAHandler
  <2> SUFFICES ASSUME NEW p \in Processes, registry[p] # None, NEW t \in queue, Registered(catalog[p], t)
               PROVE  t \in DOMAIN registry[p] /\ HandlerType[registry[p][t].handler] = t
    BY DEF QueuedWorkFindsAHandler
  <2>1. registry[p] = catalog[p].jobs /\ CatalogStory(catalog[p]) /\ t \in DOMAIN catalog[p].jobs
    BY DEF CatalogInv, Registered
  <2> QED BY <2>1 DEF CatalogStory, JobStory
<1> QED BY <1>1, <1>2 DEF CatalogInv

(* An additive synchronisation does not resume what an operator paused.    *)
LEMMA PausesStay ==
  ASSUME CatalogInv, NEW p \in Processes, NEW exact \in BOOLEAN, ~exact, SyncDefinitions(p, {}, exact),
         NEW t \in Types, Stored(t), ~EnabledRow(t)
  PROVE  ~definitions'[t].enabled
<1>0. CatalogStory(catalog[p])
  BY DEF SyncDefinitions, Registering, CatalogInv
<1>1. ~definitions[t].enabled
  BY DEF EnabledRow
<1>2. CASE SyncAccepted(catalog[p], {}, exact)
  <2> DEFINE c == catalog[p]
             new == Synced(c, {}, exact)[t]
  <2>1. definitions'[t] = new
    BY <1>2 DEF SyncDefinitions
  <2>2. /\ t \in DOMAIN c.jobs => IF Effective(c, t).enabled THEN new.enabled = definitions[t].enabled
                                  ELSE new.enabled = Effective(c, t).enabled
        /\ t \notin DOMAIN c.jobs => new = definitions[t]
    BY <1>0, SyncedRow
  <2> QED BY <1>1, <2>1, <2>2
<1>3. CASE ~SyncAccepted(catalog[p], {}, exact)
  BY <1>1, <1>3 DEF SyncDefinitions
<1> QED BY <1>2, <1>3

(* The report of a synchronisation is the set of rows it turned off.       *)
LEMMA ReportIsExact ==
  ASSUME CatalogInv, NEW p \in Processes, NEW scope \in SUBSET Types, NEW exact \in BOOLEAN,
         SyncDefinitions(p, scope, exact), SyncAccepted(catalog[p], scope, exact)
  PROVE  report' = {t \in Types : definitions'[t] # None /\ ~definitions'[t].enabled
                                    /\ (~Stored(t) \/ EnabledRow(t))}
<1> DEFINE c == catalog[p]
           new == Synced(c, scope, exact)
<1>0. CatalogStory(c)
  BY DEF SyncDefinitions, Registering, CatalogInv
<1>1. definitions' = new /\ report' = Report(c, scope)
  BY DEF SyncDefinitions
<1>2. Report(c, scope) \subseteq Types
  BY <1>0 DEF Report, DisabledTypes, AbsentTypes, CatalogStory
<1>3. ASSUME NEW t \in Types
      PROVE  t \in Report(c, scope) <=> new[t] # None /\ ~new[t].enabled /\ (~Stored(t) \/ EnabledRow(t))
  <2>1. t \in Report(c, scope) <=>
          \/ t \in DOMAIN c.jobs /\ ~Effective(c, t).enabled /\ (~Stored(t) \/ EnabledRow(t))
          \/ t \in scope /\ t \notin DOMAIN c.jobs /\ EnabledRow(t)
    BY DEF Report, DisabledTypes, AbsentTypes
  <2>2. None \notin DefinitionSettings
    BY CatalogAssumption
  <2>3. /\ t \in DOMAIN c.jobs =>
             /\ new[t] \in DefinitionSettings
             /\ IF ~exact /\ Effective(c, t).enabled /\ Stored(t) THEN new[t].enabled = definitions[t].enabled
                ELSE new[t].enabled = Effective(c, t).enabled
        /\ t \notin DOMAIN c.jobs /\ t \in scope /\ EnabledRow(t) => new[t] \in DefinitionSettings /\ ~new[t].enabled
        /\ t \notin DOMAIN c.jobs /\ ~(t \in scope /\ EnabledRow(t)) => new[t] = definitions[t]
    BY <1>0, SyncedRow
  <2> HIDE DEF new, c
  <2> QED BY <2>1, <2>2, <2>3 DEF Stored, EnabledRow
<1> HIDE DEF new, c
<1> QED BY <1>1, <1>2, <1>3

(* A schedule that a synchronisation of the catalog writes is of a type    *)
(* that is enabled in it.                                                  *)
LEMMA StaleSchedulesStayOut ==
  ASSUME NEW p \in Processes, SyncSchedules(p) \/ SyncSchedulesExact(p),
         NEW n \in DOMAIN schedules, schedules'[n] # schedules[n]
  PROVE  EnabledType(catalog[p], schedules'[n].type)
<1> DEFINE c == catalog[p]
           specs == Listed(c.schedules)
<1>1. PICK scope, exact : SyncSchedulesOf(p, specs, scope, exact) /\ (exact => scope = NamesOf(specs))
  BY DEF SyncSchedules, SyncSchedulesExact
<1> HIDE DEF specs
<1>2. Entries(c, specs) /\ schedules' = SyncedSchedules(specs, scope, exact)
  BY <1>1 DEF SyncSchedulesOf, SchedulesAccepted
<1>3. n \in NamesOf(specs)
  BY <1>1, <1>2 DEF SyncedSchedules
<1> DEFINE s == CHOOSE x \in specs : x.name = n
<1>4. s \in specs
  BY <1>3 DEF NamesOf
<1>5. schedules'[n] = [type |-> s.type, active |-> s.active]
  BY <1>2, <1>3 DEF SyncedSchedules
<1> HIDE DEF s
<1> QED BY <1>2, <1>4, <1>5 DEF Entries

(* Catalogs, with any processes, types, handlers, settings and scopes:     *)
(* settings and retry policies are in range, queued work of a running      *)
(* process finds its handler, operators' pauses survive restarts, reports  *)
(* name what a sync turned off, and stale schedules are not stored.        *)
THEOREM CatalogCorrect == CatalogSpec => CatalogsAreSound
<1>1. CatalogSpec => []CatalogInv
  BY CatalogInitInv, CatalogNextInv, PTL DEF CatalogSpec
<1>2. CatalogInv => StoredSettingsAreValid /\ RetryPoliciesAreUsable /\ QueuedWorkFindsAHandler
  BY CatalogSafety
<1>3. CatalogInv /\ [CatalogNext]_cvars =>
        [(\E t \in Types : Stored(t) /\ ~EnabledRow(t) /\ definitions'[t].enabled) =>
           ~ \E p \in Processes : SyncDefinitions(p, {}, FALSE)]_cvars
  <2>1. FALSE \in BOOLEAN
    OBVIOUS
  <2> QED BY Zenon, <2>1, PausesStay
<1>4. CatalogInv /\ [CatalogNext]_cvars =>
        [\/ report' = {t \in Types : definitions'[t] # None /\ ~definitions'[t].enabled
                                       /\ (~Stored(t) \/ EnabledRow(t))}
         \/ ~ \E p \in Processes, scope \in Scopes \cup {{}} :
               SyncDefinitions(p, scope, scope # {}) /\ SyncAccepted(catalog[p], scope, scope # {})]_cvars
  <2> SUFFICES ASSUME CatalogInv, NEW p \in Processes, NEW scope \in Scopes \cup {{}},
                      SyncDefinitions(p, scope, scope # {}), SyncAccepted(catalog[p], scope, scope # {})
               PROVE  report' = {t \in Types : definitions'[t] # None /\ ~definitions'[t].enabled
                                                 /\ (~Stored(t) \/ EnabledRow(t))}
    BY Zenon
  <2>1. scope \in SUBSET Types
    BY CatalogAssumption
  <2>2. (scope # {}) \in BOOLEAN
    BY Zenon
  <2> QED BY Zenon, <2>1, <2>2, ReportIsExact
<1>5. CatalogInv /\ [CatalogNext]_cvars =>
        [\A n \in DOMAIN schedules : schedules'[n] # schedules[n] =>
           \A p \in Processes : SyncSchedules(p) \/ SyncSchedulesExact(p) =>
             EnabledType(catalog[p], schedules'[n].type)]_cvars
  BY StaleSchedulesStayOut
<1> QED BY <1>1, <1>2, <1>3, <1>4, <1>5, PTL
        DEF CatalogSpec, CatalogsAreSound, PausesSurviveRestarts, ReportTellsWhatChanged, StaleSchedulesAreNotStored

-----------------------------------------------------------------------------
(* The timing of retries.                                                  *)

(* Rounding up to a unit loses less than one unit.                         *)
LEMMA CeilingBounds ==
  ASSUME NEW n \in Nat, NEW u \in Nat \ {0}
  PROVE  /\ Ceiling(n, u) \in Nat
         /\ Ceiling(n, u) * u \in Nat
         /\ n <= Ceiling(n, u) * u /\ Ceiling(n, u) * u < n + u
<1> DEFINE q == (n + u - 1) \div u
<1>1. q \in Nat /\ u * q <= n + u - 1 /\ n + u - 1 < u * q + u
  OBVIOUS
<1>2. q * u = u * q /\ q * u \in Nat
  BY <1>1
<1> HIDE DEF q
<1>3. Ceiling(n, u) = q
  BY DEF Ceiling, q
<1> QED BY <1>1, <1>2, <1>3

(* A product with a bounded factor is bounded.                             *)
LEMMA ProductsGrow ==
  ASSUME NEW a \in Nat, NEW b \in Nat, NEW u \in Nat, a <= b
  PROVE  a * u \in Nat /\ b * u \in Nat /\ a * u <= b * u
<1>1. PICK d \in Nat : b = a + d
  <2> WITNESS b - a \in Nat
  <2> QED OBVIOUS
<1>2. d * u \in Nat /\ a * u \in Nat
  OBVIOUS
<1>3. b * u = a * u + d * u
  BY <1>1
<1> QED BY <1>2, <1>3

LEMMA SomeAttempts == MaxAttempts \in Nat \ {0}
  BY RetryTimingAssumption

(* A set of numbers has a least member.                                    *)
LEMMA LeastNumber ==
  ASSUME NEW S \in SUBSET Nat, S # {}
  PROVE  \E x \in S : \A y \in S : x <= y
<1> DEFINE R == OpToRel(<, Nat)
<1>1. IsWellFoundedOn(R, Nat)
  BY NatLessThanWellFounded
<1>2. \A x, y \in Nat : x < y => <<x, y>> \in R
  BY DEF OpToRel
<1> HIDE DEF R
<1>3. PICK x \in S : \A y \in S : ~(<<y, x>> \in R)
  BY <1>1, WFMin
<1>4. ASSUME NEW y \in S PROVE x <= y
  <2>1. x \in Nat /\ y \in Nat
    OBVIOUS
  <2>2. ~(y < x)
    BY <1>2, <1>3, <2>1, Zenon
  <2> QED BY <2>1, <2>2
<1> QED BY <1>4

(* The powers up to n, as the recursion defines them.                      *)
Powers(n, f) == f = [k \in 0 .. n |-> IF k = 0 THEN 1 ELSE 2 * f[k - 1]]

LEMMA PowersExist ==
  ASSUME NEW n \in Nat
  PROVE  \E f : Powers(n, f)
<1> DEFINE Bad == {k \in Nat : ~\E f : Powers(k, f)}
<1> SUFFICES ASSUME Bad # {} PROVE FALSE
  OBVIOUS
<1>1. PICK k \in Bad : \A h \in Bad : k <= h
  BY LeastNumber
<1>2. k \in Nat /\ ~\E f : Powers(k, f)
  OBVIOUS
<1>3. CASE k = 0
  <2>1. PICK f : f = [j \in 0 .. 0 |-> 1]
    OBVIOUS
  <2>2. f = [j \in 0 .. 0 |-> IF j = 0 THEN 1 ELSE 2 * f[j - 1]]
    BY <2>1
  <2> QED BY <1>2, <1>3, <2>2 DEF Powers
<1>4. CASE k # 0
  <2>1. k - 1 \in Nat /\ k - 1 \notin Bad
    BY <1>1, <1>2, <1>4
  <2>2. PICK g : Powers(k - 1, g)
    BY <2>1
  <2>3. PICK f : f = [j \in 0 .. k |-> IF j < k THEN g[j] ELSE 2 * g[k - 1]]
    OBVIOUS
  <2>4. ASSUME NEW j \in 0 .. k
        PROVE  f[j] = IF j = 0 THEN 1 ELSE 2 * f[j - 1]
    <3>1. \A i \in 0 .. (k - 1) : g[i] = IF i = 0 THEN 1 ELSE 2 * g[i - 1]
      BY <2>2 DEF Powers
    <3>2. \A i \in 0 .. (k - 1) : f[i] = g[i]
      BY <1>2, <2>3
    <3>3. CASE j < k
      BY <1>2, <3>1, <3>2, <3>3
    <3>4. CASE j = k
      <4>1. f[k] = 2 * g[k - 1] /\ f[k - 1] = g[k - 1]
        BY <1>2, <1>4, <2>3
      <4> QED BY <1>4, <3>4, <4>1
    <3> QED BY <1>2, <3>3, <3>4
  <2>5. Powers(k, f)
    BY <2>3, <2>4 DEF Powers
  <2> QED BY <1>2, <2>5
<1> QED BY <1>3, <1>4

LEMMA PowerOfTwoIs ==
  /\ PowerOfTwo[0] = 1
  /\ \A k \in 1 .. MaxExp : PowerOfTwo[k] = 2 * PowerOfTwo[k - 1]
<1>1. MaxExp \in Nat
  BY RetryTimingAssumption
<1>2. Powers(MaxExp, PowerOfTwo)
  BY <1>1, PowersExist DEF Powers, PowerOfTwo
<1> QED BY <1>1, <1>2 DEF Powers

(* A higher power is larger.                                               *)
LEMMA PowersGrow ==
  ASSUME NEW k \in 0 .. MaxExp
  PROVE  PowerOfTwo[k] \in Nat /\ \A h \in 0 .. k : PowerOfTwo[h] <= PowerOfTwo[k]
<1> DEFINE Good(j) == PowerOfTwo[j] \in Nat /\ \A h \in 0 .. j : PowerOfTwo[h] <= PowerOfTwo[j]
           Bad == {j \in 0 .. MaxExp : ~Good(j)}
<1>0. MaxExp \in Nat
  BY RetryTimingAssumption
<1> SUFFICES ASSUME Bad # {} PROVE FALSE
  OBVIOUS
<1>1. Bad \in SUBSET Nat
  BY <1>0
<1>2. PICK j \in Bad : \A h \in Bad : j <= h
  BY <1>1, LeastNumber
<1>3. j \in 0 .. MaxExp /\ ~Good(j)
  OBVIOUS
<1>4. CASE j = 0
  BY <1>3, <1>4, PowerOfTwoIs
<1>5. CASE j # 0
  <2>1. j - 1 \in 0 .. MaxExp /\ j - 1 \notin Bad /\ j \in 1 .. MaxExp
    BY <1>0, <1>2, <1>3, <1>5
  <2>2. PowerOfTwo[j - 1] \in Nat /\ \A h \in 0 .. (j - 1) : PowerOfTwo[h] <= PowerOfTwo[j - 1]
    BY <2>1
  <2>3. PowerOfTwo[j] = 2 * PowerOfTwo[j - 1]
    BY <2>1, PowerOfTwoIs
  <2>4. PICK p : p = PowerOfTwo[j - 1]
    OBVIOUS
  <2>5. p \in Nat /\ PowerOfTwo[j] = 2 * p /\ \A h \in 0 .. (j - 1) : PowerOfTwo[h] <= p
    BY <2>2, <2>3, <2>4
  <2>6. PowerOfTwo[j] \in Nat /\ p <= PowerOfTwo[j]
    BY <2>5
  <2>7. ASSUME NEW h \in 0 .. j PROVE PowerOfTwo[h] <= PowerOfTwo[j]
    <3>1. CASE h = j
      BY <2>6, <3>1
    <3>2. CASE h # j
      <4>1. h \in 0 .. (j - 1) /\ h \in 0 .. MaxExp /\ h \notin Bad
        BY <1>0, <1>2, <1>3, <2>7, <3>2
      <4>2. PowerOfTwo[h] \in Nat /\ PowerOfTwo[h] <= p
        BY <2>5, <4>1
      <4> QED BY <2>5, <2>6, <4>2
    <3> QED BY <3>1, <3>2
  <2> QED BY <1>3, <2>6, <2>7
<1> QED BY <1>4, <1>5

(* The policy's delay is a positive number of milliseconds that fits.      *)
LEMMA PolicyDelayFits ==
  ASSUME NEW a \in Nat \ {0}, jitter \in Jitters, NEW f \in Failures,
         f.by = "runtime", IsRetryable(f.kind)
  PROVE  PolicyDelay(a, f) \in 1 .. MaxMs
<1>1. f.code \in DOMAIN Overrides => Overrides[f.code] \in 1 .. MaxMs
  BY RetryTimingAssumption
<1>2. ComputeRetryDelayMs(a) \in 1 .. MaxMs
  <2> DEFINE k == AtMost(AtLeast(a, 1), MaxExp)
             raw == BaseMs * PowerOfTwo[k]
  <2>1. k \in 0 .. MaxExp
    BY RetryTimingAssumption DEF AtMost, AtLeast
  <2> HIDE DEF k
  <2>2. raw \in Int
    <3>1. PowerOfTwo[k] \in Nat
      BY <2>1, PowersGrow
    <3> QED BY <3>1, RetryTimingAssumption
  <2>3. ComputeRetryDelayMs(a) = AtLeast(AtMost(raw, CapMs) + jitter, FloorMs)
    BY DEF ComputeRetryDelayMs, raw, k
  <2> HIDE DEF raw
  <2>4. CapMs \in Int /\ jitter \in Int /\ CapMs + jitter <= MaxMs /\ FloorMs \in 1 .. MaxMs /\ MaxMs \in Nat
    BY RetryTimingAssumption
  <2> QED BY <2>2, <2>3, <2>4 DEF AtMost, AtLeast
<1> QED BY <1>1, <1>2 DEF PolicyDelay

LEMMA TimingShape ==
  ASSUME NEW t \in Timings
  PROVE  t.ns \in Nat /\ t.type \in {"none", "after", "at"} /\ (t.type = "none" => t.ns = 0)
<1>1. Delays \subseteq Nat /\ Instants \subseteq Nat
  BY RetryTimingAssumption
<1>2. CASE t = [type |-> "none", ns |-> 0]
  BY <1>2
<1>3. CASE t \in [type : {"after"}, ns : Delays]
  BY <1>1, <1>3
<1>4. CASE t \in [type : {"at"}, ns : Instants]
  BY <1>1, <1>4
<1> QED BY <1>2, <1>3, <1>4 DEF Timings

(* What a completion writes when the two bounds can be reconciled.         *)
LEMMA ResolvedTimingHolds ==
  ASSUME NEW base \in Nat, NEW delay \in Int, NEW t \in Timings,
         ResolveRetryTiming(base, delay, t) # Invalid
  PROVE  LET r == ResolveRetryTiming(base, delay, t)
             policy == base + delay * Milli
             bound == IF t.type = "after" THEN base + t.ns ELSE IF t.type = "at" THEN t.ns ELSE 0
         IN  /\ r = [source |-> r.source, delay |-> delay, requested |-> r.requested,
                     effective |-> r.effective]
             /\ r.effective \in Nat /\ r.requested \in Int
             /\ r.effective >= policy /\ r.effective >= bound
             /\ r.effective = policy \/ r.effective < bound + (IF t.type = "after" THEN Milli ELSE Micro)
             /\ r.source \in {"POLICY", "HANDLER_NOT_BEFORE"}
             /\ (r.source = "HANDLER_NOT_BEFORE") <=> (r.requested > policy)
<1> DEFINE r == ResolveRetryTiming(base, delay, t)
           policy == base + delay * Milli
           ms == Ceiling(t.ns, Milli)
           at == Ceiling(t.ns, Micro) * Micro
           bound == IF t.type = "after" THEN base + t.ns ELSE IF t.type = "at" THEN t.ns ELSE 0
<1> SUFFICES
      /\ r = [source |-> r.source, delay |-> delay, requested |-> r.requested, effective |-> r.effective]
      /\ r.effective \in Nat /\ r.requested \in Int
      /\ r.effective >= policy /\ r.effective >= bound
      /\ r.effective = policy \/ r.effective < bound + (IF t.type = "after" THEN Milli ELSE Micro)
      /\ r.source \in {"POLICY", "HANDLER_NOT_BEFORE"}
      /\ (r.source = "HANDLER_NOT_BEFORE") <=> (r.requested > policy)
  OBVIOUS
<1>1. Milli \in Nat \ {0} /\ Micro \in Nat \ {0}
  BY RetryTimingAssumption
<1>2. t.ns \in Nat /\ t.type \in {"none", "after", "at"} /\ (t.type = "none" => t.ns = 0)
  BY TimingShape
<1>3. delay >= 1 /\ delay \in Nat /\ delay # NoDelay
  BY DEF ResolveRetryTiming, NoDelay
<1>4. policy \in Nat
  BY <1>1, <1>3
<1>5. /\ ms \in Nat /\ ms * Milli \in Nat /\ t.ns <= ms * Milli /\ ms * Milli < t.ns + Milli
      /\ at \in Nat /\ t.ns <= at /\ at < t.ns + Micro
  BY <1>1, <1>2, CeilingBounds
<1> HIDE DEF ms, at
<1>6. \/ (t.type # "after" \/ t.ns = 0) /\ t.type # "at" /\ r = Resolved(delay, policy, NoTime)
      \/ t.type = "after" /\ r = Resolved(delay, policy, base + ms * Milli)
      \/ t.type = "at" /\ r = Resolved(delay, policy, at)
      \/ t.type = "at" /\ t.ns <= policy /\ r = Resolved(delay, policy, NoTime)
  BY <1>2 DEF ResolveRetryTiming, RetryDelayMilliseconds, RoundRetryAt, ms, at
<1>p. policy >= base
  BY <1>1, <1>3
<1> HIDE DEF r, policy
<1>7. ASSUME NEW q \in Int PROVE
        LET x == Resolved(delay, policy, q)
        IN  /\ x = [source |-> x.source, delay |-> delay, requested |-> q, effective |-> x.effective]
            /\ x.effective \in Nat /\ x.effective >= policy /\ x.effective >= q
            /\ x.effective = policy \/ x.effective = q
            /\ x.source \in {"POLICY", "HANDLER_NOT_BEFORE"} /\ x.requested = q
            /\ (x.source = "HANDLER_NOT_BEFORE") <=> (q > policy)
  BY <1>4 DEF Resolved, AtLeast
<1>8. NoTime \in Int /\ base + ms * Milli \in Nat
  BY <1>5 DEF NoTime
<1>9. NoTime < policy
  BY <1>4 DEF NoTime
<1>10. CASE (t.type # "after" \/ t.ns = 0) /\ t.type # "at" /\ r = Resolved(delay, policy, NoTime)
  BY <1>7, <1>8, <1>9, <1>p, <1>2, <1>4, <1>10
<1>11. CASE t.type = "after" /\ r = Resolved(delay, policy, base + ms * Milli)
  <2> DEFINE b == ms * Milli
  <2>1. b \in Nat /\ t.ns <= b /\ b < t.ns + Milli
    BY <1>5
  <2> HIDE DEF b
  <2>2. r = Resolved(delay, policy, base + b)
    BY <1>11 DEF b
  <2> QED BY <1>7, <2>1, <2>2, <1>1, <1>2, <1>4, <1>11
<1>12. CASE t.type = "at" /\ r = Resolved(delay, policy, at)
  BY <1>7, <1>1, <1>2, <1>4, <1>5, <1>12
<1>13. CASE t.type = "at" /\ t.ns <= policy /\ r = Resolved(delay, policy, NoTime)
  BY <1>7, <1>1, <1>2, <1>4, <1>8, <1>9, <1>13
<1> QED BY <1>6, <1>10, <1>11, <1>12, <1>13

(* A completion refuses a bound only because no timestamp expresses it.    *)
LEMMA RejectedTimingIsUnpersistable ==
  ASSUME NEW base \in Nat, NEW delay \in 1 .. MaxMs, NEW t \in Timings,
         PostgresMinimum <= base, base + MaxMs * Milli <= ChronoMax,
         ResolveRetryTiming(base, delay, t) = Invalid
  PROVE  Unpersistable(t)
<1> DEFINE policy == base + delay * Milli
           ms == Ceiling(t.ns, Milli)
           at == Ceiling(t.ns, Micro)
<1>1. /\ Milli \in Nat \ {0} /\ Micro \in Nat \ {0} /\ MaxMs \in Nat /\ ChronoMax \in Nat
      /\ PostgresMinimum \in Int
  BY RetryTimingAssumption
<1>2. t.ns \in Nat /\ t.type \in {"none", "after", "at"} /\ (t.type = "none" => t.ns = 0)
  BY TimingShape
<1>3. delay \in Nat /\ delay # NoDelay /\ ~(delay <= 0)
  BY <1>1 DEF NoDelay
<1>4. policy \in Nat /\ policy <= ChronoMax /\ base <= policy
  BY <1>1, <1>3, ProductsGrow
<1>5. /\ ms \in Nat /\ ms * Milli \in Nat /\ t.ns <= ms * Milli /\ ms * Milli < t.ns + Milli
      /\ at \in Nat /\ at * Micro \in Nat /\ t.ns <= at * Micro /\ at * Micro < t.ns + Micro
  BY <1>1, <1>2, CeilingBounds
<1> HIDE DEF ms, at
<1>6. ms <= MaxMs => base + ms * Milli <= ChronoMax
  BY <1>1, <1>5, ProductsGrow
<1>7. \A d, p, q : Resolved(d, p, q) # Invalid
  BY DEF Resolved, Invalid
<1>8. \/ t.type = "after" /\ (ms > MaxMs \/ base + ms * Milli > ChronoMax)
      \/ /\ t.type = "at" /\ ~(t.ns <= policy)
         /\ at * Micro > ChronoMax \/ at * Micro < PostgresMinimum
  <2>1. ~(delay = NoDelay \/ delay <= 0 \/ policy > ChronoMax)
    BY <1>1, <1>3, <1>4
  <2>2. ~(t.type = "none" \/ (t.type = "after" /\ t.ns = 0))
    BY <2>1, <1>7 DEF ResolveRetryTiming
  <2>3. CASE t.type = "after"
    BY <2>1, <2>2, <2>3, <1>7 DEF ResolveRetryTiming, RetryDelayMilliseconds, ms
  <2>4. CASE t.type = "at"
    <3>1. RoundRetryAt(t.ns) = NoTime /\ ~(t.ns <= policy)
      BY <2>1, <2>2, <2>4, <1>7 DEF ResolveRetryTiming
    <3>2. at * Micro # NoTime
      BY <1>5 DEF NoTime
    <3> QED BY <2>4, <3>1, <3>2 DEF RoundRetryAt, at
  <2> QED BY <2>2, <2>3, <2>4, <1>2
<1> HIDE DEF policy
<1>9. CASE t.type = "after" /\ (ms > MaxMs \/ base + ms * Milli > ChronoMax)
  <2>1. ms > MaxMs
    BY <1>1, <1>5, <1>6, <1>9
  <2>2. (MaxMs + 1) * Milli <= ms * Milli /\ (MaxMs + 1) * Milli = MaxMs * Milli + Milli
    BY <1>1, <1>5, <2>1, ProductsGrow
  <2>3. MaxMs * Milli \in Nat
    BY <1>1
  <2> QED BY <1>1, <1>2, <1>5, <1>9, <2>2, <2>3 DEF Unpersistable
<1>10. CASE t.type = "at" /\ ~(t.ns <= policy) /\ (at * Micro > ChronoMax \/ at * Micro < PostgresMinimum)
  <2>1. at * Micro > ChronoMax
    BY <1>1, <1>2, <1>4, <1>5, <1>10
  <2> DEFINE q == ChronoMax \div Micro
  <2>2. q \in Nat /\ Micro * q <= ChronoMax
    BY <1>1
  <2>3. q * Micro <= ChronoMax /\ q * Micro \in Nat
    BY <1>1, <2>2
  <2> HIDE DEF q
  <2>4. q + 1 <= at
    <3>1. SUFFICES ASSUME at <= q PROVE FALSE
      BY <1>5, <2>2
    <3> QED BY <3>1, <2>1, <2>2, <2>3, <1>1, <1>5, ProductsGrow
  <2>5. (q + 1) * Micro <= at * Micro /\ (q + 1) * Micro = q * Micro + Micro
    BY <1>1, <1>5, <2>2, <2>4, ProductsGrow
  <2>6. t.ns > q * Micro
    BY <1>1, <1>2, <1>5, <2>3, <2>5
  <2> QED BY <1>10, <2>6 DEF Unpersistable, q
<1> QED BY <1>8, <1>9, <1>10

(* Rows and processes have their fields; only what the properties compare  *)
(* has a type.                                                             *)
RetryTyped ==
  /\ now \in Nat /\ Start <= now /\ jitter \in Jitters
  /\ job = [status |-> job.status, attempt |-> job.attempt, lease |-> job.lease, next |-> job.next]
  /\ job.status \in {"PENDING", "LEASED", "DEAD_LETTERED"} /\ job.attempt \in 0 .. MaxAttempts
  /\ DOMAIN audit = Attempts /\ DOMAIN events = Attempts
  /\ DOMAIN told = Attempts /\ DOMAIN asked = Attempts
  /\ audit = [a \in Attempts |-> audit[a]]
  /\ events = [a \in Attempts |-> events[a]] /\ told = [a \in Attempts |-> told[a]]
  /\ asked = [a \in Attempts |-> asked[a]]

ProcessesTyped ==
  /\ DOMAIN worker = Attempts /\ worker = [a \in Attempts |-> worker[a]]
  /\ \A a \in Attempts :
       /\ worker[a] = [pc |-> worker[a].pc, failure |-> worker[a].failure]
       /\ worker[a].pc \in {"none", "running", "failing", "done"}
       /\ worker[a].failure \in Failures \cup {InvalidTiming, NoFailure}

(* The row says how far the job has come.                                  *)
QueueStory ==
  /\ job.status = "PENDING" => job.attempt < MaxAttempts /\ job.lease = NoTime
  /\ job.status = "LEASED" => job.attempt >= 1 /\ job.lease \in Nat /\ job.lease <= LastClaim + LeaseNs
  /\ job.status = "DEAD_LETTERED" => job.lease = NoTime

(* An attempt has no record before it ends, and has ended once it has one. *)
AttemptStory ==
  \A a \in Attempts :
    /\ events[a] = <<>> => audit[a] = NoAudit /\ told[a] = NoDisposition
    /\ events[a] # <<>> => a <= job.attempt /\ (a = job.attempt => job.status # "LEASED")

(* A rejected retry timing is what the attempt really asked for.           *)
Justified(a, reported, wanted) ==
  /\ reported # NoFailure
  /\ reported = InvalidTiming => IsRetryable(wanted.kind) /\ a < MaxAttempts /\ Unpersistable(wanted.timing)

WorkerStory ==
  \A a \in Attempts :
    worker[a].pc = "failing" => Justified(a, worker[a].failure, asked[a].failure)

(* A retry's event, audit and disposition describe one schedule.           *)
ScheduleStory ==
  \A a \in Attempts :
    /\ told[a].type \in {"RetryScheduled", "RetryScheduledAt"} =>
         /\ events[a] = <<FailedEvent, Event("RETRY_SCHEDULED", audit[a].delay, told[a].next, audit[a].source)>>
         /\ audit[a].effective \in {NoTime, told[a].next}
         /\ job.attempt = a => job.next = told[a].next
    /\ audit[a].source \in {"none", "POLICY", "HANDLER_NOT_BEFORE"}
    /\ Retried(a) =>
         /\ told[a].type = IF audit[a].source = "POLICY" THEN "RetryScheduled" ELSE "RetryScheduledAt"
         /\ told[a].next = audit[a].effective
         /\ (audit[a].source = "HANDLER_NOT_BEFORE") <=> (audit[a].requested > Policy(a))
         /\ audit[a].effective \in Int /\ Policy(a) \in Int /\ LowerBound(a) \in Int

RetryInv ==
  /\ RetryTyped /\ ProcessesTyped /\ QueueStory /\ AttemptStory /\ WorkerStory /\ ScheduleStory
  /\ ScheduledAsAsked /\ DeadLettersNameTheirCause

LEMMA RetryInitInv == RetryInit => RetryInv
<1> SUFFICES ASSUME RetryInit PROVE RetryInv
  OBVIOUS
<1> USE DEF RetryInit
<1>1. RetryTyped /\ ProcessesTyped
  BY RetryTimingAssumption DEF RetryTyped, ProcessesTyped, NoTime
<1>2. QueueStory
  BY RetryTimingAssumption DEF QueueStory, NoTime
<1>3. AttemptStory /\ WorkerStory
  BY DEF AttemptStory, WorkerStory
<1>4. ScheduleStory
  BY DEF ScheduleStory, NoDisposition, NoAudit, Retried
<1>5. ScheduledAsAsked /\ DeadLettersNameTheirCause
  BY DEF ScheduledAsAsked, DeadLettersNameTheirCause, NoAudit, Retried
<1> QED BY <1>1, <1>2, <1>3, <1>4, <1>5 DEF RetryInv

(* While an attempt holds the lease nothing is recorded of it, and the     *)
(* policy's delay still fits before the last instant.                      *)
LEMMA LeasedFacts ==
  ASSUME RetryInv, NEW a \in Attempts, LiveLease(a)
  PROVE  /\ job.status = "LEASED" /\ job.attempt = a
         /\ events[a] = <<>> /\ audit[a] = NoAudit /\ told[a] = NoDisposition /\ ~Retried(a)
         /\ PostgresMinimum <= now /\ now + MaxMs * Milli <= ChronoMax
<1>1. job.status = "LEASED" /\ job.attempt = a /\ job.lease > now
  BY DEF LiveLease
<1>2. events[a] = <<>> /\ audit[a] = NoAudit /\ told[a] = NoDisposition
  BY <1>1 DEF RetryInv, AttemptStory
<1>3. ~Retried(a)
  BY <1>2 DEF Retried, NoAudit
<1> DEFINE m == MaxMs * Milli
<1>4. m \in Nat /\ LastClaim + LeaseNs + m <= ChronoMax
  BY RetryTimingAssumption
<1>5. now + m <= ChronoMax /\ PostgresMinimum <= now
  <2> HIDE DEF m
  <2>1. job.lease \in Nat /\ job.lease <= LastClaim + LeaseNs /\ now \in Nat /\ Start <= now
    BY <1>1 DEF RetryInv, QueueStory, RetryTyped
  <2> QED BY <1>1, <1>4, <2>1, RetryTimingAssumption
<1> QED BY <1>1, <1>2, <1>3, <1>5

(* What is only about the attempts that have ended survives a step that    *)
(* writes none of their records and leaves their row alone.                *)
LEMMA RecordsKept ==
  ASSUME RetryInv, UNCHANGED <<audit, events, dead, told>>,
         job'.attempt >= job.attempt, job'.attempt \in Nat,
         \A a \in Attempts : Retried(a) => asked'[a] = asked[a],
         job'.attempt = job.attempt => job'.next = job.next,
         job'.status = "DEAD_LETTERED" =>
           /\ job.status = "DEAD_LETTERED" /\ job'.attempt = job.attempt
           /\ asked'[job.attempt] = asked[job.attempt]
  PROVE  ScheduleStory' /\ ScheduledAsAsked' /\ DeadLettersNameTheirCause'
<1>0. job.attempt \in Nat
  BY RetryTimingAssumption DEF RetryInv, RetryTyped
<1>1. \A a \in Attempts : Retried(a)' = Retried(a)
  BY DEF Retried
<1>2. \A a \in Attempts : Retried(a) => Policy(a)' = Policy(a) /\ LowerBound(a)' = LowerBound(a)
  BY DEF Policy, LowerBound
<1>3. ScheduleStory'
  <2> SUFFICES ASSUME NEW a \in Attempts
               PROVE  /\ told[a].type \in {"RetryScheduled", "RetryScheduledAt"} =>
                           (job'.attempt = a => job'.next = told[a].next)
                      /\ Retried(a) => /\ Policy(a)' \in Int /\ LowerBound(a)' \in Int
                                       /\ (audit[a].source = "HANDLER_NOT_BEFORE")
                                            <=> (audit[a].requested > Policy(a)')
    BY <1>1 DEF RetryInv, ScheduleStory
  <2>1. told[a].type \in {"RetryScheduled", "RetryScheduledAt"} => a <= job.attempt
    BY DEF RetryInv, AttemptStory, NoDisposition
  <2> QED BY <1>0, <1>2, <2>1 DEF RetryInv, ScheduleStory, Attempts
<1>4. ScheduledAsAsked'
  BY <1>1, <1>2 DEF RetryInv, ScheduledAsAsked
<1>5. DeadLettersNameTheirCause'
  BY DEF RetryInv, DeadLettersNameTheirCause
<1> QED BY <1>3, <1>4, <1>5


Reportable == Failures \cup {InvalidTiming, LeaseExpiredFailure}

(* The records an end of an attempt writes are those of that attempt.      *)
LEMMA TerminalWrites ==
  ASSUME RetryInv, NEW a \in Attempts, NEW f \in Reportable,
         NEW reason \in {"LEASE_EXPIRED", "ATTEMPTS_EXHAUSTED", "FAILURE_KIND_NON_RETRYABLE"},
         job.status = "LEASED", job.attempt = a,
         FinishTerminal(a, f),
         told' = [told EXCEPT ![a] = [type |-> reason, next |-> NoTime]],
         \A b \in Attempts \ {a} : asked'[b] = asked[b],
         now' = now, jitter' = jitter
  PROVE  /\ QueueStory' /\ AttemptStory' /\ ScheduleStory' /\ ScheduledAsAsked'
         /\ job' = [status |-> "DEAD_LETTERED", attempt |-> a, lease |-> NoTime, next |-> job.next]
         /\ dead' = [attempt |-> a, code |-> f.code]
         /\ audit'[a].code = f.code /\ audit'[a].outcome = f.kind /\ told'[a].type = reason
         /\ audit' = [b \in Attempts |-> audit'[b]] /\ events' = [b \in Attempts |-> events'[b]]
         /\ told' = [b \in Attempts |-> told'[b]]
<1> USE DEF RetryInv
<1>1. events[a] = <<>> /\ audit[a] = NoAudit
  BY DEF AttemptStory
<1>2. job' = [status |-> "DEAD_LETTERED", attempt |-> a, lease |-> NoTime, next |-> job.next]
  BY DEF FinishTerminal, QueueDeadLettered, RetryTyped
<1>3. audit' = [b \in Attempts |-> IF b = a THEN [NoAudit EXCEPT !.outcome = f.kind, !.code = f.code]
                                   ELSE audit[b]]
  BY <1>1 DEF FinishTerminal, RetryTyped
<1>4. [NoAudit EXCEPT !.outcome = f.kind, !.code = f.code] =
        [outcome |-> f.kind, code |-> f.code, delay |-> NoDelay, requested |-> NoTime,
         effective |-> NoTime, source |-> "none"]
  <2> DEFINE g == [NoAudit EXCEPT !.outcome = f.kind]
  <2>1. g = [outcome |-> f.kind, code |-> "none", delay |-> NoDelay, requested |-> NoTime,
             effective |-> NoTime, source |-> "none"]
    BY DEF NoAudit
  <2>2. [NoAudit EXCEPT !.outcome = f.kind, !.code = f.code] = [g EXCEPT !.code = f.code]
    BY Zenon
  <2> HIDE DEF g
  <2> QED BY <2>1, <2>2
<1>5. events' = [b \in Attempts |-> IF b = a THEN <<FailedEvent, DeadLetteredEvent>> ELSE events[b]]
  <2>1. \A x, y : <<>> \o <<x, y>> = <<x, y>>
    OBVIOUS
  <2>2. events[a] \o <<FailedEvent, DeadLetteredEvent>> = <<FailedEvent, DeadLetteredEvent>>
    BY <1>1, <2>1
  <2>3. events' = [events EXCEPT ![a] = events[a] \o <<FailedEvent, DeadLetteredEvent>>]
    BY DEF FinishTerminal, Record
  <2> QED BY Zenon, <2>2, <2>3 DEF RetryTyped
<1>6. told' = [b \in Attempts |-> IF b = a THEN [type |-> reason, next |-> NoTime] ELSE told[b]]
  BY DEF RetryTyped
<1>0. \A x, y : <<x, y>> # <<>>
  OBVIOUS
<1>7. /\ audit'[a].source = "none" /\ audit'[a].code = f.code /\ audit'[a].outcome = f.kind
      /\ told'[a].type = reason /\ events'[a] # <<>>
  <2>1. events'[a] # <<>>
    BY <1>0, <1>5
  <2>2. audit'[a] = [outcome |-> f.kind, code |-> f.code, delay |-> NoDelay, requested |-> NoTime,
                     effective |-> NoTime, source |-> "none"]
    BY Zenon, <1>3, <1>4
  <2>3. told'[a] = [type |-> reason, next |-> NoTime]
    BY <1>6
  <2> QED BY <2>1, <2>2, <2>3
<1>8. \A b \in Attempts \ {a} : audit'[b] = audit[b] /\ events'[b] = events[b] /\ told'[b] = told[b]
  BY <1>3, <1>5, <1>6
<1>9. QueueStory'
  BY <1>2 DEF QueueStory
<1>10. AttemptStory'
  <2> SUFFICES ASSUME NEW b \in Attempts
               PROVE  /\ events'[b] = <<>> => audit'[b] = NoAudit /\ told'[b] = NoDisposition
                      /\ events'[b] # <<>> => b <= job'.attempt /\ (b = job'.attempt => job'.status # "LEASED")
    BY DEF AttemptStory
  <2>1. CASE b = a
    BY <1>2, <1>7, <2>1, SomeAttempts DEF Attempts
  <2>2. CASE b # a
    BY <1>2, <1>8, <2>2 DEF AttemptStory
  <2> QED BY <2>1, <2>2
<1>11. ~Retried(a)' /\ \A b \in Attempts \ {a} : Retried(b)' = Retried(b)
  BY <1>7, <1>8 DEF Retried
<1>12. \A b \in Attempts \ {a} : Policy(b)' = Policy(b) /\ LowerBound(b)' = LowerBound(b)
  BY <1>8 DEF Policy, LowerBound
<1>13. ScheduleStory'
  <2> SUFFICES ASSUME NEW b \in Attempts
               PROVE  /\ told'[b].type \in {"RetryScheduled", "RetryScheduledAt"} =>
                           /\ events'[b] = <<FailedEvent, Event("RETRY_SCHEDULED", audit'[b].delay,
                                                                told'[b].next, audit'[b].source)>>
                           /\ audit'[b].effective \in {NoTime, told'[b].next}
                           /\ job'.attempt = b => job'.next = told'[b].next
                      /\ audit'[b].source \in {"none", "POLICY", "HANDLER_NOT_BEFORE"}
                      /\ Retried(b)' =>
                           /\ told'[b].type = IF audit'[b].source = "POLICY" THEN "RetryScheduled"
                                              ELSE "RetryScheduledAt"
                           /\ told'[b].next = audit'[b].effective
                           /\ (audit'[b].source = "HANDLER_NOT_BEFORE")
                                <=> (audit'[b].requested > Policy(b)')
                           /\ audit'[b].effective \in Int /\ Policy(b)' \in Int /\ LowerBound(b)' \in Int
    BY DEF ScheduleStory
  <2>1. CASE b = a
    BY <1>7, <1>11, <2>1
  <2>2. CASE b # a
    BY <1>2, <1>8, <1>11, <1>12, <2>2 DEF ScheduleStory
  <2> QED BY <2>1, <2>2
<1>14. ScheduledAsAsked'
  BY <1>8, <1>11, <1>12 DEF ScheduledAsAsked
<1> QED BY <1>2, <1>3, <1>5, <1>6, <1>7, <1>9, <1>10, <1>13, <1>14 DEF FinishTerminal

RetryTimings == [delay : Int, requested : Int, effective : Int,
                 source : {"none", "POLICY", "HANDLER_NOT_BEFORE"}]

(* A schedule r that honours the policy and the bound t, from an instant.   *)
Reconciled(r, base, t) ==
  LET policy == base + r.delay * Milli
      bound == IF t.type = "after" THEN base + t.ns ELSE IF t.type = "at" THEN t.ns ELSE 0
  IN  /\ r.effective \in Int /\ policy \in Int /\ bound \in Int
      /\ (r.source = "HANDLER_NOT_BEFORE") <=> (r.requested > policy)
      /\ r.effective >= policy /\ r.effective >= bound
      /\ r.effective = policy \/ r.effective < bound + (IF t.type = "after" THEN Milli ELSE Micro)

LEMMA RetryWrites ==
  ASSUME RetryInv, NEW a \in Attempts, NEW f \in Reportable, NEW next \in Nat,
         NEW timing \in RetryTimings, NEW type \in {"RetryScheduled", "RetryScheduledAt"},
         job.status = "LEASED", job.attempt = a, a < MaxAttempts,
         FinishRetry(a, f, next, timing),
         told' = [told EXCEPT ![a] = [type |-> type, next |-> next]],
         \A b \in Attempts \ {a} : asked'[b] = asked[b],
         now' = now, jitter' = jitter,
         timing.effective \in {NoTime, next},
         timing.source # "none" =>
           /\ type = IF timing.source = "POLICY" THEN "RetryScheduled" ELSE "RetryScheduledAt"
           /\ timing.effective = next
           /\ Reconciled(timing, asked'[a].base, asked'[a].failure.timing)
  PROVE  /\ QueueStory' /\ AttemptStory' /\ ScheduleStory' /\ ScheduledAsAsked'
         /\ DeadLettersNameTheirCause'
         /\ job' = [status |-> "PENDING", attempt |-> a, lease |-> NoTime, next |-> next]
         /\ audit' = [b \in Attempts |-> audit'[b]] /\ events' = [b \in Attempts |-> events'[b]]
         /\ told' = [b \in Attempts |-> told'[b]]
<1> USE DEF RetryInv
<1>s. timing.source \in {"none", "POLICY", "HANDLER_NOT_BEFORE"}
  BY DEF RetryTimings
<1>1. events[a] = <<>>
  BY DEF AttemptStory
<1>2. job' = [status |-> "PENDING", attempt |-> a, lease |-> NoTime, next |-> next]
  BY DEF FinishRetry, QueueRetryable, RetryTyped
<1>3. audit' = [b \in Attempts |-> IF b = a THEN
        [outcome |-> f.kind, code |-> f.code, delay |-> timing.delay, requested |-> timing.requested,
         effective |-> timing.effective, source |-> timing.source] ELSE audit[b]]
  BY DEF FinishRetry, RetryTyped
<1>5. events' = [b \in Attempts |-> IF b = a
                   THEN <<FailedEvent, Event("RETRY_SCHEDULED", timing.delay, next, timing.source)>>
                   ELSE events[b]]
  BY <1>1 DEF FinishRetry, Record, RetryTyped, RetryScheduledEvent
<1>6. told' = [b \in Attempts |-> IF b = a THEN [type |-> type, next |-> next] ELSE told[b]]
  BY DEF RetryTyped
<1>7. /\ audit'[a].source = timing.source /\ audit'[a].delay = timing.delay
      /\ audit'[a].effective = timing.effective /\ audit'[a].requested = timing.requested
      /\ told'[a].type = type /\ told'[a].next = next /\ events'[a] # <<>>
      /\ events'[a] = <<FailedEvent, Event("RETRY_SCHEDULED", timing.delay, next, timing.source)>>
  BY <1>3, <1>5, <1>6
<1>8. \A b \in Attempts \ {a} : audit'[b] = audit[b] /\ events'[b] = events[b] /\ told'[b] = told[b]
  BY <1>3, <1>5, <1>6
<1>9. QueueStory'
  BY <1>2 DEF QueueStory
<1>10. AttemptStory'
  <2> SUFFICES ASSUME NEW b \in Attempts
               PROVE  /\ events'[b] = <<>> => audit'[b] = NoAudit /\ told'[b] = NoDisposition
                      /\ events'[b] # <<>> => b <= job'.attempt /\ (b = job'.attempt => job'.status # "LEASED")
    BY DEF AttemptStory
  <2>1. CASE b = a
    <3>1. job'.attempt = a /\ job'.status = "PENDING" /\ a <= a
      BY <1>2 DEF Attempts
    <3> QED BY <1>7, <2>1, <3>1
  <2>2. CASE b # a
    BY <1>2, <1>8, <2>2 DEF AttemptStory
  <2> QED BY <2>1, <2>2
<1>11. \A b \in Attempts \ {a} :
         Retried(b)' = Retried(b) /\ Policy(b)' = Policy(b) /\ LowerBound(b)' = LowerBound(b)
  BY <1>8 DEF Retried, Policy, LowerBound
<1>12. /\ Policy(a)' = asked'[a].base + timing.delay * Milli
       /\ Retried(a)' = (timing.source # "none")
       /\ LowerBound(a)' = LET t == asked'[a].failure.timing
                           IN  IF t.type = "after" THEN asked'[a].base + t.ns
                               ELSE IF t.type = "at" THEN t.ns ELSE 0
  BY <1>7 DEF Policy, Retried, LowerBound
<1>13. ScheduleStory'
  <2> SUFFICES ASSUME NEW b \in Attempts
               PROVE  /\ told'[b].type \in {"RetryScheduled", "RetryScheduledAt"} =>
                           /\ events'[b] = <<FailedEvent, Event("RETRY_SCHEDULED", audit'[b].delay,
                                                                told'[b].next, audit'[b].source)>>
                           /\ audit'[b].effective \in {NoTime, told'[b].next}
                           /\ job'.attempt = b => job'.next = told'[b].next
                      /\ audit'[b].source \in {"none", "POLICY", "HANDLER_NOT_BEFORE"}
                      /\ Retried(b)' =>
                           /\ told'[b].type = IF audit'[b].source = "POLICY" THEN "RetryScheduled"
                                              ELSE "RetryScheduledAt"
                           /\ told'[b].next = audit'[b].effective
                           /\ (audit'[b].source = "HANDLER_NOT_BEFORE")
                                <=> (audit'[b].requested > Policy(b)')
                           /\ audit'[b].effective \in Int /\ Policy(b)' \in Int /\ LowerBound(b)' \in Int
    BY DEF ScheduleStory
  <2>1. CASE b = a
    BY <1>s, <1>2, <1>7, <1>12, <2>1 DEF Reconciled
  <2>2. CASE b # a
    BY <1>2, <1>8, <1>11, <2>2 DEF ScheduleStory
  <2> QED BY <2>1, <2>2
<1>14. ScheduledAsAsked'
  <2> SUFFICES ASSUME NEW b \in Attempts, Retried(b)'
               PROVE  /\ audit'[b].effective >= Policy(b)' /\ audit'[b].effective >= LowerBound(b)'
                      /\ \/ audit'[b].effective = Policy(b)'
                         \/ audit'[b].effective < LowerBound(b)' +
                              (IF asked'[b].failure.timing.type = "after" THEN Milli ELSE Micro)
    BY DEF ScheduledAsAsked
  <2>1. CASE b = a
    BY <1>7, <1>12, <2>1 DEF Reconciled
  <2>2. CASE b # a
    BY <1>8, <1>11, <2>2 DEF ScheduledAsAsked
  <2> QED BY <2>1, <2>2
<1>15. DeadLettersNameTheirCause'
  BY <1>2 DEF DeadLettersNameTheirCause
<1> QED BY <1>2, <1>3, <1>5, <1>6, <1>9, <1>10, <1>13, <1>14, <1>15


(* The processes a step writes are of one attempt.                         *)
LEMMA WorkerWrites ==
  ASSUME RetryInv, NEW a \in Attempts, NEW pc \in {"running", "failing", "done"},
         NEW f \in Failures \cup {InvalidTiming, NoFailure},
         pc = "failing" => Justified(a, f, asked'[a].failure),
         worker' = [worker EXCEPT ![a] = [pc |-> pc, failure |-> f]],
         \A b \in Attempts \ {a} : asked'[b] = asked[b]
  PROVE  ProcessesTyped' /\ WorkerStory'
<1>1. worker' = [b \in Attempts |-> IF b = a THEN [pc |-> pc, failure |-> f] ELSE worker[b]]
  BY DEF RetryInv, ProcessesTyped
<1>2. worker'[a] = [pc |-> pc, failure |-> f] /\ \A b \in Attempts \ {a} : worker'[b] = worker[b]
  BY <1>1
<1>3. ASSUME NEW b \in Attempts
      PROVE  /\ worker'[b] = [pc |-> worker'[b].pc, failure |-> worker'[b].failure]
             /\ worker'[b].pc \in {"none", "running", "failing", "done"}
             /\ worker'[b].failure \in Failures \cup {InvalidTiming, NoFailure}
             /\ worker'[b].pc = "failing" => Justified(b, worker'[b].failure, asked'[b].failure)
  <2>1. CASE b = a
    BY <1>2, <2>1
  <2>2. CASE b # a
    BY <1>2, <2>2 DEF RetryInv, ProcessesTyped, WorkerStory
  <2> QED BY <2>1, <2>2
<1> QED BY <1>1, <1>3 DEF WorkerStory, ProcessesTyped

LEMMA WorkerSame ==
  ASSUME RetryInv, UNCHANGED <<worker, asked>>
  PROVE  WorkerStory'
BY DEF RetryInv, WorkerStory

LEMMA RetryClaim ==
  ASSUME RetryInv, Claim
  PROVE  RetryInv'
<1> DEFINE a == job.attempt + 1
<1>1. a \in Attempts /\ job.attempt < a /\ job.attempt \in Nat /\ a \in Nat
  <2>1. job.attempt < MaxAttempts /\ job.attempt \in 0 .. MaxAttempts
    BY DEF RetryInv, QueueStory, RetryTyped, Claim
  <2> QED BY <2>1, SomeAttempts DEF Attempts
<1> HIDE DEF a
<1>2. job' = [status |-> "LEASED", attempt |-> a, lease |-> now + LeaseNs, next |-> job.next]
  BY DEF Claim, RetryInv, RetryTyped, a
<1>3. UNCHANGED <<now, jitter, audit, events, dead, told, asked>>
  BY DEF Claim
<1>4. worker' = [worker EXCEPT ![a] = [pc |-> "running", failure |-> worker[a].failure]]
  <2>1. worker' = [worker EXCEPT ![a] = [worker[a] EXCEPT !.pc = "running"]]
    BY DEF Claim, a
  <2>2. worker[a] = [pc |-> worker[a].pc, failure |-> worker[a].failure]
    BY <1>1 DEF RetryInv, ProcessesTyped
  <2>3. [worker[a] EXCEPT !.pc = "running"] = [pc |-> "running", failure |-> worker[a].failure]
    BY <2>2
  <2> QED BY <2>1, <2>3
<1>5. worker[a].failure \in Failures \cup {InvalidTiming, NoFailure}
  BY <1>1 DEF RetryInv, ProcessesTyped
<1>6. ProcessesTyped' /\ WorkerStory'
  <2>1. \A b \in Attempts \ {a} : asked'[b] = asked[b]
    BY <1>3
  <2>2. "running" \in {"running", "failing", "done"} /\ "running" # "failing"
    OBVIOUS
  <2> QED BY <1>1, <1>4, <1>5, <2>1, <2>2, WorkerWrites
<1>7. RetryTyped'
  BY <1>1, <1>2, <1>3, <1>6 DEF RetryInv, RetryTyped, Attempts
<1>8. QueueStory'
  <2>1. now \in Nat /\ now <= LastClaim /\ LeaseNs \in Nat /\ LastClaim \in Nat
    BY RetryTimingAssumption DEF Claim, RetryInv, RetryTyped
  <2> QED BY <1>1, <1>2, <2>1 DEF QueueStory
<1>9. AttemptStory'
  BY <1>1, <1>2, <1>3 DEF RetryInv, AttemptStory, Attempts
<1>10. ScheduleStory' /\ ScheduledAsAsked' /\ DeadLettersNameTheirCause'
  BY <1>1, <1>2, <1>3, RecordsKept
<1> QED BY <1>6, <1>7, <1>8, <1>9, <1>10 DEF RetryInv

(* What a completion that leaves the queue row and the records alone keeps. *)
LEMMA QueueSame ==
  ASSUME RetryInv, UNCHANGED <<now, jitter, job, audit, events, dead, told>>,
         ProcessesTyped', WorkerStory', asked' = [b \in Attempts |-> asked'[b]],
         \A b \in Attempts : Retried(b) => asked'[b] = asked[b],
         job.status = "DEAD_LETTERED" => asked'[job.attempt] = asked[job.attempt]
  PROVE  RetryInv'
<1>1. RetryTyped'
  BY DEF RetryInv, RetryTyped
<1>2. QueueStory' /\ AttemptStory'
  BY DEF RetryInv, QueueStory, AttemptStory
<1>3. job.attempt \in Nat
  BY RetryTimingAssumption DEF RetryInv, RetryTyped
<1>4. ScheduleStory' /\ ScheduledAsAsked' /\ DeadLettersNameTheirCause'
  BY <1>3, RecordsKept
<1> QED BY <1>1, <1>2, <1>4 DEF RetryInv

LEMMA RetryWorkerOnly ==
  ASSUME RetryInv, NEW a \in Attempts, NEW f \in Failures,
         HandlerFails(a, f) \/ LeaseMismatch(a) \/ PersistFails(a)
  PROVE  RetryInv'
<1>1. UNCHANGED <<now, jitter, job, audit, events, dead, told, asked>>
  BY DEF HandlerFails, LeaseMismatch, PersistFails
<1>2. f # NoFailure /\ f # InvalidTiming
  BY DEF Failures, NoFailure, InvalidTiming
<1>3. PICK pc \in {"failing", "done"}, g \in {f, NoFailure} :
        /\ worker' = [worker EXCEPT ![a] = [pc |-> pc, failure |-> g]]
        /\ pc = "failing" => g = f
  BY DEF HandlerFails, LeaseMismatch, PersistFails, Done
<1>4. ProcessesTyped' /\ WorkerStory'
  <2>1. \A b \in Attempts \ {a} : asked'[b] = asked[b]
    BY <1>1
  <2>2. /\ pc \in {"running", "failing", "done"} /\ g \in Failures \cup {InvalidTiming, NoFailure}
        /\ pc = "failing" => Justified(a, g, asked'[a].failure)
    BY <1>2, <1>3 DEF Justified
  <2> QED BY <1>3, <2>1, <2>2, WorkerWrites
<1>5. asked' = [b \in Attempts |-> asked'[b]]
  BY <1>1 DEF RetryInv, RetryTyped
<1> QED BY <1>1, <1>4, <1>5, QueueSame

LEMMA RetryTick ==
  ASSUME RetryInv, Tick \/ UNCHANGED tvars
  PROVE  RetryInv'
<1>1. UNCHANGED <<jitter, job, worker, audit, events, dead, told, asked>>
  BY DEF Tick, tvars
<1>2. now' \in Nat /\ Start <= now'
  BY RetryTimingAssumption DEF Tick, tvars, RetryInv, RetryTyped
<1>3. RetryTyped'
  BY <1>1, <1>2 DEF RetryInv, RetryTyped
<1>4. ProcessesTyped' /\ QueueStory' /\ AttemptStory' /\ WorkerStory'
  BY <1>1 DEF RetryInv, ProcessesTyped, QueueStory, AttemptStory, WorkerStory
<1>5. job.attempt \in Nat
  BY RetryTimingAssumption DEF RetryInv, RetryTyped
<1>6. ScheduleStory' /\ ScheduledAsAsked' /\ DeadLettersNameTheirCause'
  BY <1>1, <1>5, RecordsKept
<1> QED BY <1>3, <1>4, <1>6 DEF RetryInv


(* What a completion remembers of the failure it was given.                *)
LEMMA AskedWrites ==
  ASSUME RetryInv, NEW a \in Attempts, Asked(a) \/ asked' = [asked EXCEPT ![a] =
           [base |-> now, failure |-> worker[a].failure]]
  PROVE  /\ asked' = [b \in Attempts |-> asked'[b]]
         /\ \A b \in Attempts \ {a} : asked'[b] = asked[b]
         /\ asked'[a].base = now
         /\ worker[a].failure # InvalidTiming => asked'[a].failure = worker[a].failure
         /\ worker[a].failure = InvalidTiming => asked'[a].failure \in {asked[a].failure, worker[a].failure}
         /\ worker[a].failure = InvalidTiming /\ Asked(a) => asked'[a].failure = asked[a].failure
<1>1. PICK g : asked' = [asked EXCEPT ![a] = [base |-> now, failure |-> g]]
               /\ (worker[a].failure # InvalidTiming => g = worker[a].failure)
               /\ (worker[a].failure = InvalidTiming => g \in {asked[a].failure, worker[a].failure})
               /\ (worker[a].failure = InvalidTiming /\ Asked(a) => g = asked[a].failure)
  <2>1. CASE Asked(a)
    <3> WITNESS IF worker[a].failure = InvalidTiming THEN asked[a].failure ELSE worker[a].failure
    <3> QED BY <2>1 DEF Asked
  <2>2. CASE ~Asked(a)
    <3> WITNESS worker[a].failure
    <3> QED BY <2>2
  <2> QED BY <2>1, <2>2
<1>2. asked' = [b \in Attempts |-> IF b = a THEN [base |-> now, failure |-> g] ELSE asked[b]]
  BY <1>1 DEF RetryInv, RetryTyped
<1>3. asked'[a] = [base |-> now, failure |-> g] /\ \A b \in Attempts \ {a} : asked'[b] = asked[b]
  BY <1>2
<1>4. asked' = [b \in Attempts |-> asked'[b]]
  BY <1>2
<1>5. asked'[a].base = now /\ asked'[a].failure = g
  BY <1>3
<1> QED BY Zenon, <1>1, <1>3, <1>4, <1>5

LEMMA DoneWrites ==
  ASSUME RetryInv, NEW a \in Attempts, Done(a), \A b \in Attempts \ {a} : asked'[b] = asked[b]
  PROVE  ProcessesTyped' /\ WorkerStory'
<1>1. "done" \in {"running", "failing", "done"} /\ "done" # "failing"
      /\ NoFailure \in Failures \cup {InvalidTiming, NoFailure}
  OBVIOUS
<1> QED BY <1>1, WorkerWrites DEF Done

(* A worker completes with a failure of its handler's, or with the one     *)
(* made of a rejected timing.                                              *)
LEMMA CompletesWith ==
  ASSUME RetryInv, NEW a \in Attempts, Completes(a)
  PROVE  worker[a].failure \in Failures \cup {InvalidTiming}
BY DEF Completes, RetryInv, ProcessesTyped, WorkerStory, Justified

LEMMA RetryDeadLettered ==
  ASSUME RetryInv, NEW a \in Attempts, DeadLettered(a)
  PROVE  RetryInv'
<1> DEFINE f == worker[a].failure
           reason == DeadLetterReason(a, f)
<1>1. /\ Completes(a) /\ LiveLease(a) /\ reason # "none"
      /\ FinishTerminal(a, f)
      /\ told' = [told EXCEPT ![a] = [type |-> reason, next |-> NoTime]]
      /\ Asked(a) /\ Done(a) /\ now' = now /\ jitter' = jitter
  BY DEF DeadLettered, Disposition
<1>2. /\ reason \in {"LEASE_EXPIRED", "ATTEMPTS_EXHAUSTED", "FAILURE_KIND_NON_RETRYABLE"}
      /\ reason = IF IsRetryable(f.kind) THEN "ATTEMPTS_EXHAUSTED" ELSE "FAILURE_KIND_NON_RETRYABLE"
  BY <1>1 DEF DeadLetterReason
<1>3. f \in Failures \cup {InvalidTiming} /\ f \in Reportable
  BY <1>1, CompletesWith DEF Reportable
<1> HIDE DEF f, reason
<1>4. job.status = "LEASED" /\ job.attempt = a
  BY <1>1, LeasedFacts
<1>5. /\ asked' = [b \in Attempts |-> asked'[b]]
      /\ \A b \in Attempts \ {a} : asked'[b] = asked[b]
      /\ f # InvalidTiming => asked'[a].failure = f
      /\ f = InvalidTiming => asked'[a].failure = asked[a].failure
  BY <1>1, AskedWrites DEF f
<1>6. ProcessesTyped' /\ WorkerStory'
  BY <1>1, <1>5, DoneWrites
<1>7. /\ QueueStory' /\ AttemptStory' /\ ScheduleStory' /\ ScheduledAsAsked'
      /\ job' = [status |-> "DEAD_LETTERED", attempt |-> a, lease |-> NoTime, next |-> job.next]
      /\ dead' = [attempt |-> a, code |-> f.code]
      /\ audit'[a].code = f.code /\ audit'[a].outcome = f.kind /\ told'[a].type = reason
      /\ audit' = [b \in Attempts |-> audit'[b]] /\ events' = [b \in Attempts |-> events'[b]]
      /\ told' = [b \in Attempts |-> told'[b]]
  BY <1>1, <1>2, <1>3, <1>4, <1>5, TerminalWrites
<1>8. RetryTyped'
  BY <1>1, <1>4, <1>5, <1>7 DEF RetryInv, RetryTyped
<1>9. DeadLettersNameTheirCause'
  <2>1. job'.status = "DEAD_LETTERED" /\ job'.attempt = a /\ dead'.attempt = a /\ dead'.code = f.code
    BY <1>7
  <2>2. CASE f = InvalidTiming
    <3>1. /\ IsRetryable(asked[a].failure.kind) /\ a < MaxAttempts /\ Unpersistable(asked[a].failure.timing)
      BY <1>1, <2>2 DEF f, Completes, RetryInv, WorkerStory, Justified
    <3>2. f.code = "job.invalid_retry_timing" /\ ~IsRetryable(f.kind)
      BY <2>2 DEF InvalidTiming, IsRetryable
    <3> QED BY <1>2, <1>5, <1>7, <2>1, <2>2, <3>1, <3>2 DEF DeadLettersNameTheirCause
  <2>3. CASE f # InvalidTiming
    BY <1>2, <1>5, <1>7, <2>1, <2>3 DEF DeadLettersNameTheirCause
  <2> QED BY <2>2, <2>3
<1> QED BY <1>6, <1>7, <1>8, <1>9 DEF RetryInv

LEMMA RetryReapTerminal ==
  ASSUME RetryInv, ReapTerminal
  PROVE  RetryInv'
<1> DEFINE a == job.attempt
<1>1. /\ job.status = "LEASED" /\ a >= MaxAttempts /\ FinishTerminal(a, LeaseExpiredFailure)
      /\ told' = [told EXCEPT ![a] = [type |-> "LEASE_EXPIRED", next |-> NoTime]]
      /\ UNCHANGED <<now, jitter, worker, asked>>
  BY DEF ReapTerminal, Expired, ReapedDisposition
<1>2. a \in Attempts /\ a = MaxAttempts
  BY <1>1, SomeAttempts DEF RetryInv, RetryTyped, QueueStory, Attempts
<1>3. job.attempt = a
  OBVIOUS
<1> HIDE DEF a
<1>4. LeaseExpiredFailure \in Reportable
      /\ "LEASE_EXPIRED" \in {"LEASE_EXPIRED", "ATTEMPTS_EXHAUSTED", "FAILURE_KIND_NON_RETRYABLE"}
  BY DEF Reportable
<1>5. \A b \in Attempts \ {a} : asked'[b] = asked[b]
  BY <1>1
<1>7. /\ QueueStory' /\ AttemptStory' /\ ScheduleStory' /\ ScheduledAsAsked'
      /\ job' = [status |-> "DEAD_LETTERED", attempt |-> a, lease |-> NoTime, next |-> job.next]
      /\ dead' = [attempt |-> a, code |-> LeaseExpiredFailure.code]
      /\ audit'[a].code = LeaseExpiredFailure.code /\ told'[a].type = "LEASE_EXPIRED"
      /\ audit' = [b \in Attempts |-> audit'[b]] /\ events' = [b \in Attempts |-> events'[b]]
      /\ told' = [b \in Attempts |-> told'[b]]
  BY <1>1, <1>2, <1>3, <1>4, <1>5, TerminalWrites
<1>8. RetryTyped' /\ ProcessesTyped' /\ WorkerStory'
  BY <1>1, <1>2, <1>3, <1>7 DEF RetryInv, RetryTyped, ProcessesTyped, WorkerStory
<1>9. DeadLettersNameTheirCause'
  BY <1>2, <1>7 DEF DeadLettersNameTheirCause, LeaseExpiredFailure
<1> QED BY <1>7, <1>8, <1>9 DEF RetryInv

LEMMA RetryReapRetry ==
  ASSUME RetryInv, ReapRetry
  PROVE  RetryInv'
<1> DEFINE a == job.attempt
           next == now + ReaperDelayMs * Milli
           timing == [delay |-> ReaperDelayMs, requested |-> NoTime, effective |-> NoTime, source |-> "none"]
<1>1. /\ job.status = "LEASED" /\ a < MaxAttempts
      /\ FinishRetry(a, LeaseExpiredFailure, next, timing)
      /\ told' = [told EXCEPT ![a] = [type |-> "RetryScheduled", next |-> next]]
      /\ UNCHANGED <<now, jitter, worker, asked>>
  BY DEF ReapRetry, Expired, ReapedDisposition
<1>2. a \in Attempts /\ job.attempt = a
  BY <1>1, SomeAttempts DEF RetryInv, RetryTyped, QueueStory, Attempts
<1>3. next \in Nat
  BY RetryTimingAssumption DEF RetryInv, RetryTyped
<1>4. /\ LeaseExpiredFailure \in Reportable /\ timing \in RetryTimings
      /\ "RetryScheduled" \in {"RetryScheduled", "RetryScheduledAt"}
  BY RetryTimingAssumption DEF Reportable, RetryTimings, NoTime
<1>5. timing.effective \in {NoTime, next} /\ timing.source = "none"
  OBVIOUS
<1>6. \A b \in Attempts \ {a} : asked'[b] = asked[b]
  BY <1>1
<1> HIDE DEF a, next, timing
<1>7. /\ QueueStory' /\ AttemptStory' /\ ScheduleStory' /\ ScheduledAsAsked'
      /\ DeadLettersNameTheirCause'
      /\ job' = [status |-> "PENDING", attempt |-> a, lease |-> NoTime, next |-> next]
      /\ audit' = [b \in Attempts |-> audit'[b]] /\ events' = [b \in Attempts |-> events'[b]]
      /\ told' = [b \in Attempts |-> told'[b]]
  BY <1>1, <1>2, <1>3, <1>4, <1>5, <1>6, RetryWrites
<1>8. RetryTyped' /\ ProcessesTyped' /\ WorkerStory'
  BY <1>1, <1>2, <1>7 DEF RetryInv, RetryTyped, ProcessesTyped, WorkerStory
<1> QED BY <1>7, <1>8 DEF RetryInv

LEMMA RetryRetryScheduled ==
  ASSUME RetryInv, NEW a \in Attempts, RetryScheduled(a)
  PROVE  RetryInv'
<1> DEFINE f == worker[a].failure
           delay == PolicyDelay(a, f)
           timing == ResolveRetryTiming(now, delay, f.timing)
           type == IF timing.source = "POLICY" THEN "RetryScheduled" ELSE "RetryScheduledAt"
           next == timing.effective
<1>1. /\ Completes(a) /\ LiveLease(a) /\ DeadLetterReason(a, f) = "none" /\ timing # Invalid
      /\ FinishRetry(a, f, next, timing)
      /\ told' = [told EXCEPT ![a] = [type |-> type, next |-> next]]
      /\ Asked(a) /\ Done(a) /\ now' = now /\ jitter' = jitter
  BY DEF RetryScheduled, Disposition
<1>2. IsRetryable(f.kind) /\ a < MaxAttempts
  BY <1>1, SomeAttempts DEF DeadLetterReason, Attempts
<1>3. f \in Failures /\ f # InvalidTiming /\ f \in Reportable
  <2>1. f \in Failures \cup {InvalidTiming}
    BY <1>1, CompletesWith
  <2>2. ~IsRetryable(InvalidTiming.kind)
    BY DEF InvalidTiming, IsRetryable
  <2> HIDE DEF f
  <2>3. f # InvalidTiming
    BY <1>2, <2>2
  <2> QED BY <2>1, <2>3 DEF Reportable
<1> HIDE DEF f
<1>4. f.timing \in Timings
  BY <1>3 DEF Failures
<1>5. delay \in Int
  <2>1. CASE f.by = "direct"
    <3>1. f.delay \in DirectDelays \cup {NoDelay}
      BY <1>3 DEF Failures
    <3>2. f.delay = NoDelay \/ f.delay \in 0 .. MaxMs
      BY <3>1, RetryTimingAssumption
    <3>3. f.delay \in Int
      BY <3>2, RetryTimingAssumption DEF NoDelay
    <3> QED BY <2>1, <3>3 DEF PolicyDelay
  <2>2. CASE f.by # "direct"
    <3>1. f.by = "runtime" /\ a \in Nat \ {0} /\ jitter \in Jitters
      BY <1>3, <2>2 DEF Failures, Attempts, RetryInv, RetryTyped
    <3> QED BY <1>2, <1>3, <3>1, PolicyDelayFits
  <2> QED BY <2>1, <2>2
<1>6. job.status = "LEASED" /\ job.attempt = a
  BY <1>1, LeasedFacts
<1>7. /\ asked' = [b \in Attempts |-> asked'[b]]
      /\ \A b \in Attempts \ {a} : asked'[b] = asked[b]
      /\ asked'[a].failure = f /\ asked'[a].base = now
  BY <1>1, <1>3, AskedWrites DEF f
<1>8. ProcessesTyped' /\ WorkerStory'
  BY <1>1, <1>7, DoneWrites
<1> HIDE DEF delay
<1> DEFINE policy == now + delay * Milli
           t == f.timing
           bound == IF t.type = "after" THEN now + t.ns ELSE IF t.type = "at" THEN t.ns ELSE 0
<1>9. now \in Nat
  BY DEF RetryInv, RetryTyped
<1>10. /\ timing = [source |-> timing.source, delay |-> delay, requested |-> timing.requested,
                    effective |-> timing.effective]
       /\ next \in Nat /\ timing.requested \in Int /\ next >= policy /\ next >= bound
       /\ next = policy \/ next < bound + (IF t.type = "after" THEN Milli ELSE Micro)
       /\ timing.source \in {"POLICY", "HANDLER_NOT_BEFORE"}
       /\ (timing.source = "HANDLER_NOT_BEFORE") <=> (timing.requested > policy)
  BY <1>1, <1>4, <1>5, <1>9, ResolvedTimingHolds
<1> HIDE DEF timing
<1>11. timing \in RetryTimings /\ timing.delay = delay
  BY <1>5, <1>10 DEF RetryTimings
<1>12. type \in {"RetryScheduled", "RetryScheduledAt"}
  OBVIOUS
<1>13. /\ (timing.source = "HANDLER_NOT_BEFORE") <=> (timing.requested > asked'[a].base + timing.delay * Milli)
       /\ next >= asked'[a].base + timing.delay * Milli
       /\ asked'[a].base + timing.delay * Milli \in Int /\ next \in Int
  BY <1>5, <1>7, <1>9, <1>10, <1>11, RetryTimingAssumption
<1>14. LET q == asked'[a].failure.timing
           b == IF q.type = "after" THEN asked'[a].base + q.ns ELSE IF q.type = "at" THEN q.ns ELSE 0
       IN  /\ next >= b /\ b \in Int
           /\ \/ next = asked'[a].base + timing.delay * Milli
              \/ next < b + (IF q.type = "after" THEN Milli ELSE Micro)
  <2>1. bound \in Int
    BY <1>4, <1>9, TimingShape
  <2> QED BY <1>7, <1>10, <1>11, <2>1
<1>15. timing.effective \in {NoTime, next} /\ timing.effective = next
  OBVIOUS
<1>16. type = IF timing.source = "POLICY" THEN "RetryScheduled" ELSE "RetryScheduledAt"
  OBVIOUS
<1> HIDE DEF type, next
<1>0. timing.source # "none" =>
        /\ type = IF timing.source = "POLICY" THEN "RetryScheduled" ELSE "RetryScheduledAt"
        /\ timing.effective = next
        /\ Reconciled(timing, asked'[a].base, asked'[a].failure.timing)
  BY <1>13, <1>14, <1>15, <1>16 DEF Reconciled
<1>17. /\ QueueStory' /\ AttemptStory' /\ ScheduleStory' /\ ScheduledAsAsked'
       /\ DeadLettersNameTheirCause'
       /\ job' = [status |-> "PENDING", attempt |-> a, lease |-> NoTime, next |-> next]
       /\ audit' = [b \in Attempts |-> audit'[b]] /\ events' = [b \in Attempts |-> events'[b]]
       /\ told' = [b \in Attempts |-> told'[b]]
  BY ZenonT(30), <1>1, <1>2, <1>3, <1>6, <1>7, <1>10, <1>11, <1>12, <1>15, <1>0, RetryWrites
<1>18. RetryTyped'
  BY <1>1, <1>6, <1>7, <1>17 DEF RetryInv, RetryTyped
<1> QED BY <1>8, <1>17, <1>18 DEF RetryInv

LEMMA RetryTimingRejected ==
  ASSUME RetryInv, NEW a \in Attempts, TimingRejected(a)
  PROVE  RetryInv'
<1> DEFINE f == worker[a].failure
           delay == PolicyDelay(a, f)
<1>1. /\ Completes(a) /\ LiveLease(a) /\ DeadLetterReason(a, f) = "none"
      /\ ResolveRetryTiming(now, delay, f.timing) = Invalid
      /\ worker' = [worker EXCEPT ![a] =
           IF f.by = "runtime" THEN [pc |-> "failing", failure |-> InvalidTiming]
           ELSE [pc |-> "done", failure |-> NoFailure]]
      /\ asked' = [asked EXCEPT ![a] = [base |-> now, failure |-> f]]
      /\ UNCHANGED <<now, jitter, job, audit, events, dead, told>>
  BY DEF TimingRejected
<1>2. IsRetryable(f.kind) /\ a < MaxAttempts
  BY <1>1, SomeAttempts DEF DeadLetterReason, Attempts
<1>3. f \in Failures /\ f # InvalidTiming
  <2>1. f \in Failures \cup {InvalidTiming}
    BY <1>1, CompletesWith
  <2>2. ~IsRetryable(InvalidTiming.kind)
    BY DEF InvalidTiming, IsRetryable
  <2> HIDE DEF f
  <2>3. f # InvalidTiming
    BY <1>2, <2>2
  <2> QED BY <2>1, <2>3
<1>4. /\ asked' = [b \in Attempts |-> asked'[b]]
      /\ \A b \in Attempts \ {a} : asked'[b] = asked[b]
      /\ asked'[a].failure = f
  BY <1>1, <1>3, AskedWrites
<1> HIDE DEF f
<1>5. job.status = "LEASED" /\ job.attempt = a /\ ~Retried(a)
      /\ PostgresMinimum <= now /\ now + MaxMs * Milli <= ChronoMax
  BY <1>1, LeasedFacts
<1>6. ProcessesTyped' /\ WorkerStory'
  <2>1. CASE f.by = "runtime"
    <3>1. a \in Nat \ {0} /\ jitter \in Jitters /\ now \in Nat
      BY DEF Attempts, RetryInv, RetryTyped
    <3>2. delay \in 1 .. MaxMs
      BY <1>2, <1>3, <2>1, <3>1, PolicyDelayFits
    <3>3. f.timing \in Timings
      BY <1>3 DEF Failures
    <3>4. Unpersistable(f.timing)
      <4> HIDE DEF delay
      <4> QED BY <1>1, <1>5, <3>1, <3>2, <3>3, RejectedTimingIsUnpersistable
    <3>5. InvalidTiming # NoFailure
      BY DEF InvalidTiming, NoFailure
    <3>6. Justified(a, InvalidTiming, asked'[a].failure)
      BY <1>2, <1>4, <3>4, <3>5 DEF Justified
    <3>7. worker' = [worker EXCEPT ![a] = [pc |-> "failing", failure |-> InvalidTiming]]
      BY <1>1, <2>1
    <3>8. "failing" \in {"running", "failing", "done"}
          /\ InvalidTiming \in Failures \cup {InvalidTiming, NoFailure}
      OBVIOUS
    <3> QED BY <1>4, <3>6, <3>7, <3>8, WorkerWrites
  <2>2. CASE f.by # "runtime"
    <3>1. Done(a)
      BY <1>1, <2>2 DEF Done
    <3> QED BY <1>4, <3>1, DoneWrites
  <2> QED BY <2>1, <2>2
<1>7. \A b \in Attempts : Retried(b) => asked'[b] = asked[b]
  BY <1>4, <1>5
<1> QED BY <1>1, <1>4, <1>5, <1>6, <1>7, QueueSame

LEMMA RetryNextInv == RetryInv /\ [RetryNext]_tvars => RetryInv'
<1> SUFFICES ASSUME RetryInv, [RetryNext]_tvars PROVE RetryInv'
  OBVIOUS
<1>1. CASE Claim
  BY <1>1, RetryClaim
<1>2. CASE \E a \in Attempts, f \in Failures : HandlerFails(a, f)
  BY <1>2, RetryWorkerOnly
<1>3. ASSUME NEW a \in Attempts, LeaseMismatch(a) \/ PersistFails(a)
      PROVE  RetryInv'
  <2>1. UNCHANGED <<now, jitter, job, audit, events, dead, told, asked>> /\ Done(a)
    BY <1>3 DEF LeaseMismatch, PersistFails
  <2>2. ProcessesTyped' /\ WorkerStory'
    BY <2>1, DoneWrites
  <2>3. asked' = [b \in Attempts |-> asked'[b]]
    BY <2>1 DEF RetryInv, RetryTyped
  <2> QED BY <2>1, <2>2, <2>3, QueueSame
<1>4. CASE \E a \in Attempts : DeadLettered(a)
  BY <1>4, RetryDeadLettered
<1>5. CASE \E a \in Attempts : RetryScheduled(a)
  BY <1>5, RetryRetryScheduled
<1>6. CASE \E a \in Attempts : TimingRejected(a)
  BY <1>6, RetryTimingRejected
<1>7. CASE ReapTerminal
  BY <1>7, RetryReapTerminal
<1>8. CASE ReapRetry
  BY <1>8, RetryReapRetry
<1>9. CASE Tick \/ UNCHANGED tvars
  BY <1>9, RetryTick
<1> QED BY <1>1, <1>2, <1>3, <1>4, <1>5, <1>6, <1>7, <1>8, <1>9 DEF RetryNext

LEMMA RetrySafety == RetryInv => RetriesAreAsAsked
<1> SUFFICES ASSUME RetryInv PROVE RetriesAreAsAsked
  OBVIOUS
<1>1. RetryTypeOK
  <2>1. (job.lease # NoTime) <=> (job.status = "LEASED")
    BY DEF RetryInv, RetryTyped, QueueStory, NoTime
  <2> QED BY <2>1 DEF RetryInv, RetryTyped, ProcessesTyped, ScheduleStory, RetryTypeOK
<1>2. AuditExplainsTheSchedule
  <2> SUFFICES ASSUME NEW a \in Attempts
               PROVE  /\ told[a].type \in {"RetryScheduled", "RetryScheduledAt"} =>
                           LET last == events[a][Len(events[a])]
                           IN  /\ last.type = "RETRY_SCHEDULED" /\ last.next = told[a].next
                               /\ last.source = audit[a].source /\ last.delay = audit[a].delay
                               /\ audit[a].effective \in {NoTime, last.next}
                               /\ job.attempt = a => job.next = last.next
                      /\ Retried(a) =>
                           /\ (audit[a].source = "HANDLER_NOT_BEFORE") <=> (audit[a].requested > Policy(a))
                           /\ (audit[a].source = "HANDLER_NOT_BEFORE") <=> (told[a].type = "RetryScheduledAt")
    BY DEF AuditExplainsTheSchedule
  <2>1. ASSUME told[a].type \in {"RetryScheduled", "RetryScheduledAt"}
        PROVE  /\ events[a][Len(events[a])] = Event("RETRY_SCHEDULED", audit[a].delay, told[a].next, audit[a].source)
               /\ audit[a].effective \in {NoTime, told[a].next}
               /\ job.attempt = a => job.next = told[a].next
    <3>1. \A x, y : Len(<<x, y>>) = 2 /\ <<x, y>>[2] = y
      OBVIOUS
    <3> QED BY <2>1, <3>1 DEF RetryInv, ScheduleStory
  <2>2. Retried(a) => audit[a].source \in {"POLICY", "HANDLER_NOT_BEFORE"}
    BY DEF Retried, RetryInv, ScheduleStory
  <2> QED BY <2>1, <2>2 DEF Event, RetryInv, ScheduleStory
<1> QED BY <1>1, <1>2 DEF RetriesAreAsAsked, RetryInv

(* Retries, for any clock, attempts, policy, override and lower bound: a   *)
(* retry is scheduled no earlier than its policy and its handler ask for   *)
(* and within the rounding of it, its records agree, and a dead letter     *)
(* names what ended the job.                                               *)
THEOREM RetriesCorrect == RetrySpec => []RetriesAreAsAsked
<1> QED BY RetryInitInv, RetryNextInv, RetrySafety, PTL DEF RetrySpec


(* The records of an attempt are written by whoever ends it, once.         *)
LEMMA RecordsAreFinal ==
  ASSUME RetryInv, [RetryNext]_tvars, NEW a \in Attempts, events[a] # <<>>
  PROVE  audit'[a] = audit[a] /\ events'[a] = events[a] /\ told'[a] = told[a]
<1>1. a <= job.attempt /\ (a = job.attempt => job.status # "LEASED")
  BY DEF RetryInv, AttemptStory
<1>2. CASE UNCHANGED <<audit, events, told>>
  BY <1>2
<1>3. ASSUME NEW b \in Attempts, DeadLettered(b) \/ RetryScheduled(b)
      PROVE  audit'[a] = audit[a] /\ events'[a] = events[a] /\ told'[a] = told[a]
  <2>1. b # a
    BY <1>1, <1>3 DEF DeadLettered, RetryScheduled, LiveLease
  <2> QED BY <1>3, <2>1
          DEF DeadLettered, RetryScheduled, FinishTerminal, FinishRetry, Record, RetryInv, RetryTyped
<1>4. CASE ReapTerminal \/ ReapRetry
  <2>1. job.attempt # a
    BY <1>1, <1>4 DEF ReapTerminal, ReapRetry, Expired
  <2> QED BY <1>4, <2>1
          DEF ReapTerminal, ReapRetry, FinishTerminal, FinishRetry, Record, RetryInv, RetryTyped
<1>5. CASE Claim \/ Tick \/ UNCHANGED tvars
  BY <1>2, <1>5 DEF Claim, Tick, tvars
<1>6. ASSUME NEW b \in Attempts, NEW f \in Failures,
             HandlerFails(b, f) \/ LeaseMismatch(b) \/ TimingRejected(b) \/ PersistFails(b)
      PROVE  audit'[a] = audit[a] /\ events'[a] = events[a] /\ told'[a] = told[a]
  BY <1>6 DEF HandlerFails, LeaseMismatch, TimingRejected, PersistFails
<1>7. ASSUME NEW b \in Attempts, LeaseMismatch(b) \/ TimingRejected(b) \/ PersistFails(b)
      PROVE  audit'[a] = audit[a] /\ events'[a] = events[a] /\ told'[a] = told[a]
  BY <1>7 DEF LeaseMismatch, TimingRejected, PersistFails
<1> QED BY <1>3, <1>4, <1>5, <1>6, <1>7 DEF RetryNext

(* A handler and the reaper that end one attempt: the second changes       *)
(* nothing that the first recorded.                                        *)
THEOREM AttemptsEndOnce == RetrySpec => AttemptsFailOnce
<1>1. RetryInv /\ [RetryNext]_tvars =>
        [\A a \in Attempts : events[a] # <<>> =>
           audit'[a] = audit[a] /\ events'[a] = events[a] /\ told'[a] = told[a]]_tvars
  BY RecordsAreFinal
<1> QED BY <1>1, RetryInitInv, RetryNextInv, PTL DEF RetrySpec, AttemptsFailOnce

(* A retried attempt's successor is claimed only when what was asked for   *)
(* has passed.                                                             *)
LEMMA ClaimsWait ==
  ASSUME RetryInv, [RetryNext]_tvars, NEW a \in Attempts,
         job.attempt = a - 1, job'.attempt = a, a > 1, Retried(a - 1)
  PROVE  now >= LowerBound(a - 1) /\ now >= Policy(a - 1)
<1> DEFINE b == a - 1
<1>1. b \in Attempts /\ a # b /\ job.attempt = b /\ Retried(b)
  BY SomeAttempts DEF Attempts
<1> HIDE DEF b
<1>2. job' # job
  BY <1>1 DEF Attempts
<1>3. /\ ~ReapTerminal /\ ~ReapRetry /\ ~Tick /\ ~UNCHANGED tvars
      /\ \A c \in Attempts : ~DeadLettered(c) /\ ~RetryScheduled(c)
  <2>1. job' # [job EXCEPT !.status = "DEAD_LETTERED", !.lease = NoTime]
    BY <1>1 DEF RetryInv, RetryTyped
  <2>2. \A next : job' # [job EXCEPT !.status = "PENDING", !.lease = NoTime, !.next = next]
    BY <1>1 DEF RetryInv, RetryTyped
  <2> QED BY <1>2, <2>1, <2>2 DEF ReapTerminal, ReapRetry, Tick, tvars, DeadLettered, RetryScheduled,
             FinishTerminal, FinishRetry, QueueDeadLettered, QueueRetryable
<1>4. Claim
  BY <1>2, <1>3 DEF RetryNext, HandlerFails, LeaseMismatch, TimingRejected, PersistFails
<1>5. job.next <= now
  BY <1>4 DEF Claim
<1>6. told[b].type \in {"RetryScheduled", "RetryScheduledAt"} /\ told[b].next = audit[b].effective
  BY <1>1 DEF RetryInv, ScheduleStory
<1>7. job.next = audit[b].effective
  BY <1>1, <1>6 DEF RetryInv, ScheduleStory
<1>8. audit[b].effective >= Policy(b) /\ audit[b].effective >= LowerBound(b)
  BY <1>1 DEF RetryInv, ScheduledAsAsked
<1>9. now >= LowerBound(b) /\ now >= Policy(b)
  <2>1. now \in Int /\ audit[b].effective \in Int /\ Policy(b) \in Int /\ LowerBound(b) \in Int
    BY <1>1 DEF RetryInv, RetryTyped, ScheduleStory
  <2> QED BY <1>5, <1>7, <1>8, <2>1
<1> QED BY <1>9 DEF b

(* The next attempt of a retried one starts when its policy's delay and    *)
(* its handler's bound, to the nanosecond, have both passed.               *)
THEOREM ClaimsAreNotEarly == RetrySpec => NoAttemptBeforeItsBound
<1>1. RetryInv /\ [RetryNext]_tvars =>
        [\A a \in Attempts : (job.attempt = a - 1 /\ job'.attempt = a /\ a > 1 /\ Retried(a - 1))
           => now >= LowerBound(a - 1) /\ now >= Policy(a - 1)]_tvars
  BY ClaimsWait
<1> QED BY <1>1, RetryInitInv, RetryNextInv, PTL DEF RetrySpec, NoAttemptBeforeItsBound

-----------------------------------------------------------------------------
(* The backoff.                                                            *)

(* compute_retry_delay_ms grows with the attempt.                          *)
LEMMA DelaysGrow ==
  ASSUME jitter \in Jitters, NEW a \in Nat \ {0}, NEW b \in Nat \ {0}, a <= b
  PROVE  ComputeRetryDelayMs(a) <= ComputeRetryDelayMs(b)
<1> DEFINE exp(n) == AtMost(AtLeast(n, 1), MaxExp)
           raw(n) == BaseMs * PowerOfTwo[exp(n)]
<1>1. exp(b) \in 0 .. MaxExp /\ exp(a) \in 0 .. exp(b) /\ exp(a) \in 0 .. MaxExp
  BY RetryTimingAssumption DEF AtMost, AtLeast
<1> HIDE DEF exp
<1>2. PowerOfTwo[exp(a)] \in Nat /\ PowerOfTwo[exp(b)] \in Nat /\ PowerOfTwo[exp(a)] <= PowerOfTwo[exp(b)]
  BY <1>1, PowersGrow
<1>3. PICK p, q : p = PowerOfTwo[exp(a)] /\ q = PowerOfTwo[exp(b)]
  OBVIOUS
<1>4. p \in Nat /\ q \in Nat /\ p <= q /\ BaseMs \in Nat
  BY <1>2, <1>3, RetryTimingAssumption
<1>5. p * BaseMs \in Nat /\ q * BaseMs \in Nat /\ p * BaseMs <= q * BaseMs
  BY <1>4, ProductsGrow
<1>6. p * BaseMs = BaseMs * p /\ q * BaseMs = BaseMs * q
  BY <1>4
<1>7. raw(a) \in Nat /\ raw(b) \in Nat /\ raw(a) <= raw(b)
  BY <1>3, <1>5, <1>6
<1>8. /\ ComputeRetryDelayMs(a) = AtLeast(AtMost(raw(a), CapMs) + jitter, FloorMs)
      /\ ComputeRetryDelayMs(b) = AtLeast(AtMost(raw(b), CapMs) + jitter, FloorMs)
  BY DEF ComputeRetryDelayMs, exp
<1> HIDE DEF raw
<1>9. CapMs \in Int /\ jitter \in Int /\ FloorMs \in Int
  BY RetryTimingAssumption
<1> QED BY <1>7, <1>8, <1>9 DEF AtMost, AtLeast

(* A retry whose delay is the policy's has the backoff of its attempt.     *)
BackoffStory ==
  \A a \in Attempts :
    Retried(a) /\ asked[a].failure.by = "runtime" /\ asked[a].failure.code \notin DOMAIN Overrides
      => audit[a].delay = ComputeRetryDelayMs(a)

LEMMA BackoffSafety == RetryInv /\ BackoffStory => BackoffNeverShrinks
<1> SUFFICES ASSUME RetryInv, BackoffStory, NEW a \in Attempts, NEW b \in Attempts,
                    a < b, Retried(a), Retried(b),
                    \A c \in {a, b} : asked[c].failure.by = "runtime" /\ asked[c].failure.code \notin DOMAIN Overrides
             PROVE  audit[a].delay <= audit[b].delay
  BY DEF BackoffNeverShrinks
<1>1. audit[a].delay = ComputeRetryDelayMs(a) /\ audit[b].delay = ComputeRetryDelayMs(b)
  BY DEF BackoffStory
<1>2. a \in Nat \ {0} /\ b \in Nat \ {0} /\ a <= b /\ jitter \in Jitters
  BY SomeAttempts DEF Attempts, RetryInv, RetryTyped
<1> QED BY <1>1, <1>2, DelaysGrow

LEMMA BackoffKept ==
  ASSUME RetryInv, BackoffStory, jitter' = jitter, NEW a \in Attempts,
         Retried(a)' => Retried(a) /\ audit'[a] = audit[a] /\ asked'[a] = asked[a]
  PROVE  Retried(a)' /\ asked'[a].failure.by = "runtime" /\ asked'[a].failure.code \notin DOMAIN Overrides
           => audit'[a].delay = ComputeRetryDelayMs(a)'
<1>1. ComputeRetryDelayMs(a)' = ComputeRetryDelayMs(a)
  BY DEF ComputeRetryDelayMs
<1> QED BY <1>1 DEF BackoffStory

LEMMA BackoffNext == RetryInv /\ BackoffStory /\ [RetryNext]_tvars => BackoffStory'
<1> SUFFICES ASSUME RetryInv, BackoffStory, [RetryNext]_tvars, NEW a \in Attempts
             PROVE  (Retried(a)' /\ asked'[a].failure.by = "runtime" /\ asked'[a].failure.code \notin DOMAIN Overrides
                       => audit'[a].delay = ComputeRetryDelayMs(a)')
  BY DEF BackoffStory
<1>0. jitter' = jitter
  BY DEF RetryNext, Claim, HandlerFails, LeaseMismatch, DeadLettered, RetryScheduled, TimingRejected, PersistFails,
         ReapTerminal, ReapRetry, Tick, tvars
<1>1. CASE UNCHANGED <<audit, asked>>
  <2>1. Retried(a)' => Retried(a) /\ audit'[a] = audit[a] /\ asked'[a] = asked[a]
    BY <1>1 DEF Retried
  <2> QED BY <1>0, <2>1, BackoffKept
<1>2. ASSUME NEW b \in Attempts, DeadLettered(b)
      PROVE  Retried(a)' => Retried(a) /\ audit'[a] = audit[a] /\ asked'[a] = asked[a]
  <2>1. LiveLease(b) /\ FinishTerminal(b, worker[b].failure) /\ Asked(b)
    BY <1>2 DEF DeadLettered
  <2>2. audit[b] = NoAudit
    BY <2>1, LeasedFacts
  <2>3. DOMAIN audit = Attempts /\ DOMAIN asked = Attempts
    BY DEF RetryInv, RetryTyped
  <2>4. a # b => audit'[a] = audit[a] /\ asked'[a] = asked[a]
    BY <2>1, <2>3 DEF FinishTerminal, Asked
  <2>5. audit'[b].source = "none"
    BY <2>1, <2>2, <2>3 DEF FinishTerminal, NoAudit
  <2> QED BY <2>4, <2>5 DEF Retried
<1>3. ASSUME NEW b \in Attempts, TimingRejected(b)
      PROVE  Retried(a)' => Retried(a) /\ audit'[a] = audit[a] /\ asked'[a] = asked[a]
  <2>1. LiveLease(b) /\ audit' = audit /\ asked' = [asked EXCEPT ![b] = [base |-> now, failure |-> worker[b].failure]]
    BY <1>3 DEF TimingRejected
  <2>2. ~Retried(b)
    BY <2>1, LeasedFacts
  <2>3. DOMAIN asked = Attempts
    BY DEF RetryInv, RetryTyped
  <2> QED BY <2>1, <2>2, <2>3 DEF Retried
<1>4. CASE ReapTerminal \/ ReapRetry
  <2>1. /\ job.status = "LEASED" /\ job.attempt \in Attempts /\ asked' = asked
    BY <1>4, SomeAttempts DEF ReapTerminal, ReapRetry, Expired, RetryInv, RetryTyped, QueueStory, Attempts
  <2>2. PICK b \in Attempts : b = job.attempt
    BY <2>1
  <2>3. audit[b] = NoAudit
    BY <2>1, <2>2 DEF RetryInv, AttemptStory
  <2>4. DOMAIN audit = Attempts
    BY DEF RetryInv, RetryTyped
  <2>5. a # b => audit'[a] = audit[a]
    BY <1>4, <2>2, <2>4 DEF ReapTerminal, ReapRetry, FinishTerminal, FinishRetry
  <2>6. audit'[b].source = "none"
    <3>1. CASE ReapTerminal
      BY <2>2, <2>3, <2>4, <3>1 DEF ReapTerminal, FinishTerminal, NoAudit
    <3>2. CASE ReapRetry
      BY <2>2, <2>4, <3>2 DEF ReapRetry, FinishRetry
    <3> QED BY <1>4, <3>1, <3>2
  <2>7. Retried(a)' => Retried(a) /\ audit'[a] = audit[a] /\ asked'[a] = asked[a]
    BY <2>1, <2>5, <2>6 DEF Retried
  <2> QED BY <1>0, <2>7, BackoffKept
<1>5. ASSUME NEW b \in Attempts, RetryScheduled(b)
      PROVE  (Retried(a)' /\ asked'[a].failure.by = "runtime" /\ asked'[a].failure.code \notin DOMAIN Overrides
                => audit'[a].delay = ComputeRetryDelayMs(a)')
  <2> DEFINE f == worker[b].failure
             timing == ResolveRetryTiming(now, PolicyDelay(b, f), f.timing)
  <2>1. /\ LiveLease(b) /\ Completes(b) /\ DeadLetterReason(b, f) = "none" /\ timing # Invalid
        /\ FinishRetry(b, f, timing.effective, timing) /\ Asked(b)
    BY <1>5 DEF RetryScheduled
  <2>2. DOMAIN audit = Attempts /\ DOMAIN asked = Attempts
    BY DEF RetryInv, RetryTyped
  <2> HIDE DEF f
  <2>3. audit'[b].delay = timing.delay /\ (a # b => audit'[a] = audit[a])
    BY <2>1, <2>2 DEF FinishRetry
  <2>4. timing.delay = PolicyDelay(b, f)
    BY <2>1 DEF ResolveRetryTiming, Resolved
  <2>5. IsRetryable(f.kind)
    BY <2>1 DEF DeadLetterReason
  <2>6. f # InvalidTiming
    BY <2>5 DEF InvalidTiming, IsRetryable
  <2>7. asked'[b].failure = f /\ (a # b => asked'[a] = asked[a])
    BY <2>1, <2>2, <2>6 DEF Asked, f
  <2>8. CASE a = b
    <3>1. f.by = "runtime" /\ f.code \notin DOMAIN Overrides => PolicyDelay(b, f) = ComputeRetryDelayMs(b)
      BY <2>5 DEF PolicyDelay
    <3>2. ComputeRetryDelayMs(b)' = ComputeRetryDelayMs(b)
      BY <1>0 DEF ComputeRetryDelayMs
    <3> QED BY <2>3, <2>4, <2>7, <2>8, <3>1, <3>2
  <2>9. CASE a # b
    <3>1. Retried(a)' => Retried(a) /\ audit'[a] = audit[a] /\ asked'[a] = asked[a]
      BY <2>3, <2>7, <2>9 DEF Retried
    <3> QED BY <1>0, <3>1, BackoffKept
  <2> QED BY <2>8, <2>9
<1>6. CASE Claim \/ Tick \/ UNCHANGED tvars
  BY <1>1, <1>6 DEF Claim, Tick, tvars
<1>7. ASSUME NEW b \in Attempts, LeaseMismatch(b) \/ PersistFails(b) \/ \E f \in Failures : HandlerFails(b, f)
      PROVE  UNCHANGED <<audit, asked>>
  BY <1>7 DEF HandlerFails, LeaseMismatch, PersistFails
<1>8. ASSUME NEW b \in Attempts, DeadLettered(b) \/ TimingRejected(b)
      PROVE  (Retried(a)' /\ asked'[a].failure.by = "runtime" /\ asked'[a].failure.code \notin DOMAIN Overrides
                => audit'[a].delay = ComputeRetryDelayMs(a)')
  <2>1. Retried(a)' => Retried(a) /\ audit'[a] = audit[a] /\ asked'[a] = asked[a]
    BY <1>2, <1>3, <1>8
  <2> QED BY <1>0, <2>1, BackoffKept
<1> QED BY <1>1, <1>4, <1>5, <1>6, <1>7, <1>8 DEF RetryNext

(* A later attempt of a job never waits less than an earlier one, for      *)
(* every base, exponent, cap, floor and jitter of the policy.              *)
THEOREM BackoffGrows == RetrySpec => []BackoffNeverShrinks
<1>1. RetryInit => BackoffStory
  BY DEF RetryInit, BackoffStory, Retried, NoAudit
<1> QED BY <1>1, RetryInitInv, RetryNextInv, BackoffNext, BackoffSafety, PTL DEF RetrySpec
=============================================================================
