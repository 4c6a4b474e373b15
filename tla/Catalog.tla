------------------------------ MODULE Catalog ------------------------------
(***************************************************************************)
(* The job catalog of a deployment: handlers, definition settings, retry   *)
(* policies and schedules registered in any order while the process        *)
(* starts, what a registration refuses, and the synchronisations that      *)
(* write the catalog to job_definitions and job_schedules beside an        *)
(* operator and other deployments.                                         *)
(*                                                                         *)
(* A refused registration consumes the catalog, so the process ends; it    *)
(* may start again with another one.  The statements and locks of a        *)
(* synchronisation are those of the module Schedules; here it is one step, *)
(* whose commit may stay unconfirmed.                                      *)
(***************************************************************************)
EXTENDS Integers, Sequences, FiniteSets

CONSTANTS
  Processes,      \* deployments that share the database
  Types,          \* valid job type names
  BlankName,      \* a name that validation refuses
  Handlers,       \* handler objects
  HandlerType,    \* HandlerType[h]: what h.job_type() returns
  Defaults,       \* settings that defaults() is called with
  DefinitionOverrides,      \* overrides that a registration is called with
  FailureCodes,   \* failure codes, BlankName among them
  RetryDelays,         \* retry delays in milliseconds
  Schedules,      \* schedule specifications
  Specs,          \* JobSpecs: type -> settings
  Scopes,         \* scopes of exact syncs
  MaxOps,         \* bound: registrations of one process
  MaxStarts,      \* bound: starts of one process
  None

DefinitionSettings == [attempts : Int, enabled : BOOLEAN]

ASSUME CatalogAssumption ==
  /\ BlankName \notin Types
  /\ HandlerType \in [Handlers -> Types \cup {BlankName}]
  /\ Defaults \subseteq DefinitionSettings
  /\ RetryDelays \subseteq Int
  /\ DOMAIN Specs \subseteq Types
  /\ \A t \in DOMAIN Specs : Specs[t] \in DefinitionSettings /\ Specs[t].attempts > 0
  /\ DefinitionOverrides \subseteq [attempts : Int \cup {None}, enabled : BOOLEAN \cup {None}]
  /\ Scopes \subseteq SUBSET Types
  /\ None \notin DefinitionSettings
  /\ MaxOps \in Nat /\ MaxStarts \in Nat

VARIABLES
  catalog,        \* per process: the catalog, None once it is consumed
  ops,            \* per process: registrations so far
  starts,         \* per process: starts so far
  registry,       \* per process: the runtime registry, None before it runs
  request,        \* per process: the types of a request built and not stored
  definitions,    \* job_definitions: type -> settings or None
  schedules,      \* job_schedules: name -> row or None
  queue,          \* types with a job in the queue
  report          \* what the last synchronisation reported

cvars == <<catalog, ops, starts, registry, request, definitions, schedules, queue, report>>
tables == <<definitions, schedules, queue, report>>

-----------------------------------------------------------------------------
(* Settings.                                                               *)

(* JobDefinitionSettings::validate; attempts stands for the version, the   *)
(* attempts and the timeout, which have the same rule.                     *)
ValidSettings(s) == s.attempts > 0

(* JobCatalogDefinitionOverrides::validate and apply_to.                   *)
ValidOverrides(o) == o.attempts # None => o.attempts > 0

ApplyTo(o, d) ==
  [attempts |-> IF o.attempts = None THEN d.attempts ELSE o.attempts,
   enabled |-> IF o.enabled = None THEN d.enabled ELSE o.enabled]

NoOverrides == [attempts |-> None, enabled |-> None]

Effective(c, t) == ApplyTo(c.jobs[t].overrides, c.defaults)

(* validate_defaults.                                                      *)
ValidatedDefaults(c) ==
  /\ ValidSettings(c.defaults)
  /\ \A t \in DOMAIN c.jobs : ValidSettings(Effective(c, t))

-----------------------------------------------------------------------------
(* Registrations: a catalog, or None when the call returns an error.       *)

New == [defaults |-> [attempts |-> 3, enabled |-> TRUE], jobs |-> <<>>, schedules |-> <<>>]

Registered(c, t) == t \in DOMAIN c.jobs
EnabledType(c, t) == Registered(c, t) /\ Effective(c, t).enabled

WithJob(c, t, job) ==
  [c EXCEPT !.jobs = [u \in DOMAIN @ \cup {t} |-> IF u = t THEN job ELSE @[u]]]

InsertHandler(c, t, h) ==
  IF t = BlankName \/ Registered(c, t) THEN None
  ELSE WithJob(c, t, [handler |-> h, overrides |-> NoOverrides, delays |-> <<>>])

TryHandler(c, h) == InsertHandler(c, HandlerType[h], h)

TryJob(c, declared, h) ==
  IF declared = BlankName \/ HandlerType[h] # declared THEN None
  ELSE InsertHandler(c, declared, h)

TryOverrides(c, t, o) ==
  IF c = None \/ ~Registered(c, t) \/ ~ValidOverrides(o) THEN None
  ELSE WithJob(c, t, [c.jobs[t] EXCEPT !.overrides = o])

TryRetryDelay(c, t, code, ms) ==
  IF ~Registered(c, t) \/ code = BlankName \/ ms <= 0 THEN None
  ELSE WithJob(c, t, [c.jobs[t] EXCEPT !.delays =
         [k \in DOMAIN @ \cup {code} |-> IF k = code THEN ms ELSE @[k]]])

(* validate_shape is the specification's valid.                            *)
TrySchedule(c, s) ==
  IF \/ ~s.valid \/ ~EnabledType(c, s.type)
     \/ \E i \in 1..Len(c.schedules) : c.schedules[i].name = s.name
  THEN None
  ELSE [c EXCEPT !.schedules = Append(@, s)]

(* from_specs: one handler for each specification, and no other.           *)
FromSpecs(specs, handlers) ==
  IF \/ \E h \in handlers : HandlerType[h] \notin DOMAIN specs
     \/ \E h, g \in handlers : h # g /\ HandlerType[h] = HandlerType[g]
     \/ \E t \in DOMAIN specs : \A h \in handlers : HandlerType[h] # t
  THEN None
  ELSE [New EXCEPT !.jobs = [t \in DOMAIN specs |->
          [handler |-> CHOOSE h \in handlers : HandlerType[h] = t,
           overrides |-> specs[t], delays |-> <<>>]]]

-----------------------------------------------------------------------------
CatalogInit ==
  /\ catalog = [p \in Processes |-> New]
  /\ ops = [p \in Processes |-> 0]
  /\ starts = [p \in Processes |-> 1]
  /\ registry = [p \in Processes |-> None]
  /\ request = [p \in Processes |-> {}]
  /\ definitions = [t \in Types |-> None]
  /\ schedules = [n \in {s.name : s \in Schedules} |-> None]
  /\ queue = {}
  /\ report = {}

Registering(p) == catalog[p] # None /\ registry[p] = None

Becomes(p, c) ==
  /\ Registering(p) /\ ops[p] < MaxOps
  /\ catalog' = [catalog EXCEPT ![p] = c]
  /\ ops' = [ops EXCEPT ![p] = @ + 1]
  /\ UNCHANGED <<starts, registry, request, tables>>

SetDefaults(p, d) == Becomes(p, [catalog[p] EXCEPT !.defaults = d])
RegisterHandler(p, h) == Becomes(p, TryHandler(catalog[p], h))
RegisterJob(p, t, h) == Becomes(p, TryJob(catalog[p], t, h))
RegisterHandlerWith(p, h, o) == Becomes(p, TryOverrides(TryHandler(catalog[p], h), HandlerType[h], o))
RegisterJobWith(p, t, h, o) == Becomes(p, TryOverrides(TryJob(catalog[p], t, h), t, o))
OverrideDefinition(p, t, o) == Becomes(p, TryOverrides(catalog[p], t, o))
OverrideRetryDelay(p, t, code, ms) == Becomes(p, TryRetryDelay(catalog[p], t, code, ms))
RegisterSchedule(p, s) == Becomes(p, TrySchedule(catalog[p], s))

(* A catalog bound from specifications is a new one.                       *)
BindSpecs(p, handlers) ==
  /\ Registering(p) /\ ops[p] = 0
  /\ catalog' = [catalog EXCEPT ![p] = FromSpecs(Specs, handlers)]
  /\ ops' = [ops EXCEPT ![p] = 1]
  /\ UNCHANGED <<starts, registry, request, tables>>

-----------------------------------------------------------------------------
(* The definitions' synchronisation.                                       *)

ActiveOn(types) ==
  \E n \in DOMAIN schedules : schedules[n] # None /\ schedules[n].active /\ schedules[n].type \in types

Stored(t) == definitions[t] # None
EnabledRow(t) == Stored(t) /\ definitions[t].enabled

DisabledTypes(c) == {t \in DOMAIN c.jobs : ~Effective(c, t).enabled}

(* Mutant: a sync turns every definition of the catalog on again.          *)
UpsertedRestoring(c, t, exact) == Effective(c, t)

(* An additive sync leaves an operator's pause alone.                      *)
Upserted(c, t, exact) ==
  LET e == Effective(c, t) IN
  IF ~exact /\ e.enabled /\ Stored(t) THEN [e EXCEPT !.enabled = definitions[t].enabled] ELSE e

AbsentTypes(c, scope) == scope \ DOMAIN c.jobs

(* list_job_types_missing_or_enabled_definitions_tx before the writes, and *)
(* the rows that disable_enabled_job_definitions_tx returns.               *)
Report(c, scope) ==
  {t \in DisabledTypes(c) : ~Stored(t) \/ EnabledRow(t)}
    \cup {t \in AbsentTypes(c, scope) : EnabledRow(t)}

(* scope is empty for an additive sync.                                    *)
SyncAccepted(c, scope, exact) ==
  /\ ValidatedDefaults(c)
  /\ exact => DOMAIN c.jobs # {} /\ scope # {} /\ DOMAIN c.jobs \subseteq scope
  /\ ~ActiveOn(DisabledTypes(c))
  /\ ~ActiveOn({t \in AbsentTypes(c, scope) : EnabledRow(t)})

Synced(c, scope, exact) ==
  [t \in Types |->
     IF Registered(c, t) THEN Upserted(c, t, exact)
     ELSE IF t \in AbsentTypes(c, scope) /\ EnabledRow(t) THEN [definitions[t] EXCEPT !.enabled = FALSE]
     ELSE definitions[t]]

(* A failed commit, and an outcome the process never learns, end it.       *)
Ends(p) == catalog' = [catalog EXCEPT ![p] = None]

SyncDefinitions(p, scope, exact) ==
  /\ Registering(p) /\ (~exact => scope = {})
  /\ IF SyncAccepted(catalog[p], scope, exact)
     THEN /\ definitions' = Synced(catalog[p], scope, exact)
          /\ report' = Report(catalog[p], scope)
          /\ UNCHANGED catalog \/ Ends(p)
     ELSE Ends(p) /\ UNCHANGED <<definitions, report>>
  /\ UNCHANGED <<ops, starts, registry, request, schedules, queue>>

-----------------------------------------------------------------------------
(* The schedules' synchronisation: all of them, or none.                   *)

Listed(s) == {s[i] : i \in 1..Len(s)}
NamesOf(specs) == {s.name : s \in specs}

(* materialize_schedule_sync_entries.                                      *)
Entries(c, specs) == \A s \in specs : s.valid /\ EnabledType(c, s.type)

(* sync_schedules_impl, with the guard on active rows and their key.       *)
SchedulesAccepted(c, specs, scope, exact) ==
  /\ Entries(c, specs)
  /\ exact => NamesOf(specs) \subseteq scope
  /\ \A s \in specs : Stored(s.type) /\ (s.active => EnabledRow(s.type))

SyncedSchedules(specs, scope, exact) ==
  [n \in DOMAIN schedules |->
     IF n \in NamesOf(specs) THEN LET s == CHOOSE s \in specs : s.name = n IN [type |-> s.type, active |-> s.active]
     ELSE IF exact /\ n \in scope /\ schedules[n] # None THEN [schedules[n] EXCEPT !.active = FALSE]
     ELSE schedules[n]]

SyncSchedulesOf(p, specs, scope, exact) ==
  /\ Registering(p)
  /\ IF SchedulesAccepted(catalog[p], specs, scope, exact)
     THEN /\ schedules' = SyncedSchedules(specs, scope, exact)
          /\ UNCHANGED catalog \/ Ends(p)
     ELSE Ends(p) /\ UNCHANGED schedules
  /\ UNCHANGED <<ops, starts, registry, request, definitions, queue, report>>

(* The registered ones, additive, or exact in their own scope.             *)
SyncSchedules(p) ==
  catalog[p] # None /\ SyncSchedulesOf(p, Listed(catalog[p].schedules), {}, FALSE)

SyncSchedulesExact(p) ==
  /\ catalog[p] # None /\ catalog[p].schedules # <<>>
  /\ SyncSchedulesOf(p, Listed(catalog[p].schedules), NamesOf(Listed(catalog[p].schedules)), TRUE)

(* Specifications of the caller; the names of a batch are distinct.        *)
SyncSchedulesWith(p, specs, scope, exact) ==
  /\ Cardinality(NamesOf(specs)) = Cardinality(specs)
  /\ exact => scope # {}
  /\ SyncSchedulesOf(p, specs, scope, exact)

-----------------------------------------------------------------------------
(* Running: the registry, requests and jobs.                               *)

(* to_registry; it asserts that the retry delays are positive.             *)
ToRegistry(c) == c.jobs

Run(p) ==
  /\ Registering(p)
  /\ registry' = [registry EXCEPT ![p] = ToRegistry(catalog[p])]
  /\ UNCHANGED <<catalog, ops, starts, request, tables>>

(* job_enqueue and workflow_dag: every job step's type is enabled in the   *)
(* catalog; external steps need none.                                      *)
BuildRequest(p, types) ==
  /\ registry[p] # None /\ catalog[p] # None /\ request[p] = {}
  /\ \A t \in types : EnabledType(catalog[p], t)
  /\ request' = [request EXCEPT ![p] = types]
  /\ UNCHANGED <<catalog, ops, starts, registry, tables>>

(* JobSpec::submit: a producer needs the specification and no handler.     *)
SubmitSpec(p, t) ==
  /\ registry[p] # None /\ request[p] = {} /\ Specs[t].enabled
  /\ request' = [request EXCEPT ![p] = {t}]
  /\ UNCHANGED <<catalog, ops, starts, registry, tables>>

(* The database asks again, against the operator's state.                  *)
StoreRequest(p) ==
  /\ request[p] # {}
  /\ queue' = IF \A t \in request[p] : EnabledRow(t) THEN queue \cup request[p] ELSE queue
  /\ request' = [request EXCEPT ![p] = {}]
  /\ UNCHANGED <<catalog, ops, starts, registry, definitions, schedules, report>>

(* Claims ask for the registered types only.                               *)
RunJob(p, t) ==
  /\ registry[p] # None /\ t \in queue \cap DOMAIN registry[p]
  /\ queue' = queue \ {t}
  /\ UNCHANGED <<catalog, ops, starts, registry, request, definitions, schedules, report>>

Restart(p) ==
  /\ starts[p] < MaxStarts
  /\ catalog' = [catalog EXCEPT ![p] = New]
  /\ registry' = [registry EXCEPT ![p] = None]
  /\ request' = [request EXCEPT ![p] = {}]
  /\ ops' = [ops EXCEPT ![p] = 0]
  /\ starts' = [starts EXCEPT ![p] = @ + 1]
  /\ UNCHANGED tables

-----------------------------------------------------------------------------
(* The operator: update_job_definition, upsert_job_definition_tx,          *)
(* insert_job_definition_if_missing_tx and set_job_schedule_active.        *)

Pause(t) ==
  /\ EnabledRow(t) /\ ~ActiveOn({t})
  /\ definitions' = [definitions EXCEPT ![t].enabled = FALSE]
  /\ UNCHANGED <<catalog, ops, starts, registry, request, schedules, queue, report>>

Resume(t) ==
  /\ Stored(t) /\ ~EnabledRow(t)
  /\ definitions' = [definitions EXCEPT ![t].enabled = TRUE]
  /\ UNCHANGED <<catalog, ops, starts, registry, request, schedules, queue, report>>

(* CHECK constraints refuse settings out of range.                         *)
UpsertDefinition(t, s) ==
  /\ ValidSettings(s) /\ (~s.enabled => ~ActiveOn({t}))
  /\ definitions' = [definitions EXCEPT ![t] = s]
  /\ UNCHANGED <<catalog, ops, starts, registry, request, schedules, queue, report>>

InsertIfMissing(t, s) == ~Stored(t) /\ UpsertDefinition(t, s)

SwitchSchedule(n) ==
  /\ schedules[n] # None /\ (~schedules[n].active => EnabledRow(schedules[n].type))
  /\ schedules' = [schedules EXCEPT ![n].active = ~@]
  /\ UNCHANGED <<catalog, ops, starts, registry, request, definitions, queue, report>>

-----------------------------------------------------------------------------
Registration(p) ==
  \/ \E d \in Defaults : SetDefaults(p, d)
  \/ \E h \in Handlers : RegisterHandler(p, h)
  \/ \E h \in Handlers, t \in Types \cup {BlankName} : RegisterJob(p, t, h)
  \/ \E h \in Handlers, o \in DefinitionOverrides : RegisterHandlerWith(p, h, o)
  \/ \E h \in Handlers, t \in Types, o \in DefinitionOverrides : RegisterJobWith(p, t, h, o)
  \/ \E t \in Types, o \in DefinitionOverrides : OverrideDefinition(p, t, o)
  \/ \E t \in Types, code \in FailureCodes, ms \in RetryDelays : OverrideRetryDelay(p, t, code, ms)
  \/ \E s \in Schedules : RegisterSchedule(p, s)
  \/ \E hs \in SUBSET Handlers : BindSpecs(p, hs)

Synchronisation(p) ==
  \/ SyncDefinitions(p, {}, FALSE)
  \/ \E scope \in Scopes : SyncDefinitions(p, scope, TRUE)
  \/ SyncSchedules(p) \/ SyncSchedulesExact(p)
  \/ \E specs \in SUBSET Schedules : SyncSchedulesWith(p, specs, {}, FALSE) \/ SyncSchedulesWith(p, specs, DOMAIN schedules, TRUE)

Operator ==
  \/ \E t \in Types : Pause(t) \/ Resume(t)
  \/ \E t \in Types, s \in Defaults : UpsertDefinition(t, s) \/ InsertIfMissing(t, s)
  \/ \E n \in DOMAIN schedules : SwitchSchedule(n)

CatalogNext ==
  \/ \E p \in Processes : Registration(p) \/ Synchronisation(p) \/ Run(p) \/ StoreRequest(p) \/ Restart(p)
  \/ \E p \in Processes, types \in (SUBSET Types) \ {{}} : BuildRequest(p, types)
  \/ \E p \in Processes, t \in DOMAIN Specs : SubmitSpec(p, t)
  \/ \E p \in Processes, t \in Types : RunJob(p, t)
  \/ Operator

CatalogSpec == CatalogInit /\ [][CatalogNext]_cvars

-----------------------------------------------------------------------------
(* Properties.                                                             *)

(* Definition values are in the range their CHECK constraints ask for, in  *)
(* whatever order defaults and overrides were given: validate_defaults is  *)
(* the only place that sees the two together.                              *)
StoredSettingsAreValid == \A t \in Types : Stored(t) => definitions[t].attempts > 0

(* register_retry_delay_override asserts a positive delay: no catalog that *)
(* registration let through makes to_registry panic at startup.            *)
RetryPoliciesAreUsable ==
  \A p \in Processes : catalog[p] # None =>
    \A t \in DOMAIN catalog[p].jobs : \A k \in DOMAIN catalog[p].jobs[t].delays :
      catalog[p].jobs[t].delays[k] > 0

(* to_registry, "disabled catalog jobs still register handlers so workers  *)
(* can process already-queued work": a running process serves every type   *)
(* of its catalog with the handler made for it.                            *)
QueuedWorkFindsAHandler ==
  \A p \in Processes : registry[p] # None =>
    \A t \in queue : Registered(catalog[p], t) =>
      t \in DOMAIN registry[p] /\ HandlerType[registry[p][t].handler] = t

(* sync_definitions, "preserve an existing disabled row so operator pauses *)
(* survive worker restarts"; only an exact sync or the operator resumes.   *)
PausesSurviveRestarts ==
  [][(\E t \in Types : Stored(t) /\ ~EnabledRow(t) /\ definitions'[t].enabled) =>
       ~ \E p \in Processes : SyncDefinitions(p, {}, FALSE)]_cvars

(* The report names exactly the definitions that this sync turned off,     *)
(* those it created as disabled among them.                                *)
ReportTellsWhatChanged ==
  [][\/ report' = {t \in Types : definitions'[t] # None /\ ~definitions'[t].enabled
                                   /\ (~Stored(t) \/ EnabledRow(t))}
     \/ ~ \E p \in Processes, scope \in Scopes \cup {{}} :
           SyncDefinitions(p, scope, scope # {}) /\ SyncAccepted(catalog[p], scope, scope # {})]_cvars

(* try_schedule asks for an enabled type when a schedule is registered;    *)
(* one whose type is disabled afterwards is not stored, nor is its batch.  *)
StaleSchedulesAreNotStored ==
  [][\A n \in DOMAIN schedules : schedules'[n] # schedules[n] =>
       \A p \in Processes : SyncSchedules(p) \/ SyncSchedulesExact(p) =>
         EnabledType(catalog[p], schedules'[n].type)]_cvars

(* Catalogs and what is stored of them: settings and retry policies are in *)
(* range whatever the order of registrations, queued work of a running     *)
(* process finds its handler, operators' pauses survive restarts, reports  *)
(* name what a sync turned off, and stale schedules are not stored.        *)
CatalogsAreSound ==
  /\ []StoredSettingsAreValid
  /\ []RetryPoliciesAreUsable
  /\ []QueuedWorkFindsAHandler
  /\ PausesSurviveRestarts
  /\ ReportTellsWhatChanged
  /\ StaleSchedulesAreNotStored
=============================================================================
