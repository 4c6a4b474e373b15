----------------------------- MODULE WorkflowDag -----------------------------
(***************************************************************************)
(* Building a workflow: the step builder, the run builder and the DAG      *)
(* builder with the checks each of them makes at once and those it leaves  *)
(* to the end, the validation of a whole run with its cycle search, and    *)
(* the validation of steps appended to a run that is already persisted.    *)
(*                                                                         *)
(* A builder is consumed by an error: the client is then "failed".         *)
(* Identifiers are members of Keys or Blank, what remains of a string once *)
(* it is trimmed; a setting is absent, acceptable or not acceptable.       *)
(***************************************************************************)
EXTENDS Naturals, Sequences, SequencesExt, FiniteSetsExt

CONSTANTS
  Keys,            \* step keys
  Blank,           \* a string of white space
  JobTypes,        \* job types clients name, Blank among them or not
  Settings,        \* optional settings of a job step
  Modes,           \* release modes of a dependency
  Options,         \* values clients give to the options of a run
  MaxSteps,        \* bound: steps of a workflow, appended ones included
  MaxDependencies  \* bound: dependencies of a workflow

ASSUME DagAssumption ==
  /\ Blank \notin Keys /\ Blank # "none"
  /\ Settings \subseteq {"max_attempts", "timeout_seconds", "execution_resource_key", "stage", "priority", "continuation"}
  /\ Options \subseteq {"ok", "blank", "too_long"}
  /\ MaxSteps \in Nat /\ MaxDependencies \in Nat

VARIABLES
  api,        \* the builder in use: "dag", "run", "append", or "failed"
  draft,      \* WorkflowStepEnqueueBuilder in use, or NoDraft
  run,        \* the run, or the batch of steps to append
  persisted,  \* the steps the database holds
  answer      \* what the last validation was given and what it said

dvars == <<api, draft, run, persisted, answer>>

NoDraft == [key |-> "none"]
NoRun == [workflow_type |-> "ok", idempotency_key |-> "none", active_key |-> "none", result |-> "none", steps |-> <<>>]
NoAnswer == [is |-> "ok", of |-> "none", step |-> "none", input |-> NoRun]

DagInit ==
  /\ api \in {"dag", "run"}
  /\ draft = NoDraft
  /\ run \in {NoRun, [NoRun EXCEPT !.workflow_type = "blank"]}
  /\ persisted = <<>>
  /\ answer = NoAnswer

KeysOf(steps) == {steps[i].key : i \in DOMAIN steps}
DependenciesOf(steps) == FoldSeq(LAMBDA s, n : n + Len(s.deps), 0, steps)

-----------------------------------------------------------------------------
(* Validation.  A check is an error, or "ok"; the first error counts.      *)

Ok == [is |-> "ok", step |-> "none"]
Check(wrong, name, key) == IF wrong THEN [is |-> name, step |-> key] ELSE Ok
FirstOf(checks) ==
  LET wrong == {i \in DOMAIN checks : checks[i] # Ok} IN
  IF wrong = {} THEN Ok ELSE checks[Min(wrong)]

Has(step, setting, value) == setting \in Settings /\ step.set[setting] = value

(* validate_step_shape.                                                    *)
StepShape(s) ==
  FirstOf(<< Check(s.key = Blank, "BlankStepKey", s.key),
    IF s.kind = "JOB"
    THEN FirstOf(<<
           Check(s.job_type \in {"none", Blank}, "BlankStepJobType", s.key),
           Check(Has(s, "max_attempts", "bad"), "NonPositiveStepMaxAttempts", s.key),
           Check(Has(s, "timeout_seconds", "bad"), "NonPositiveStepTimeoutSeconds", s.key),
           Check(Has(s, "execution_resource_key", "bad"), "InvalidStepExecutionResourceKey", s.key) >>)
    ELSE FirstOf(<<
           Check(s.job_type # "none", "ExternalStepJobTypeNotAllowed", s.key),
           Check(\E f \in Settings : s.set[f] # "none", "ExternalStepQueueSettingsNotAllowed", s.key) >>) >>)

(* validate_step_dependency_shape for the i-th dependency of a step.       *)
DependencyShape(s, i) ==
  FirstOf(<< Check(s.deps[i].on = Blank, "BlankDependencyStepKey", s.key),
             Check(s.deps[i].on = s.key, "SelfDependency", s.key),
             Check(\E h \in 1..(i - 1) : s.deps[h].on = s.deps[i].on, "DuplicateDependency", s.key) >>)

(* validate_step_enqueue, validate_step_enqueue_input.                     *)
ValidateStep(s) ==
  FirstOf(<<StepShape(s), FirstOf([i \in DOMAIN s.deps |-> DependencyShape(s, i)])>>)

(* The steps whose adjacency lists lead to the step at i.  The search runs *)
(* once keys and dependencies are known to be distinct, so that each list  *)
(* names i at most once.                                                   *)
Prerequisites(steps, i) ==
  {p \in DOMAIN steps : \E d \in DOMAIN steps[i].deps : steps[i].deps[d].on = steps[p].key}

(* is_acyclic: the steps that wait for nothing, ...                        *)
SearchStart(steps) ==
  LET indegree == [i \in DOMAIN steps |-> Cardinality(Prerequisites(steps, i))] IN
  [indegree |-> indegree, ready |-> {i \in DOMAIN steps : indegree[i] = 0}, visited |-> 0]

(* ... one turn of its loop, in which one of the ready steps takes its     *)
(* edges away (which one comes first does not change what is counted), ... *)
Visit(steps, s) ==
  LET p == CHOOSE p \in s.ready : TRUE
      next == {i \in DOMAIN steps : p \in Prerequisites(steps, i)}
      left == [i \in DOMAIN steps |-> IF i \in next THEN s.indegree[i] - 1 ELSE s.indegree[i]] IN
  IF s.ready = {} THEN s
  ELSE [indegree |-> left, ready |-> (s.ready \ {p}) \cup {i \in next : left[i] = 0}, visited |-> s.visited + 1]

(* ... and the loop, which visits no step twice.                           *)
Search(steps) ==
  LET after[n \in 0..Len(steps)] == IF n = 0 THEN SearchStart(steps) ELSE Visit(steps, after[n - 1])
  IN  after[Len(steps)]

IsAcyclic(steps) == Search(steps).visited = Len(steps)

(* Mutant: a prerequisite has to come before the step that names it.       *)
KnownBefore(steps, known, i) == known \cup {steps[h].key : h \in 1..(i - 1)}

(* Prerequisites may come in any order.                                    *)
Known(steps, known, i) == known \cup KeysOf(steps)

(* The checks of validate_workflow_dag and of validate_workflow_step_append*)
(* over a list of steps; known are the keys of the persisted steps.        *)
Shapes(steps, known) ==
  FirstOf([i \in DOMAIN steps |-> FirstOf(
    << IF api = "append" THEN ValidateStep(steps[i]) ELSE StepShape(steps[i]),
       Check(steps[i].key \in known \cup {steps[h].key : h \in 1..(i - 1)}, "DuplicateStepKey", steps[i].key) >>)])

Dependencies(steps, known) ==
  FirstOf([i \in DOMAIN steps |-> FirstOf([d \in DOMAIN steps[i].deps |-> FirstOf(
    << DependencyShape(steps[i], d),
       Check(steps[i].deps[d].on \notin Known(steps, known, i), "MissingDependency", steps[i].key) >>)])])

ValidateSteps(steps, known) ==
  FirstOf(<< Check(steps = <<>>, "EmptySteps", "none"), Shapes(steps, known), Dependencies(steps, known),
             Check(~IsAcyclic(steps), "CycleDetected", "none") >>)

(* validate_workflow_run_enqueue.                                          *)
ValidateRun(r) ==
  FirstOf(<< Check(r.idempotency_key = "blank", "BlankIdempotencyKey", "none"),
             Check(r.active_key = "blank", "BlankActiveKey", "none"),
             Check(r.active_key = "too_long", "ActiveKeyTooLong", "none"),
             Check(r.result = Blank, "BlankResultStepKey", "none"),
             Check(r.workflow_type = "blank", "BlankWorkflowType", "none"),
             ValidateSteps(r.steps, {}),
             Check(r.result # "none" /\ r.result \notin KeysOf(r.steps), "UnknownResultStepKey", "none") >>)

-----------------------------------------------------------------------------
(* WorkflowStepEnqueueBuilder.                                             *)

Said(check, of, input) == answer' = [is |-> check.is, of |-> of, step |-> check.step, input |-> input]
Fails(check, of, input) ==
  /\ check # Ok
  /\ api' = "failed" /\ draft' = NoDraft /\ run' = NoRun
  /\ Said(check, of, input)
  /\ UNCHANGED persisted

Building == api \in {"dag", "run", "append"}
Room == Len(run.steps) + Len(persisted) < MaxSteps
RoomForEdge ==
  DependenciesOf(run.steps) + DependenciesOf(persisted) + (IF draft = NoDraft THEN 0 ELSE Len(draft.deps)) < MaxDependencies

(* new and new_external: a job step starts in stage "queued".              *)
NewDraft(key, kind, job_type) ==
  [key |-> key, kind |-> kind, job_type |-> job_type, deps |-> <<>>,
   set |-> [f \in Settings |-> IF f = "stage" /\ kind = "JOB" THEN "ok" ELSE "none"]]

(* try_new and try_new_external refuse blank identifiers; new does not.    *)
NewStep(key, kind, job_type, checked) ==
  /\ Building /\ draft = NoDraft /\ Room
  /\ LET d == NewDraft(key, kind, job_type)
         check == FirstOf(<< Check(key = Blank, "BlankStepKey", key),
                             Check(kind = "JOB" /\ job_type = Blank, "BlankStepJobType", key) >>) IN
     \/ checked /\ Fails(check, "step", [NoRun EXCEPT !.steps = <<d>>])
     \/ /\ checked => check = Ok
        /\ draft' = d
        /\ answer' = NoAnswer
        /\ UNCHANGED <<api, run, persisted>>

(* The setters and their clear_ counterparts.                              *)
Configure(setting, value) ==
  /\ draft # NoDraft /\ draft.set[setting] # value
  /\ value = "bad" => setting \in {"max_attempts", "timeout_seconds", "execution_resource_key"}
  /\ draft' = [draft EXCEPT !.set[setting] = value]
  /\ UNCHANGED <<api, run, persisted, answer>>

WithDependency(s, on, mode) == [s EXCEPT !.deps = Append(@, [on |-> on, mode |-> mode])]

(* depends_on_success, depends_on_terminal, dependency.                    *)
DependsOn(key, mode) ==
  /\ draft # NoDraft /\ RoomForEdge
  /\ draft' = WithDependency(draft, key, mode)
  /\ UNCHANGED <<api, run, persisted, answer>>

(* try_build, then step() of the builder in use; a batch to append is a    *)
(* plain list.                                                             *)
AddStep ==
  /\ draft # NoDraft
  /\ LET check == FirstOf(<< ValidateStep(draft),
                             Check(api = "dag" /\ draft.key \in KeysOf(run.steps), "DuplicateStepKey", draft.key) >>) IN
     \/ Fails(check, "step", [run EXCEPT !.steps = Append(@, draft)])
     \/ /\ check = Ok
        /\ run' = [run EXCEPT !.steps = Append(@, draft)]
        /\ draft' = NoDraft
        /\ UNCHANGED <<api, persisted, answer>>

-----------------------------------------------------------------------------
(* WorkflowRunEnqueueBuilder and WorkflowDagBuilder.                       *)

(* after_success, after_terminal.                                          *)
After(key, on, mode) ==
  /\ api = "dag" /\ draft = NoDraft /\ RoomForEdge
  /\ LET check == FirstOf(<< Check(key = Blank, "BlankStepKey", key),
                             Check(on = Blank, "BlankDependencyStepKey", key),
                             Check(key \notin KeysOf(run.steps), "UnknownStepKey", key) >>) IN
     \/ Fails(check, "after", run)
     \/ /\ check = Ok
        /\ run' = [run EXCEPT !.steps = [i \in DOMAIN @ |->
                     IF @[i].key = key THEN WithDependency(@[i], on, mode) ELSE @[i]]]
        /\ UNCHANGED <<api, draft, persisted, answer>>

(* idempotency_key, active_key and their clear_ counterparts.              *)
SetOption(option, value) ==
  /\ api \in {"dag", "run"} /\ draft = NoDraft /\ run[option] # value
  /\ option = "idempotency_key" => value # "too_long"
  /\ run' = [run EXCEPT ![option] = value]
  /\ UNCHANGED <<api, draft, persisted, answer>>

(* result_step checks its argument at once, result_step_key at the end.    *)
ResultStep(key) ==
  /\ api \in {"dag", "run"} /\ draft = NoDraft /\ run.result # key
  /\ \/ api = "dag" /\ Fails(Check(key = Blank, "BlankResultStepKey", "none"), "result", run)
     \/ /\ api = "dag" => key # Blank
        /\ run' = [run EXCEPT !.result = key]
        /\ UNCHANGED <<api, draft, persisted, answer>>

(* try_build; the DAG builder looks at each step by itself first.          *)
Build ==
  /\ api \in {"dag", "run"} /\ draft = NoDraft
  /\ LET steps == [i \in DOMAIN run.steps |-> ValidateStep(run.steps[i])]
         check == IF api = "dag" THEN FirstOf(<<FirstOf(steps), ValidateRun(run)>>) ELSE ValidateRun(run) IN
     \/ Fails(check, "build", run)
     \/ /\ check = Ok
        /\ persisted' = run.steps
        /\ Said(Ok, "build", run)
        /\ api' = "append" /\ run' = NoRun
        /\ UNCHANGED draft

(* validate_workflow_step_append for the batch of append_workflow_steps.   *)
AppendSteps ==
  /\ api = "append" /\ draft = NoDraft
  /\ LET check == ValidateSteps(run.steps, KeysOf(persisted)) IN
     \/ Fails(check, "append", run)
     \/ /\ check = Ok
        /\ persisted' = persisted \o run.steps
        /\ Said(Ok, "append", run)
        /\ run' = NoRun
        /\ UNCHANGED <<api, draft>>

DagNext ==
  \/ \E key \in Keys \cup {Blank}, checked \in BOOLEAN :
       \/ NewStep(key, "EXTERNAL", "none", checked)
       \/ \E job_type \in JobTypes : NewStep(key, "JOB", job_type, checked)
  \/ \E setting \in Settings, value \in {"none", "ok", "bad"} : Configure(setting, value)
  \/ \E on \in Keys \cup {Blank}, mode \in Modes :
       DependsOn(on, mode) \/ \E key \in Keys \cup {Blank} : After(key, on, mode)
  \/ \E value \in Options \cup {"none"} : SetOption("idempotency_key", value) \/ SetOption("active_key", value)
  \/ (Options # {} /\ \E key \in Keys \cup {Blank, "none"} : ResultStep(key))
  \/ AddStep \/ Build \/ AppendSteps

DagSpec == DagInit /\ [][DagNext]_dvars

-----------------------------------------------------------------------------
(* Reference definitions and properties.                                   *)

(* No set of steps waits for itself.                                       *)
WellFounded(steps) ==
  \A set \in (SUBSET DOMAIN steps) \ {{}} :
    \E i \in set : \A d \in DOMAIN steps[i].deps : \A p \in set : steps[p].key # steps[i].deps[d].on

Waits(steps, i) == {steps[i].deps[d].on : d \in DOMAIN steps[i].deps}

WellFormed(s) ==
  /\ s.key \in Keys
  /\ IF s.kind = "JOB"
     THEN s.job_type \notin {"none", Blank} /\ \A f \in Settings : s.set[f] # "bad"
     ELSE s.job_type = "none" /\ \A f \in Settings : s.set[f] = "none"

WaitsOnce(s) == \A d, e \in DOMAIN s.deps : s.deps[d].on = s.deps[e].on => d = e
DistinctKeys(steps) == \A h, i \in DOMAIN steps : steps[h].key = steps[i].key => h = i

Sound(steps, known) ==
  /\ \A i \in DOMAIN steps : WellFormed(steps[i]) /\ WaitsOnce(steps[i])
  /\ DistinctKeys(steps) /\ KeysOf(steps) \cap known = {}
  /\ \A i \in DOMAIN steps : Waits(steps, i) \subseteq (KeysOf(steps) \ {steps[i].key}) \cup known
  /\ WellFounded(steps)

(* What is persisted is a workflow that can run to its end: distinct,      *)
(* well-formed steps, prerequisites that exist, none that waits for itself *)
(* through others - over every sequence of appends, although each append   *)
(* only looks at its own batch.                                            *)
PersistedIsSound == persisted # <<>> => Sound(persisted, {})

(* A run that is accepted has the step it takes its result from, and keys  *)
(* of the permitted form.                                                  *)
AcceptedRunIsComplete ==
  answer.of = "build" /\ answer.is = "ok" =>
    /\ answer.input.result \in KeysOf(answer.input.steps) \cup {"none"}
    /\ answer.input.idempotency_key \in {"none", "ok"} /\ answer.input.active_key \in {"none", "ok"}
    /\ answer.input.workflow_type = "ok"

(* Nothing is refused that the reference definition accepts, whatever the  *)
(* order in which steps and dependencies were given.                       *)
RefusedIsUnsound ==
  answer.of \in {"build", "append"} /\ answer.is # "ok" =>
    LET r == answer.input
        known == IF answer.of = "append" THEN KeysOf(persisted) ELSE {} IN
    \/ r.steps = <<>> \/ ~Sound(r.steps, known)
    \/ r.workflow_type = "blank" \/ r.idempotency_key = "blank" \/ r.active_key \in {"blank", "too_long"}
    \/ r.result \notin KeysOf(r.steps) \cup {"none"}

(* An error has a step of its name with the fault it stands for.           *)
Names(error, steps, known) ==
  LET Named == {i \in DOMAIN steps : steps[i].key = error.step} IN
  /\ error.is = "CycleDetected" => ~WellFounded(steps)
  /\ error.is = "MissingDependency" => \E i \in Named : ~(Waits(steps, i) \subseteq known \cup KeysOf(steps))
  /\ error.is = "SelfDependency" => \E i \in Named : error.step \in Waits(steps, i)
  /\ error.is = "DuplicateDependency" => \E i \in Named : ~WaitsOnce(steps[i])
  /\ error.is = "DuplicateStepKey" => error.step \in known \/ \E h, i \in Named : h # i
  /\ error.is \in {"ExternalStepQueueSettingsNotAllowed", "NonPositiveStepMaxAttempts",
                   "NonPositiveStepTimeoutSeconds", "InvalidStepExecutionResourceKey", "BlankStepJobType"} =>
       \E i \in Named : ~WellFormed(steps[i])

(* The error names a fault of the step it names: the first fault found is  *)
(* a real one, also when the input has several.                            *)
ErrorNamesTheFault ==
  Names(answer, answer.input.steps, IF answer.of = "append" THEN KeysOf(persisted) ELSE {})

(* Validation of a workflow is exact: what is stored is an acyclic graph   *)
(* with all of its parts, what is refused had a fault, and the error names *)
(* it.                                                                     *)
ValidationIsExact ==
  /\ PersistedIsSound
  /\ RefusedIsUnsound
  /\ AcceptedRunIsComplete
  /\ ErrorNamesTheFault
=============================================================================
