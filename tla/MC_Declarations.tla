-------------------------- MODULE MC_Declarations --------------------------
(***************************************************************************)
(* What an application declares: its catalog, the configuration of its     *)
(* runtime, the steps of its workflows, and when a failed attempt is to be *)
(* retried.  The four share no state: a behaviour explores the one that    *)
(* its case names and leaves the others in an initial state.               *)
(***************************************************************************)
EXTENDS Catalog, RuntimeStartup, WorkflowDag, RetryTiming, TLC

CONSTANTS p1, p2, ka, kb, kc, jt, ha, ha2, hx, n1, n2, Cases

VARIABLE case

-----------------------------------------------------------------------------
(* Deployments of a small application: two handlers for type a and one     *)
(* whose type is blank, a type b that only the database knows; settings    *)
(* and overrides with values in and out of range.                          *)

MCHandlerType == [h \in Handlers |->
  IF h = hx THEN BlankName ELSE ka]

Set(attempts, enabled) == [attempts |-> attempts, enabled |-> enabled]
Plan(name, type, valid, active) == [name |-> name, type |-> type, valid |-> valid, active |-> active]

MCDefaults == {Set(0, TRUE), Set(1, FALSE)}
MCOverrides == {Set(0, None), Set(2, TRUE), Set(None, FALSE)}
MCDelays == {-1, 0, 5}
MCSchedules == {Plan(n1, ka, TRUE, TRUE), Plan(n1, ka, FALSE, TRUE), Plan(n2, ka, TRUE, FALSE)}
MCSpecs == ka :> Set(2, TRUE)
MCScopes == {{ka}, {ka, kb}}

(* One process in every order of registrations.                            *)
Single == INSTANCE Catalog WITH Processes <- {p1}, MaxOps <- 3, MaxStarts <- 1

(* Two processes with one type, one of which restarts beside the other.    *)
Rolling == INSTANCE Catalog WITH
  Handlers <- {ha}, DefinitionOverrides <- {Set(2, FALSE)}, Defaults <- {Set(1, FALSE)},
  FailureCodes <- {}, RetryDelays <- {}, Schedules <- {Plan(n1, ka, TRUE, TRUE)},
  Scopes <- {{ka}}, MaxOps <- 2, MaxStarts <- 2

RollingCase == definitions[kb] = None /\ starts[p2] = 1

-----------------------------------------------------------------------------
(* Environments in which at most two variables are set, to texts below, at *)
(* and above their limits; direct configurations with at most two fields   *)
(* out of range.                                                           *)

Unset == [v \in Variables |-> Missing]
Texts == {Garbage, -1, 0, 1, 9, 10, 1000, 1001}
MCEnvironments ==
  UNION {{[Unset EXCEPT ![v] = x, ![w] = y] : x \in Texts, y \in Texts \cup {Missing}} : v \in Variables, w \in Variables}

Smallest == [worker |-> "id", poll |-> 1, batch |-> 1, ttl |-> 1, concurrency |-> 1,
             reaper |-> 1, schedule |-> 1, retry |-> 1]
Numbers == DOMAIN Smallest \ {"worker"}
MCConfigs ==
  {Smallest, [Smallest EXCEPT !.worker = "blank"], [Smallest EXCEPT !.batch = 1001]}
    \cup {[Smallest EXCEPT ![f] = 0] : f \in Numbers}
    \cup {[Smallest EXCEPT ![f] = 0, ![g] = 0] : f \in Numbers, g \in Numbers}
MCPromoterConfigs == {[poll |-> 0, batch |-> 1], [poll |-> 5, batch |-> 1000]}

FromEnvironment == INSTANCE RuntimeStartup WITH Configs <- {}, MaxCalls <- 1

-----------------------------------------------------------------------------
(* Graphs of three steps, and one step with all of its settings.           *)

Graph == INSTANCE WorkflowDag WITH JobTypes <- {}, Options <- {}, Modes <- {"ON_SUCCESS"}
OneStep == INSTANCE WorkflowDag WITH Keys <- {ka, kb}, MaxSteps <- 1, MaxDependencies <- 1

Unconfigured ==
  draft = NoDraft \/ draft.set = Graph!NewDraft(draft.key, draft.kind, draft.job_type).set

-----------------------------------------------------------------------------
(* A microsecond of two nanoseconds and a millisecond of two microseconds. *)
NoRetryOverrides == <<>>
BothJitters == {-1, 0}

-----------------------------------------------------------------------------
MCInit ==
  /\ case \in Cases
  /\ CatalogInit
  /\ StartupInit /\ (case # "environment" => env = Unset)
  /\ DagInit /\ (case \notin {"graph", "step"} => api = "dag" /\ run = NoRun)
  /\ RetryInit /\ (case # "retry" => jitter = 0)

MCNext ==
  \/ case = "catalog" /\ Single!CatalogNext /\ UNCHANGED <<case, uvars, dvars, tvars>>
  \/ case = "rolling" /\ Rolling!CatalogNext /\ RollingCase' /\ UNCHANGED <<case, uvars, dvars, tvars>>
  \/ case = "builder" /\ StartupNext /\ UNCHANGED <<case, cvars, dvars, tvars>>
  \/ case = "environment" /\ FromEnvironment!StartupNext /\ UNCHANGED <<case, cvars, dvars, tvars>>
  \/ case = "graph" /\ Graph!DagNext /\ Unconfigured' /\ UNCHANGED <<case, cvars, uvars, tvars>>
  \/ case = "step" /\ OneStep!DagNext /\ UNCHANGED <<case, cvars, uvars, tvars>>
  \/ case = "retry" /\ RetryNext /\ UNCHANGED <<case, cvars, uvars, dvars>>

MCSpec == MCInit /\ [][MCNext]_<<case, cvars, uvars, dvars, tvars>>
=============================================================================
