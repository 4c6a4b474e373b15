-------------------------- MODULE WorkflowProofs --------------------------
(***************************************************************************)
(* The safety properties of module Workflow for every set of runs, steps,  *)
(* dependencies and append requests.                                       *)
(*                                                                         *)
(* All transactions that make a step terminal, insert steps or cancel a    *)
(* run change the steps by Resolve, so the argument is about Resolve once, *)
(* for any transaction that calls it properly (ResolveCall); the actions   *)
(* then only have to be shown to call it so.                               *)
(***************************************************************************)
EXTENDS Workflow, FiniteSetTheorems, TLAPS

(* The prerequisites of a step row are rows too.                           *)
PrereqsPresent ==
  \A d \in Steps : step[d] # "ABSENT" => \A p \in Prereqs(d) : step[p] # "ABSENT"

(* A step that is BLOCKED has an open prerequisite.                        *)
BlockedWaits ==
  \A d \in Steps : step[d] = "BLOCKED" => pending[d] # 0

(* The inductive invariant: the counters are exact only if no terminal     *)
(* step is ended again, which needs the agreement of steps and jobs; a     *)
(* ready step is released only if its run is open, which needs the         *)
(* agreement of runs and steps.                                            *)
WInv ==
  /\ TypeOK
  /\ CountersExact
  /\ StepJobAgrees
  /\ RunStatusAgrees
  /\ PrereqsPresent
  /\ ReleasedStepsWereReady
  /\ BlockedWaits

(* How a transaction calls Resolve: for one run that releases steps, with  *)
(* new rows whose prerequisites are there, ending only steps that are      *)
(* open, and with the jobs of the ended steps ended alike.                 *)
ResolveCall(r, new, ended, st, skipped, jobs) ==
  /\ r \in Runs
  /\ ReleaseAllowed(r)
  /\ st \in Terminal
  /\ new \subseteq StepsOf(r) /\ ended \subseteq StepsOf(r) /\ skipped \subseteq StepsOf(r)
  /\ \A s \in new : step[s] = "ABSENT" /\ \A p \in Prereqs(s) : p \in new \/ step[p] # "ABSENT"
  /\ \A s \in ended : /\ step[s] \notin {"ABSENT"} \cup Terminal
                      /\ st # "CANCELED" => step[s] # "BLOCKED"
  /\ jobs \in [Steps -> JobStatuses]
  /\ \A s \in Steps \ ended : jobs[s] = job[s]
  /\ \A s \in ended : /\ jobs[s] \notin {"PENDING", "LEASED"}
                      /\ jobs[s] = "SUCCEEDED" => st = "SUCCEEDED"
                      /\ jobs[s] = "DEAD_LETTERED" => st = "FAILED"
                      /\ jobs[s] = "CANCELED" => st = "CANCELED"

-----------------------------------------------------------------------------
(* Resolve.                                                                *)

(* What Resolve does to a step, in terms of the set of resolved steps.     *)
LEMMA ResolveSteps ==
  ASSUME NEW r, NEW new, NEW ended, NEW st, NEW skipped, NEW jobs,
         WInv, ResolveCall(r, new, ended, st, skipped, jobs),
         Resolve(r, new, ended, st, skipped, jobs),
         NEW resolved, resolved = Resolved(new, ended, ended \cup skipped)
  PROVE  /\ resolved \subseteq Steps \ ended
         /\ \A d \in resolved : d \in new \/ step[d] = "BLOCKED"
         /\ \A d \in resolved : pending'[d] = 0
         /\ \A d \in resolved : d \in skipped <=> unsatisfied'[d] # 0
         /\ \A d \in Steps \ resolved : d \in new => pending'[d] # 0 \/ d \in ended
         /\ skipped \subseteq resolved
         /\ step' = [s \in Steps |->
              IF s \in ended THEN st
              ELSE IF s \in skipped THEN "CANCELED"
              ELSE IF s \in resolved THEN ReleasedAs(s)
              ELSE IF s \in new THEN "BLOCKED"
              ELSE step[s]]
         /\ job' = [s \in Steps |->
              IF s \in (resolved \ skipped) \ External THEN "PENDING" ELSE jobs[s]]
<1> DEFINE finished == ended \cup skipped
           succeeded == IF st = "SUCCEEDED" THEN ended ELSE {}
           failed == {d \in resolved : UnsatisfiedAfter(d, new, finished, succeeded) # 0}
<1>1. /\ resolved \subseteq Steps \ ended
      /\ \A d \in resolved : d \in new \/ step[d] = "BLOCKED"
      /\ \A d \in resolved : PendingAfter(d, new, finished) = 0
      /\ \A d \in (Steps \ ended) \ resolved : d \in new => PendingAfter(d, new, finished) # 0
  BY DEF Resolved
<1>2. /\ skipped = failed
      /\ pending' = [d \in Steps |-> PendingAfter(d, new, finished)]
      /\ unsatisfied' = [d \in Steps |-> UnsatisfiedAfter(d, new, finished, succeeded)]
  BY DEF Resolve
<1>3. /\ step' = [s \in Steps |->
           IF s \in ended THEN st
           ELSE IF s \in skipped THEN "CANCELED"
           ELSE IF s \in resolved \ failed THEN ReleasedAs(s)
           ELSE IF s \in new THEN "BLOCKED"
           ELSE step[s]]
      /\ job' = [s \in Steps |->
           IF s \in (resolved \ failed) \ External THEN "PENDING" ELSE jobs[s]]
  BY DEF Resolve, ResolveCall
<1>4. skipped = failed /\ skipped \subseteq resolved
  BY <1>2
<1> HIDE DEF failed
<1>5. step' = [s \in Steps |->
           IF s \in ended THEN st
           ELSE IF s \in skipped THEN "CANCELED"
           ELSE IF s \in resolved THEN ReleasedAs(s)
           ELSE IF s \in new THEN "BLOCKED"
           ELSE step[s]]
  BY <1>3, <1>4
<1>6. \A d \in resolved : d \in skipped <=> unsatisfied'[d] # 0
  BY <1>1, <1>2 DEF failed
<1>7. \A d \in resolved : pending'[d] = 0
  BY <1>1, <1>2
<1>8. \A d \in Steps \ resolved : d \in new => pending'[d] # 0 \/ d \in ended
  BY <1>1, <1>2
<1> QED
  BY <1>1, <1>3, <1>4, <1>5, <1>6, <1>7, <1>8

(* Which steps are over and which are rows after Resolve.                  *)
LEMMA ResolveStatuses ==
  ASSUME NEW r, NEW new, NEW ended, NEW st, NEW skipped, NEW jobs,
         WInv, ResolveCall(r, new, ended, st, skipped, jobs),
         Resolve(r, new, ended, st, skipped, jobs)
  PROVE  /\ step' \in [Steps -> StepStatuses]
         /\ skipped \cap ended = {}
         /\ \A s \in ended \cup skipped : s \in Steps /\ step[s] \notin Terminal
         /\ \A s \in skipped : step'[s] = "CANCELED"
         /\ \A s \in ended : step'[s] = st
         /\ \A s \in Steps : step[s] \in Terminal => step'[s] = step[s]
         /\ \A s \in Steps : step'[s] \in Terminal <=>
              (s \in ended \cup skipped \/ step[s] \in Terminal)
         /\ \A s \in Steps : step'[s] = "ABSENT" <=> (s \notin new /\ step[s] = "ABSENT")
<1> DEFINE resolved == Resolved(new, ended, ended \cup skipped)
<1>1. /\ resolved \subseteq Steps \ ended
      /\ \A d \in resolved : d \in new \/ step[d] = "BLOCKED"
      /\ skipped \subseteq resolved
      /\ step' = [s \in Steps |->
              IF s \in ended THEN st
              ELSE IF s \in skipped THEN "CANCELED"
              ELSE IF s \in resolved THEN ReleasedAs(s)
              ELSE IF s \in new THEN "BLOCKED"
              ELSE step[s]]
  BY ResolveSteps
<1> HIDE DEF resolved
<1>2. /\ step \in [Steps -> StepStatuses]
      /\ ended \subseteq Steps
      /\ \A s \in new : step[s] = "ABSENT"
      /\ \A s \in ended : step[s] \notin {"ABSENT"} \cup Terminal
      /\ st \in Terminal
  BY DEF WInv, TypeOK, ResolveCall, StepsOf
<1>3. \A s \in Steps : ReleasedAs(s) \in {"ENQUEUED", "WAITING_FOR_EXTERNAL"}
  BY DEF ReleasedAs
<1> QED
  BY <1>1, <1>2, <1>3 DEF Terminal, StepStatuses

(* Resolve keeps the counters exact.  The steps that end leave the set of  *)
(* open prerequisites, and the ones that do not succeed enter the set of   *)
(* the unsatisfied ones, each of them once.                                *)
LEMMA ResolveCounters ==
  ASSUME NEW r, NEW new, NEW ended, NEW st, NEW skipped, NEW jobs,
         WInv, ResolveCall(r, new, ended, st, skipped, jobs),
         Resolve(r, new, ended, st, skipped, jobs)
  PROVE  /\ CountersExact'
         /\ pending' \in [Steps -> Nat]
         /\ unsatisfied' \in [Steps -> Nat]
<1> DEFINE finished == ended \cup skipped
           succeeded == IF st = "SUCCEEDED" THEN ended ELSE {}
           Open(d) == {p \in Prereqs(d) : step[p] \notin Terminal}
           Failed(d) == {p \in Prereqs(d) :
                           <<p, d>> \in OnSuccess /\ step[p] \in Terminal \ {"SUCCEEDED"}}
           NowFailed(d) == {p \in finished : Unsatisfies(p, d, p \in succeeded)}
<1>1. /\ pending \in [Steps -> Nat] /\ unsatisfied \in [Steps -> Nat]
      /\ \A d \in Steps : step[d] # "ABSENT" =>
           pending[d] = Cardinality(Open(d)) /\ unsatisfied[d] = Cardinality(Failed(d))
  BY DEF WInv, TypeOK, CountersExact
<1>2. /\ pending' = [d \in Steps |-> PendingAfter(d, new, finished)]
      /\ unsatisfied' = [d \in Steps |-> UnsatisfiedAfter(d, new, finished, succeeded)]
  BY DEF Resolve
<1>3. ASSUME NEW d \in Steps, step'[d] # "ABSENT"
      PROVE  /\ pending'[d] = Cardinality({p \in Prereqs(d) : step'[p] \notin Terminal})
             /\ pending'[d] \in Nat
  <2>1. d \in new \/ step[d] # "ABSENT"
    BY <1>3, ResolveStatuses
  <2>2. d \in new => InsertedPending(d, new) = Cardinality(Open(d))
    <3>1. \A p \in new : step[p] \notin Terminal
      BY DEF ResolveCall, Terminal
    <3>2. {p \in Prereqs(d) : p \in new \/ step[p] \notin Terminal} = Open(d)
      BY <3>1
    <3> QED BY <3>2 DEF InsertedPending
  <2>3. pending'[d] = Cardinality(Open(d)) - Cardinality(Prereqs(d) \cap finished)
    BY <1>1, <1>2, <2>1, <2>2 DEF PendingAfter
  <2>4. IsFiniteSet(Open(d))
    BY FS_Subset, WorkflowAssumption DEF Prereqs
  <2>5. Prereqs(d) \cap finished = Open(d) \cap finished
    BY ResolveStatuses
  <2>6. {p \in Prereqs(d) : step'[p] \notin Terminal} = Open(d) \ finished
    BY ResolveStatuses DEF Prereqs
  <2>7. /\ IsFiniteSet(Open(d) \ finished)
        /\ Cardinality(Open(d) \ finished) =
             Cardinality(Open(d)) - Cardinality(Open(d) \cap finished)
    BY <2>4, FS_Difference
  <2>8. Cardinality(Open(d) \ finished) \in Nat
    BY <2>7, FS_CardinalityType
  <2> QED BY <2>3, <2>5, <2>6, <2>7, <2>8
<1>4. ASSUME NEW d \in Steps, step'[d] # "ABSENT"
      PROVE  /\ unsatisfied'[d] = Cardinality({p \in Prereqs(d) :
                  <<p, d>> \in OnSuccess /\ step'[p] \in Terminal \ {"SUCCEEDED"}})
             /\ unsatisfied'[d] \in Nat
  <2>1. d \in new \/ step[d] # "ABSENT"
    BY <1>4, ResolveStatuses
  <2>2. d \in new => InsertedUnsatisfied(d, new) = Cardinality(Failed(d))
    <3>1. \A p \in new : step[p] \notin Terminal
      BY DEF ResolveCall, Terminal
    <3>2. {p \in Prereqs(d) \ new :
             step[p] \in Terminal /\ Unsatisfies(p, d, step[p] = "SUCCEEDED")} = Failed(d)
      BY <3>1 DEF Unsatisfies
    <3> QED BY <3>2 DEF InsertedUnsatisfied
  <2>3. unsatisfied'[d] = Cardinality(Failed(d)) + Cardinality(NowFailed(d))
    BY <1>1, <1>2, <2>1, <2>2 DEF UnsatisfiedAfter
  <2>4. finished \subseteq Steps
    BY ResolveStatuses
  <2>5. IsFiniteSet(Failed(d)) /\ IsFiniteSet(NowFailed(d))
    BY <2>4, FS_Subset, WorkflowAssumption DEF Prereqs
  <2>6. Failed(d) \cap NowFailed(d) = {}
    BY ResolveStatuses
  <2>7. \A p \in finished : p \in succeeded <=> step'[p] = "SUCCEEDED"
    BY ResolveStatuses DEF ResolveCall, Terminal
  <2>8. {p \in Prereqs(d) : <<p, d>> \in OnSuccess /\ step'[p] \in Terminal \ {"SUCCEEDED"}}
          = Failed(d) \cup NowFailed(d)
    <3> HIDE DEF succeeded
    <3>1. OnSuccess \subseteq Edges
      BY WorkflowAssumption
    <3>2. NowFailed(d) = {p \in finished : <<p, d>> \in OnSuccess /\ step'[p] # "SUCCEEDED"}
      BY <2>7 DEF Unsatisfies
    <3>3. \A p \in Steps \ finished :
            step'[p] \in Terminal \ {"SUCCEEDED"} <=> step[p] \in Terminal \ {"SUCCEEDED"}
      BY ResolveStatuses
    <3>4. \A p \in finished : step'[p] \in Terminal /\ step[p] \notin Terminal
      BY <2>4, ResolveStatuses
    <3>5. \A p \in finished : <<p, d>> \in OnSuccess => p \in Prereqs(d)
      BY <3>1, <2>4 DEF Prereqs
    <3>6. Prereqs(d) \subseteq Steps
      BY DEF Prereqs
    <3> HIDE DEF finished, NowFailed
    <3> QED BY <3>2, <3>3, <3>4, <3>5, <3>6
  <2>9. Cardinality(Failed(d) \cup NowFailed(d)) = Cardinality(Failed(d)) + Cardinality(NowFailed(d))
    <3>1. Cardinality(Failed(d)) \in Nat /\ Cardinality(NowFailed(d)) \in Nat
      BY <2>5, FS_CardinalityType
    <3>2. Cardinality(Failed(d) \cup NowFailed(d)) =
            Cardinality(Failed(d)) + Cardinality(NowFailed(d)) - Cardinality(Failed(d) \cap NowFailed(d))
      BY <2>5, FS_Union
    <3>3. Cardinality(Failed(d) \cap NowFailed(d)) = 0
      BY <2>6, FS_EmptySet
    <3> HIDE DEF Failed, NowFailed
    <3> QED BY <3>1, <3>2, <3>3
  <2>10. Cardinality(Failed(d)) \in Nat /\ Cardinality(NowFailed(d)) \in Nat
    BY <2>5, FS_CardinalityType
  <2> HIDE DEF Failed, NowFailed
  <2>11. /\ unsatisfied'[d] = Cardinality(Failed(d) \cup NowFailed(d))
         /\ unsatisfied'[d] \in Nat
    BY <2>3, <2>9, <2>10
  <2> QED BY <2>8, <2>11, Zenon
<1>5. ASSUME NEW d \in Steps, step'[d] = "ABSENT"
      PROVE  pending'[d] = pending[d] /\ unsatisfied'[d] = unsatisfied[d]
  <2>1. d \notin new /\ step[d] = "ABSENT"
    BY <1>5, ResolveStatuses
  <2> QED BY <1>1, <1>2, <2>1 DEF PendingAfter, UnsatisfiedAfter
<1>6. pending' \in [Steps -> Nat] /\ unsatisfied' \in [Steps -> Nat]
  BY <1>1, <1>2, <1>3, <1>4, <1>5
<1> QED
  BY <1>3, <1>4, <1>6 DEF CountersExact

(* A step left BLOCKED by Resolve still has an open prerequisite: Resolve  *)
(* overlooks no step whose last prerequisite it ends.                      *)
LEMMA ResolveBlocked ==
  ASSUME NEW r, NEW new, NEW ended, NEW st, NEW skipped, NEW jobs,
         WInv, ResolveCall(r, new, ended, st, skipped, jobs),
         Resolve(r, new, ended, st, skipped, jobs)
  PROVE  BlockedWaits'
<1> DEFINE finished == ended \cup skipped
           resolved == Resolved(new, ended, finished)
<1> SUFFICES ASSUME NEW d \in Steps, step'[d] = "BLOCKED"
             PROVE  pending'[d] # 0
  BY DEF BlockedWaits
<1>1. d \notin ended /\ d \notin resolved /\ (d \in new \/ step[d] = "BLOCKED")
  <2> HIDE DEF resolved
  <2>1. /\ step' = [s \in Steps |->
              IF s \in ended THEN st
              ELSE IF s \in skipped THEN "CANCELED"
              ELSE IF s \in resolved THEN ReleasedAs(s)
              ELSE IF s \in new THEN "BLOCKED"
              ELSE step[s]]
        /\ skipped \subseteq resolved
    BY ResolveSteps DEF resolved
  <2>2. ReleasedAs(d) # "BLOCKED"
    BY DEF ReleasedAs
  <2>3. st # "BLOCKED"
    BY DEF ResolveCall, Terminal
  <2> QED BY <2>1, <2>2, <2>3
<1>2. pending'[d] = PendingAfter(d, new, finished)
  BY DEF Resolve
<1>3. CASE d \in new
  BY <1>1, <1>3, ResolveSteps
<1>4. CASE d \notin new /\ Prereqs(d) \cap finished = {}
  <2>1. pending[d] \in Nat /\ pending[d] # 0
    BY <1>1, <1>4 DEF WInv, TypeOK, BlockedWaits
  <2>2. Cardinality(Prereqs(d) \cap finished) = 0
    BY <1>4, FS_EmptySet
  <2> QED BY <1>1, <1>2, <1>4, <2>1, <2>2 DEF PendingAfter
<1>5. CASE d \notin new /\ Prereqs(d) \cap finished # {}
  BY <1>1, <1>2, <1>5 DEF Resolved
<1> QED
  BY <1>3, <1>4, <1>5

(* Every step that Resolve releases has its dependencies fulfilled, and    *)
(* what was released before keeps them.                                    *)
LEMMA ResolveReady ==
  ASSUME NEW r, NEW new, NEW ended, NEW st, NEW skipped, NEW jobs,
         WInv, ResolveCall(r, new, ended, st, skipped, jobs),
         Resolve(r, new, ended, st, skipped, jobs)
  PROVE  ReleasedStepsWereReady'
<1> DEFINE resolved == Resolved(new, ended, ended \cup skipped)
           Released == {"ENQUEUED", "RUNNING", "WAITING_FOR_EXTERNAL", "SUCCEEDED", "FAILED"}
<1> HIDE DEF resolved
<1> SUFFICES ASSUME NEW d \in Steps, step'[d] \in Released, NEW p \in Prereqs(d)
             PROVE  /\ step'[p] \in Terminal
                    /\ <<p, d>> \in OnSuccess => step'[p] = "SUCCEEDED"
  BY DEF ReleasedStepsWereReady
<1>1. p \in Steps
  BY DEF Prereqs
<1>2. CASE step[d] \in Released
  <2>1. /\ step[p] \in Terminal
        /\ <<p, d>> \in OnSuccess => step[p] = "SUCCEEDED"
    BY <1>2 DEF WInv, ReleasedStepsWereReady
  <2> QED BY <1>1, <2>1, ResolveStatuses
<1>3. CASE step[d] \notin Released
  <2>1. d \in resolved /\ d \notin skipped
    <3>1. /\ step' = [s \in Steps |->
                IF s \in ended THEN st
                ELSE IF s \in skipped THEN "CANCELED"
                ELSE IF s \in resolved THEN ReleasedAs(s)
                ELSE IF s \in new THEN "BLOCKED"
                ELSE step[s]]
      BY ResolveSteps DEF resolved
    <3>2. d \in ended => st = "CANCELED"
      <4>1. step[d] \in StepStatuses
        BY DEF WInv, TypeOK
      <4> QED BY <4>1, <1>3 DEF ResolveCall, StepStatuses, Terminal
    <3> QED BY <3>1, <3>2, <1>3
  <2>2. pending'[d] = 0 /\ unsatisfied'[d] = 0
    BY <2>1, ResolveSteps DEF resolved
  <2>3. step'[d] # "ABSENT"
    OBVIOUS
  <2> DEFINE Open == {q \in Prereqs(d) : step'[q] \notin Terminal}
             Failed == {q \in Prereqs(d) :
                          <<q, d>> \in OnSuccess /\ step'[q] \in Terminal \ {"SUCCEEDED"}}
  <2>4. Cardinality(Open) = 0 /\ Cardinality(Failed) = 0
    BY <2>2, <2>3, ResolveCounters DEF CountersExact
  <2>5. IsFiniteSet(Open) /\ IsFiniteSet(Failed)
    BY FS_Subset, WorkflowAssumption DEF Prereqs
  <2>6. Open = {} /\ Failed = {}
    <3> HIDE DEF Open, Failed
    <3> QED BY <2>4, <2>5, FS_EmptySet
  <2> QED BY <2>6
<1> QED
  BY <1>2, <1>3

(* Resolve keeps step and job rows in agreement, steps behind present      *)
(* prerequisites, and leaves the steps of other runs alone.                *)
LEMMA ResolveRows ==
  ASSUME NEW r, NEW new, NEW ended, NEW st, NEW skipped, NEW jobs,
         WInv, ResolveCall(r, new, ended, st, skipped, jobs),
         Resolve(r, new, ended, st, skipped, jobs)
  PROVE  /\ job' \in [Steps -> JobStatuses]
         /\ StepJobAgrees'
         /\ PrereqsPresent'
         /\ \A s \in Steps \ StepsOf(r) : step'[s] = step[s]
<1> DEFINE resolved == Resolved(new, ended, ended \cup skipped)
<1>1. /\ resolved \subseteq Steps \ ended
      /\ \A d \in resolved : d \in new \/ step[d] = "BLOCKED"
      /\ skipped \subseteq resolved
      /\ step' = [s \in Steps |->
              IF s \in ended THEN st
              ELSE IF s \in skipped THEN "CANCELED"
              ELSE IF s \in resolved THEN ReleasedAs(s)
              ELSE IF s \in new THEN "BLOCKED"
              ELSE step[s]]
      /\ job' = [s \in Steps |->
              IF s \in (resolved \ skipped) \ External THEN "PENDING" ELSE jobs[s]]
  BY ResolveSteps
<1>2. resolved \subseteq StepsOf(r)
  <2> SUFFICES ASSUME NEW d \in resolved PROVE d \in StepsOf(r)
    OBVIOUS
  <2>1. d \in Steps /\ (d \in new \/ \E p \in ended \cup skipped : p \in Prereqs(d))
    BY DEF Resolved
  <2>2. CASE d \in new
    BY <2>2 DEF ResolveCall
  <2>3. ASSUME NEW p \in ended \cup skipped, p \in Prereqs(d)
        PROVE  d \in StepsOf(r)
    <3>1. RunOf[p] = r
      BY DEF ResolveCall, StepsOf
    <3>2. <<p, d>> \in Edges
      BY <2>3 DEF Prereqs
    <3>3. RunOf[p] = RunOf[d]
      BY <3>2, WorkflowAssumption
    <3> QED BY <2>1, <3>1, <3>3 DEF StepsOf
  <2> QED BY <2>1, <2>2, <2>3
<1> HIDE DEF resolved
<1>3. job' \in [Steps -> JobStatuses]
  BY <1>1 DEF ResolveCall, JobStatuses
<1>4. StepJobAgrees'
  <2> SUFFICES ASSUME NEW s \in Steps
               PROVE  /\ step'[s] = "ENQUEUED" <=> job'[s] = "PENDING"
                      /\ step'[s] = "RUNNING" <=> job'[s] = "LEASED"
                      /\ step'[s] \in {"ENQUEUED", "RUNNING"} => s \notin External
                      /\ job'[s] = "SUCCEEDED" => step'[s] = "SUCCEEDED"
                      /\ job'[s] = "DEAD_LETTERED" => step'[s] = "FAILED"
                      /\ job'[s] = "CANCELED" => step'[s] = "CANCELED"
    BY DEF StepJobAgrees
  <2>1. CASE s \in ended
    BY <1>1, <2>1 DEF ResolveCall, Terminal
  <2>2. s \notin ended => jobs[s] = job[s]
    BY DEF ResolveCall
  <2>3. step[s] \in {"ABSENT", "BLOCKED"} => job[s] = "NONE"
    BY DEF WInv, TypeOK, StepJobAgrees, JobStatuses
  <2>4. s \in new => step[s] = "ABSENT"
    BY DEF ResolveCall
  <2>5. CASE s \notin ended /\ s \in resolved
    BY <1>1, <2>2, <2>3, <2>4, <2>5 DEF ReleasedAs
  <2>6. CASE s \notin ended /\ s \notin resolved /\ s \in new
    BY <1>1, <2>2, <2>3, <2>4, <2>6
  <2>7. CASE s \notin ended /\ s \notin resolved /\ s \notin new
    <3>1. step'[s] = step[s] /\ job'[s] = job[s]
      BY <1>1, <2>2, <2>7
    <3> QED BY <3>1 DEF WInv, StepJobAgrees
  <2> QED BY <2>1, <2>5, <2>6, <2>7
<1>5. PrereqsPresent'
  <2> SUFFICES ASSUME NEW d \in Steps, step'[d] # "ABSENT", NEW p \in Prereqs(d)
               PROVE  step'[p] # "ABSENT"
    BY DEF PrereqsPresent
  <2>1. p \in Steps
    BY DEF Prereqs
  <2>2. d \in new \/ step[d] # "ABSENT"
    BY ResolveStatuses
  <2>3. p \in new \/ step[p] # "ABSENT"
    BY <2>2 DEF WInv, PrereqsPresent, ResolveCall
  <2> QED BY <2>1, <2>3, ResolveStatuses
<1>6. \A s \in Steps \ StepsOf(r) : step'[s] = step[s]
  BY <1>1, <1>2 DEF ResolveCall
<1> QED
  BY <1>3, <1>4, <1>5, <1>6

-----------------------------------------------------------------------------
(* Run status and active claims.                                           *)

(* What EndsAreFinal says of one step.                                     *)
KeepsEnds ==
  /\ \A r \in Runs : run[r] \in ClosedRun => run'[r] = run[r]
  /\ \A s \in Steps : step[s] \in Terminal => step'[s] = step[s]

(* A status computed from the steps agrees with them.                      *)
LEMMA StatusFits ==
  ASSUME NEW r \in Runs, WInv,
         step' \in [Steps -> StepStatuses],
         \A s \in Steps \ StepsOf(r) : step'[s] = step[s],
         \E s \in StepsOf(r) : step'[s] # "ABSENT",
         run' = [run EXCEPT ![r] = StatusOfSteps(r)']
  PROVE  /\ run' \in [Runs -> {"ABSENT"} \cup OpenRun \cup ClosedRun]
         /\ RunStatusAgrees'
<1>1. run \in [Runs -> {"ABSENT"} \cup OpenRun \cup ClosedRun]
  BY DEF WInv, TypeOK
<1>2. StatusOfSteps(r)' \in {"RUNNING", "WAITING_FOR_EXTERNAL", "COMPLETED_WITH_ERRORS", "SUCCEEDED"}
  BY DEF StatusOfSteps
<1>3. run' \in [Runs -> {"ABSENT"} \cup OpenRun \cup ClosedRun]
  BY <1>1, <1>2 DEF OpenRun, ClosedRun
<1>4. ASSUME NEW q \in Runs, q # r
      PROVE  /\ run'[q] = run[q]
             /\ \A s \in StepsOf(q) : step'[s] = step[s]
  <2>1. StepsOf(q) \subseteq Steps \ StepsOf(r)
    BY <1>4 DEF StepsOf
  <2> QED BY <1>1, <1>4, <2>1
<1>5. ASSUME NEW q \in Runs
      PROVE  /\ run'[q] = "ABSENT" <=> \A s \in StepsOf(q) : step'[s] = "ABSENT"
             /\ run'[q] = "RUNNING" => HasStep(q, {"BLOCKED", "ENQUEUED", "RUNNING"})'
             /\ run'[q] \in {"WAITING_FOR_EXTERNAL"} \cup ClosedRun =>
                  ~HasStep(q, {"BLOCKED", "ENQUEUED", "RUNNING"})'
             /\ run'[q] = "WAITING_FOR_EXTERNAL" => HasStep(q, {"WAITING_FOR_EXTERNAL"})'
             /\ run'[q] \in ClosedRun => ~HasStep(q, {"WAITING_FOR_EXTERNAL"})'
             /\ run'[q] = "COMPLETED_WITH_ERRORS" => HasStep(q, {"FAILED", "CANCELED"})'
             /\ run'[q] = "SUCCEEDED" => ~HasStep(q, {"FAILED", "CANCELED"})'
  <2>1. CASE q = r
    <3>1. run'[q] = StatusOfSteps(q)'
      BY <1>1, <2>1
    <3> QED BY <3>1, <2>1 DEF StatusOfSteps, ClosedRun
  <2>2. CASE q # r
    BY <1>4, <2>2 DEF WInv, RunStatusAgrees, HasStep
  <2> QED BY <2>1, <2>2
<1>6. RunStatusAgrees'
  BY <1>5 DEF RunStatusAgrees
<1> QED
  BY <1>3, <1>6

(* Releasing or deferring a claim makes no row of another type.            *)
LEMMA ReleaseOrDeferType ==
  ASSUME NEW r, active_claims \subseteq ActiveClaim, ReleaseOrDefer(r)
  PROVE  active_claims' \subseteq ActiveClaim
BY DEF ReleaseOrDefer, ActiveClaim

(* A transaction of an open run that calls Resolve properly and then       *)
(* recomputes the status keeps the invariant.                              *)
LEMMA ResolveAndRecompute ==
  ASSUME NEW r, NEW new, NEW ended, NEW st, NEW skipped, NEW jobs,
         WInv, ResolveCall(r, new, ended, st, skipped, jobs),
         Resolve(r, new, ended, st, skipped, jobs),
         run[r] \in OpenRun, new \cup ended # {}, Recompute(r),
         live' \in [Steps -> BOOLEAN]
  PROVE  WInv' /\ KeepsEnds
<1>1. r \in Runs /\ run \in [Runs -> {"ABSENT"} \cup OpenRun \cup ClosedRun]
  BY DEF WInv, TypeOK, ResolveCall
<1>2. run' = [run EXCEPT ![r] = StatusOfSteps(r)']
  BY <1>1 DEF Recompute, OpenRun
<1>3. \E s \in StepsOf(r) : step'[s] # "ABSENT"
  BY ResolveStatuses DEF ResolveCall, StepsOf
<1>4. run' \in [Runs -> {"ABSENT"} \cup OpenRun \cup ClosedRun] /\ RunStatusAgrees'
  <2>1. step' \in [Steps -> StepStatuses]
    BY ResolveStatuses
  <2>2. \A s \in Steps \ StepsOf(r) : step'[s] = step[s]
    BY ResolveRows
  <2> QED BY <1>1, <1>2, <1>3, <2>1, <2>2, StatusFits
<1>5. active_claims' \subseteq ActiveClaim
  BY ReleaseOrDeferType DEF Recompute, WInv, TypeOK
<1>6. WInv'
  BY <1>4, <1>5, ResolveStatuses, ResolveCounters, ResolveBlocked, ResolveReady, ResolveRows
  DEF WInv, TypeOK
<1>7. KeepsEnds
  BY <1>1, <1>2, ResolveStatuses DEF KeepsEnds, OpenRun, ClosedRun
<1> QED
  BY <1>6, <1>7

-----------------------------------------------------------------------------
(* The actions.                                                            *)

(* A transaction that leaves runs, steps and jobs alone.                   *)
LEMMA RowsUnchanged ==
  ASSUME WInv, UNCHANGED <<run, step_vars, job>>,
         live' \in [Steps -> BOOLEAN], active_claims' \subseteq ActiveClaim
  PROVE  WInv' /\ KeepsEnds
<1>1. run' = run /\ step' = step /\ pending' = pending /\ unsatisfied' = unsatisfied /\ job' = job
  BY DEF step_vars
<1>2. TypeOK'
  BY <1>1 DEF WInv, TypeOK
<1>3. CountersExact' /\ BlockedWaits' /\ PrereqsPresent' /\ ReleasedStepsWereReady'
  BY <1>1 DEF WInv, CountersExact, BlockedWaits, PrereqsPresent, ReleasedStepsWereReady
<1>4. StepJobAgrees' /\ RunStatusAgrees'
  BY <1>1 DEF WInv, StepJobAgrees, RunStatusAgrees, HasStep
<1> QED
  BY <1>1, <1>2, <1>3, <1>4 DEF WInv, KeepsEnds

(* A claim, and the return of a claimed job to the queue.                  *)
LEMMA StepMoves ==
  ASSUME WInv, NEW s \in Steps, step[s] \in {"ENQUEUED", "RUNNING"},
         NEW v \in {"ENQUEUED", "RUNNING"},
         step' = [step EXCEPT ![s] = v],
         job' = [job EXCEPT ![s] = IF v = "ENQUEUED" THEN "PENDING" ELSE "LEASED"],
         UNCHANGED <<run, pending, unsatisfied, active_claims>>,
         live' \in [Steps -> BOOLEAN]
  PROVE  WInv' /\ KeepsEnds
<1>1. /\ step \in [Steps -> StepStatuses] /\ job \in [Steps -> JobStatuses]
      /\ run' = run /\ pending' = pending /\ unsatisfied' = unsatisfied
      /\ active_claims' = active_claims
  BY DEF WInv, TypeOK
<1>2. /\ \A t \in Steps : t # s => step'[t] = step[t] /\ job'[t] = job[t]
      /\ step'[s] = v
  BY <1>1
<1>3. /\ \A t \in Steps : step'[t] \in Terminal <=> step[t] \in Terminal
      /\ \A t \in Steps : step[t] \in Terminal => step'[t] = step[t]
      /\ \A t \in Steps : step'[t] \in Terminal => step'[t] = step[t]
  BY <1>2 DEF Terminal
<1>4. TypeOK'
  BY <1>1 DEF WInv, TypeOK, StepStatuses, JobStatuses
<1>5. CountersExact'
  <2> SUFFICES ASSUME NEW d \in Steps, step'[d] # "ABSENT"
               PROVE  /\ pending'[d] = Cardinality({p \in Prereqs(d) : step'[p] \notin Terminal})
                      /\ unsatisfied'[d] = Cardinality({p \in Prereqs(d) :
                           <<p, d>> \in OnSuccess /\ step'[p] \in Terminal \ {"SUCCEEDED"}})
    BY DEF CountersExact
  <2>1. step[d] # "ABSENT"
    BY <1>2
  <2>2. /\ {p \in Prereqs(d) : step'[p] \notin Terminal} = {p \in Prereqs(d) : step[p] \notin Terminal}
        /\ {p \in Prereqs(d) : <<p, d>> \in OnSuccess /\ step'[p] \in Terminal \ {"SUCCEEDED"}} =
             {p \in Prereqs(d) : <<p, d>> \in OnSuccess /\ step[p] \in Terminal \ {"SUCCEEDED"}}
    BY <1>3 DEF Prereqs
  <2> QED BY <1>1, <2>1, <2>2 DEF WInv, CountersExact
<1>6. StepJobAgrees'
  BY <1>1, <1>2 DEF WInv, StepJobAgrees
<1>7. RunStatusAgrees'
  <2>1. \A q \in Runs : StepsOf(q) \subseteq Steps
    BY DEF StepsOf
  <2>2. \A q \in Runs :
          /\ HasStep(q, {"BLOCKED", "ENQUEUED", "RUNNING"})' <=> HasStep(q, {"BLOCKED", "ENQUEUED", "RUNNING"})
          /\ HasStep(q, {"WAITING_FOR_EXTERNAL"})' <=> HasStep(q, {"WAITING_FOR_EXTERNAL"})
          /\ HasStep(q, {"FAILED", "CANCELED"})' <=> HasStep(q, {"FAILED", "CANCELED"})
    BY <1>2, <2>1 DEF HasStep
  <2>3. \A q \in Runs : (\A t \in StepsOf(q) : step'[t] = "ABSENT") <=>
                        (\A t \in StepsOf(q) : step[t] = "ABSENT")
    BY <1>2, <2>1
  <2> QED BY <1>1, <2>2, <2>3 DEF WInv, RunStatusAgrees
<1>8. PrereqsPresent'
  BY <1>2 DEF WInv, PrereqsPresent, Prereqs
<1>9. ReleasedStepsWereReady'
  <2> SUFFICES ASSUME NEW d \in Steps,
                      step'[d] \in {"ENQUEUED", "RUNNING", "WAITING_FOR_EXTERNAL", "SUCCEEDED", "FAILED"},
                      NEW p \in Prereqs(d)
               PROVE  /\ step'[p] \in Terminal
                      /\ <<p, d>> \in OnSuccess => step'[p] = "SUCCEEDED"
    BY DEF ReleasedStepsWereReady
  <2>1. p \in Steps
    BY DEF Prereqs
  <2>2. step[d] \in {"ENQUEUED", "RUNNING", "WAITING_FOR_EXTERNAL", "SUCCEEDED", "FAILED"}
    BY <1>2
  <2>3. /\ step[p] \in Terminal
        /\ <<p, d>> \in OnSuccess => step[p] = "SUCCEEDED"
    BY <2>2 DEF WInv, ReleasedStepsWereReady
  <2> QED BY <1>3, <2>1, <2>3
<1>10. BlockedWaits'
  BY <1>1, <1>2 DEF WInv, BlockedWaits
<1>11. KeepsEnds
  BY <1>1, <1>3 DEF KeepsEnds
<1> QED
  BY <1>4, <1>5, <1>6, <1>7, <1>8, <1>9, <1>10, <1>11 DEF WInv

(* The run of an open step is open.                                        *)
LEMMA OpenStepOpenRun ==
  ASSUME WInv, NEW s \in Steps, step[s] \notin {"ABSENT"} \cup Terminal
  PROVE  RunOf[s] \in Runs /\ run[RunOf[s]] \in OpenRun /\ s \in StepsOf(RunOf[s])
<1>1. RunOf[s] \in Runs /\ s \in StepsOf(RunOf[s])
  BY WorkflowAssumption DEF StepsOf
<1>2. run[RunOf[s]] \in {"ABSENT"} \cup OpenRun \cup ClosedRun /\ step[s] \in StepStatuses
  BY <1>1 DEF WInv, TypeOK
<1>3. \/ HasStep(RunOf[s], {"BLOCKED", "ENQUEUED", "RUNNING"})
      \/ HasStep(RunOf[s], {"WAITING_FOR_EXTERNAL"})
  BY <1>1, <1>2 DEF HasStep, StepStatuses, Terminal
<1>4. run[RunOf[s]] # "ABSENT" /\ run[RunOf[s]] \notin ClosedRun
  BY <1>1, <1>3 DEF WInv, RunStatusAgrees
<1> QED
  BY <1>1, <1>2, <1>4

(* The end of a step's job carries the step along.                         *)
LEMMA OnTerminalKeeps ==
  ASSUME WInv, NEW s \in Steps, NEW st \in Terminal,
         NEW skipped \in SUBSET StepsOf(RunOf[s]),
         NEW j \in {"SUCCEEDED", "DEAD_LETTERED", "CANCELED"},
         job[s] \in {"PENDING", "LEASED"},
         j = "SUCCEEDED" => st = "SUCCEEDED",
         j = "DEAD_LETTERED" => st = "FAILED",
         j = "CANCELED" => st = "CANCELED",
         live' \in [Steps -> BOOLEAN],
         OnTerminal(s, st, skipped, [job EXCEPT ![s] = j])
  PROVE  WInv' /\ KeepsEnds
<1> DEFINE r == RunOf[s]
           jobs == [job EXCEPT ![s] = j]
<1>1. step[s] \in {"ENQUEUED", "RUNNING"}
  BY DEF WInv, StepJobAgrees
<1>2. r \in Runs /\ run[r] \in OpenRun /\ s \in StepsOf(r)
  BY <1>1, OpenStepOpenRun DEF Terminal
<1>3. Resolve(r, {}, {s}, st, skipped, jobs) /\ Recompute(r)
  BY <1>1 DEF OnTerminal, Terminal
<1>4. job \in [Steps -> JobStatuses]
  BY DEF WInv, TypeOK
<1>5. ResolveCall(r, {}, {s}, st, skipped, jobs)
  BY <1>1, <1>2, <1>4 DEF ResolveCall, ReleaseAllowed, Terminal, JobStatuses
<1> HIDE DEF r, jobs
<1>6. {} \cup {s} # {}
  OBVIOUS
<1> QED
  BY <1>2, <1>3, <1>5, <1>6, ResolveAndRecompute

(* The rows of a new run.                                                  *)
LEMMA EnqueueRunKeeps ==
  ASSUME WInv, NEW r \in Runs, EnqueueRun(r)
  PROVE  WInv' /\ KeepsEnds
<1> DEFINE new == InitialSteps(r)
<1>1. /\ run[r] = "ABSENT" /\ new # {}
      /\ Resolve(r, new, {}, "CANCELED", {}, job)
      /\ run' = [run EXCEPT ![r] = StatusOfSteps(r)']
      /\ live' = live
  BY DEF EnqueueRun
<1>2. new \subseteq StepsOf(r) /\ new \subseteq Steps
  BY DEF InitialSteps, StepsOf
<1>3. \A s \in new : step[s] = "ABSENT"
  BY <1>1, <1>2 DEF WInv, RunStatusAgrees
<1>4. ASSUME NEW s \in new, NEW p \in Prereqs(s)
      PROVE  p \in new
  <2>1. <<p, s>> \in Edges /\ p \in Steps
    BY DEF Prereqs
  <2>2. RunOf[p] = RunOf[s] /\ (p \in Appended => s \in Appended)
    BY <2>1, WorkflowAssumption
  <2> QED BY <2>1, <2>2 DEF InitialSteps, StepsOf
<1>5. ResolveCall(r, new, {}, "CANCELED", {}, job)
  <2> HIDE DEF new
  <2> QED BY <1>1, <1>2, <1>3, <1>4 DEF ResolveCall, ReleaseAllowed, Terminal, WInv, TypeOK
<1> HIDE DEF new
<1>6. /\ step' \in [Steps -> StepStatuses]
      /\ \A s \in Steps : step[s] \in Terminal => step'[s] = step[s]
      /\ \A s \in Steps : step'[s] = "ABSENT" <=> (s \notin new /\ step[s] = "ABSENT")
  BY <1>1, <1>5, ResolveStatuses
<1>7. /\ job' \in [Steps -> JobStatuses] /\ StepJobAgrees' /\ PrereqsPresent'
      /\ \A s \in Steps \ StepsOf(r) : step'[s] = step[s]
  BY <1>1, <1>5, ResolveRows
<1>8. CountersExact' /\ pending' \in [Steps -> Nat] /\ unsatisfied' \in [Steps -> Nat]
  BY <1>1, <1>5, ResolveCounters
<1>9. BlockedWaits' /\ ReleasedStepsWereReady'
  BY <1>1, <1>5, ResolveBlocked, ResolveReady
<1>10. \E s \in StepsOf(r) : step'[s] # "ABSENT"
  BY <1>1, <1>2, <1>6
<1>11. run' \in [Runs -> {"ABSENT"} \cup OpenRun \cup ClosedRun] /\ RunStatusAgrees'
  BY <1>1, <1>6, <1>7, <1>10, StatusFits
<1>12. active_claims' \subseteq ActiveClaim
  <2>1. ActiveKey[r] = NoKey \/ ActiveKey[r] \in Keys
    BY WorkflowAssumption
  <2> DEFINE claim == [key |-> ActiveKey[r], run |-> r, release_pending |-> FALSE]
  <2>2. ActiveKey[r] \in Keys => claim \in ActiveClaim
    BY DEF ActiveClaim
  <2>3. /\ active_claims \subseteq ActiveClaim
        /\ active_claims' = active_claims \cup (IF ActiveKey[r] = NoKey THEN {} ELSE {claim})
    BY DEF EnqueueRun, WInv, TypeOK
  <2> HIDE DEF claim
  <2> QED BY <2>1, <2>2, <2>3
<1>13. TypeOK'
  BY <1>1, <1>6, <1>7, <1>8, <1>11, <1>12 DEF WInv, TypeOK
<1>14. KeepsEnds
  BY <1>1, <1>6 DEF KeepsEnds, ClosedRun, WInv, TypeOK
<1> QED
  BY <1>7, <1>8, <1>9, <1>11, <1>13, <1>14 DEF WInv

(* The sweep of a canceled run.                                            *)
LEMMA CancelRunKeeps ==
  ASSUME WInv, NEW r \in Runs, CancelRun(r)
  PROVE  WInv' /\ KeepsEnds
<1> DEFINE swept == OpenSteps(r)
           leased == {s \in swept : step[s] \in {"ENQUEUED", "RUNNING"}}
           jobs == [s \in Steps |-> IF s \in leased THEN "CANCELED" ELSE job[s]]
<1>1. /\ run[r] \in OpenRun
      /\ Resolve(r, {}, swept, "CANCELED", {}, jobs)
      /\ run' = [run EXCEPT ![r] = "CANCELED"]
      /\ live' = live
      /\ ReleaseOrDefer(r)
  BY DEF CancelRun, Cancelable
<1>2. /\ swept \subseteq StepsOf(r) /\ swept \subseteq Steps
      /\ \A s \in StepsOf(r) : s \in swept <=> step[s] \notin {"ABSENT"} \cup Terminal
  BY DEF OpenSteps, StepsOf
<1>3. \A s \in swept \ leased : job[s] = "NONE"
  BY <1>2 DEF WInv, TypeOK, StepJobAgrees, JobStatuses, Terminal
<1>4. jobs \in [Steps -> JobStatuses]
  BY DEF WInv, TypeOK, JobStatuses
<1>5. ResolveCall(r, {}, swept, "CANCELED", {}, jobs)
  <2>1. \A s \in swept : jobs[s] \in {"CANCELED", "NONE"}
    BY <1>2, <1>3
  <2>2. \A s \in Steps \ swept : jobs[s] = job[s]
    OBVIOUS
  <2> HIDE DEF jobs, swept
  <2> QED BY <1>1, <1>2, <1>4, <2>1, <2>2 DEF ResolveCall, ReleaseAllowed, Terminal
<1> HIDE DEF jobs, swept
<1>6. /\ step' \in [Steps -> StepStatuses]
      /\ \A s \in swept : step'[s] = "CANCELED"
      /\ \A s \in Steps : step[s] \in Terminal => step'[s] = step[s]
      /\ \A s \in Steps : step'[s] = "ABSENT" <=> step[s] = "ABSENT"
  BY <1>1, <1>5, ResolveStatuses
<1>7. /\ job' \in [Steps -> JobStatuses] /\ StepJobAgrees' /\ PrereqsPresent'
      /\ \A s \in Steps \ StepsOf(r) : step'[s] = step[s]
  BY <1>1, <1>5, ResolveRows
<1>8. CountersExact' /\ pending' \in [Steps -> Nat] /\ unsatisfied' \in [Steps -> Nat]
  BY <1>1, <1>5, ResolveCounters
<1>9. BlockedWaits' /\ ReleasedStepsWereReady'
  BY <1>1, <1>5, ResolveBlocked, ResolveReady
<1>10. \A s \in StepsOf(r) : step'[s] \in {"ABSENT"} \cup Terminal
  BY <1>2, <1>6 DEF StepsOf, Terminal
<1>11. run \in [Runs -> {"ABSENT"} \cup OpenRun \cup ClosedRun]
  BY DEF WInv, TypeOK
<1>12. RunStatusAgrees'
  <2> SUFFICES ASSUME NEW q \in Runs
               PROVE
             /\ run'[q] = "ABSENT" <=> \A s \in StepsOf(q) : step'[s] = "ABSENT"
             /\ run'[q] = "RUNNING" => HasStep(q, {"BLOCKED", "ENQUEUED", "RUNNING"})'
             /\ run'[q] \in {"WAITING_FOR_EXTERNAL"} \cup ClosedRun =>
                  ~HasStep(q, {"BLOCKED", "ENQUEUED", "RUNNING"})'
             /\ run'[q] = "WAITING_FOR_EXTERNAL" => HasStep(q, {"WAITING_FOR_EXTERNAL"})'
             /\ run'[q] \in ClosedRun => ~HasStep(q, {"WAITING_FOR_EXTERNAL"})'
             /\ run'[q] = "COMPLETED_WITH_ERRORS" => HasStep(q, {"FAILED", "CANCELED"})'
             /\ run'[q] = "SUCCEEDED" => ~HasStep(q, {"FAILED", "CANCELED"})'
    BY DEF RunStatusAgrees
  <2>1. CASE q = r
    <3>1. run'[q] = "CANCELED"
      BY <1>1, <1>11, <2>1
    <3>2. ~ \A s \in StepsOf(r) : step'[s] = "ABSENT"
      <4>1. run[r] # "ABSENT"
        BY <1>1 DEF OpenRun
      <4>2. StepsOf(r) \subseteq Steps
        BY DEF StepsOf
      <4> QED BY <4>1, <4>2, <1>6 DEF WInv, RunStatusAgrees
    <3> QED BY <3>1, <3>2, <1>10, <2>1 DEF HasStep, Terminal
  <2>2. CASE q # r
    <3>1. run'[q] = run[q]
      BY <1>1, <1>11, <2>2
    <3>2. \A s \in StepsOf(q) : step'[s] = step[s]
      BY <1>7, <2>2 DEF StepsOf
    <3> QED BY <3>1, <3>2 DEF WInv, RunStatusAgrees, HasStep
  <2> QED BY <2>1, <2>2
<1>13. active_claims' \subseteq ActiveClaim
  BY <1>1, ReleaseOrDeferType DEF WInv, TypeOK
<1>14. TypeOK'
  BY <1>1, <1>6, <1>7, <1>8, <1>11, <1>13 DEF WInv, TypeOK, ClosedRun
<1>15. KeepsEnds
  BY <1>1, <1>6, <1>11 DEF KeepsEnds, OpenRun, ClosedRun
<1> QED
  BY <1>7, <1>8, <1>9, <1>12, <1>14, <1>15 DEF WInv

(* Steps appended to an open run.                                          *)
LEMMA AppendKeeps ==
  ASSUME WInv, NEW m \in Appends, NEW r \in Runs, NEW skipped \in SUBSET AppendOf[m],
         Append(r, AppendOf[m], skipped)
  PROVE  WInv' /\ KeepsEnds
<1> DEFINE new == AppendOf[m]
<1>1. /\ run[r] \in OpenRun /\ new # {} /\ new \subseteq StepsOf(r)
      /\ \A s \in new : step[s] = "ABSENT"
      /\ \A s \in new : \A p \in Prereqs(s) : p \in new \/ step[p] # "ABSENT"
      /\ Resolve(r, new, {}, "CANCELED", skipped, job)
      /\ Recompute(r)
      /\ live' = live
  BY DEF Append, AppendWindow
<1> HIDE DEF new
<1>2. skipped \subseteq StepsOf(r)
  BY <1>1 DEF new
<1>3. ResolveCall(r, new, {}, "CANCELED", skipped, job)
  BY <1>1, <1>2 DEF ResolveCall, ReleaseAllowed, Terminal, WInv, TypeOK
<1>4. new \cup {} # {} /\ live' \in [Steps -> BOOLEAN]
  BY <1>1 DEF WInv, TypeOK
<1> QED
  BY <1>1, <1>3, <1>4, ResolveAndRecompute

(* The completion of an external step.                                     *)
LEMMA CompleteExternalKeeps ==
  ASSUME WInv, NEW s \in Steps, NEW st \in Terminal,
         NEW skipped \in SUBSET StepsOf(RunOf[s]), CompleteExternal(s, st, skipped)
  PROVE  WInv' /\ KeepsEnds
<1> DEFINE r == RunOf[s]
<1>1. /\ step[s] = "WAITING_FOR_EXTERNAL"
      /\ Resolve(r, {}, {s}, st, skipped, job)
      /\ Recompute(r)
      /\ live' = live
  BY DEF CompleteExternal
<1>2. r \in Runs /\ run[r] \in OpenRun /\ s \in StepsOf(r)
  BY <1>1, OpenStepOpenRun DEF Terminal
<1>3. job[s] = "NONE"
  BY <1>1 DEF WInv, TypeOK, StepJobAgrees, JobStatuses
<1>4. ResolveCall(r, {}, {s}, st, skipped, job)
  BY <1>1, <1>2, <1>3 DEF ResolveCall, ReleaseAllowed, Terminal, WInv, TypeOK
<1>5. {} \cup {s} # {} /\ live' \in [Steps -> BOOLEAN]
  BY <1>1 DEF WInv, TypeOK
<1> HIDE DEF r
<1> QED
  BY <1>1, <1>2, <1>4, <1>5, ResolveAndRecompute

(* One end of a step.                                                      *)
LEMMA EndStepKeeps ==
  ASSUME WInv, NEW s \in Steps, EndStep(s)
  PROVE  WInv' /\ KeepsEnds
<1>1. PICK skipped \in SUBSET StepsOf(RunOf[s]) :
        \/ SucceedJob(s, skipped)
        \/ DeadLetterJob(s, skipped)
        \/ \E st \in Terminal : CompleteExternal(s, st, skipped)
  BY DEF EndStep
<1>2. live \in [Steps -> BOOLEAN]
  BY DEF WInv, TypeOK
<1>3. CASE SucceedJob(s, skipped)
  <2>1. live' \in [Steps -> BOOLEAN] /\ job[s] = "LEASED"
        /\ OnTerminal(s, "SUCCEEDED", skipped, [job EXCEPT ![s] = "SUCCEEDED"])
    BY <1>2, <1>3 DEF SucceedJob
  <2> QED BY <2>1, OnTerminalKeeps DEF Terminal
<1>4. CASE DeadLetterJob(s, skipped)
  <2>1. live' \in [Steps -> BOOLEAN] /\ job[s] = "LEASED"
        /\ OnTerminal(s, "FAILED", skipped, [job EXCEPT ![s] = "DEAD_LETTERED"])
    BY <1>2, <1>4 DEF DeadLetterJob
  <2> QED BY <2>1, OnTerminalKeeps DEF Terminal
<1>5. CASE \E st \in Terminal : CompleteExternal(s, st, skipped)
  BY <1>5, CompleteExternalKeeps
<1> QED
  BY <1>1, <1>3, <1>4, <1>5

-----------------------------------------------------------------------------
(* The theorems.                                                           *)

(* Before anything is enqueued.                                            *)
LEMMA InitWInv == Init => WInv
<1> SUFFICES ASSUME Init PROVE WInv
  OBVIOUS
<1>1. \A s \in Steps : step[s] = "ABSENT" /\ job[s] = "NONE"
  BY DEF Init
<1>2. TypeOK
  BY DEF Init, TypeOK, StepStatuses, JobStatuses
<1>3. CountersExact /\ PrereqsPresent /\ ReleasedStepsWereReady /\ BlockedWaits /\ StepJobAgrees
  BY <1>1 DEF CountersExact, PrereqsPresent, ReleasedStepsWereReady, BlockedWaits, StepJobAgrees
<1>4. RunStatusAgrees
  <2>1. \A r \in Runs : run[r] = "ABSENT" /\ \A s \in StepsOf(r) : step[s] = "ABSENT"
    BY <1>1 DEF Init, StepsOf
  <2> QED BY <2>1 DEF RunStatusAgrees, ClosedRun
<1> QED
  BY <1>2, <1>3, <1>4 DEF WInv

(* Every transaction keeps the invariant and everything that has ended.    *)
LEMMA NextKeeps ==
  ASSUME WInv, [Next]_vars
  PROVE  WInv' /\ KeepsEnds
<1>1. live \in [Steps -> BOOLEAN] /\ active_claims \subseteq ActiveClaim
      /\ step \in [Steps -> StepStatuses]
  BY DEF WInv, TypeOK
<1>2. ASSUME NEW s \in Steps, ClaimJob(s)
      PROVE  WInv' /\ KeepsEnds
  <2>1. step[s] = "ENQUEUED"
    BY <1>2 DEF ClaimJob, WInv, StepJobAgrees
  <2>2. /\ step' = [step EXCEPT ![s] = "RUNNING"]
        /\ job' = [job EXCEPT ![s] = "LEASED"]
        /\ live' \in [Steps -> BOOLEAN]
        /\ UNCHANGED <<run, pending, unsatisfied, active_claims>>
    BY <1>1, <1>2, <2>1 DEF ClaimJob
  <2> QED BY <2>1, <2>2, StepMoves
<1>3. ASSUME NEW s \in Steps, ReturnJob(s) \/ ContinueJob(s)
      PROVE  WInv' /\ KeepsEnds
  <2>1. step[s] = "RUNNING"
    BY <1>3 DEF ReturnJob, ContinueJob, WInv, StepJobAgrees
  <2>2. /\ step' = [step EXCEPT ![s] = "ENQUEUED"]
        /\ job' = [job EXCEPT ![s] = "PENDING"]
        /\ live' \in [Steps -> BOOLEAN]
        /\ UNCHANGED <<run, pending, unsatisfied, active_claims>>
    BY <1>1, <1>3, <2>1 DEF ReturnJob, ContinueJob
  <2> QED BY <2>1, <2>2, StepMoves
<1>4. ASSUME NEW s \in Steps, ExpireLease(s)
      PROVE  WInv' /\ KeepsEnds
  BY <1>1, <1>4, RowsUnchanged DEF ExpireLease
<1>5. ASSUME NEW s \in Steps, NEW skipped \in SUBSET StepsOf(RunOf[s]), CancelJob(s, skipped)
      PROVE  WInv' /\ KeepsEnds
  <2>1. live' \in [Steps -> BOOLEAN] /\ job[s] \in {"PENDING", "LEASED"}
        /\ OnTerminal(s, "CANCELED", skipped, [job EXCEPT ![s] = "CANCELED"])
    BY <1>1, <1>5 DEF CancelJob
  <2> QED BY <2>1, OnTerminalKeeps DEF Terminal
<1>6. ASSUME NEW c \in active_claims, CleanupActiveClaim(c)
      PROVE  WInv' /\ KeepsEnds
  BY <1>1, <1>6, RowsUnchanged DEF CleanupActiveClaim
<1>7. CASE UNCHANGED vars
  BY <1>1, <1>7, RowsUnchanged DEF vars, step_vars
<1>8. CASE Next
  BY <1>2, <1>3, <1>4, <1>5, <1>6, <1>8,
     EnqueueRunKeeps, CancelRunKeeps, AppendKeeps, EndStepKeeps DEF Next
<1> QED
  BY <1>7, <1>8

(* The invariant holds in every reachable state.                           *)
THEOREM WorkflowInvariant == Spec => []WInv
<1>1. Init => WInv
  BY InitWInv
<1>2. WInv /\ [Next]_vars => WInv'
  BY NextKeeps
<1> QED
  BY <1>1, <1>2, PTL DEF Spec

(* Every column keeps its type; in particular no prerequisite is           *)
(* subtracted twice from a dependency counter.                             *)
THEOREM WorkflowTypeCorrect == Spec => []TypeOK
<1>1. WInv => TypeOK
  BY DEF WInv
<1> QED
  BY <1>1, WorkflowInvariant, PTL

(* The incremental counters of the terminal cascade and of append always   *)
(* equal a count over the prerequisites.                                   *)
THEOREM CountersExactHolds == Spec => []CountersExact
<1>1. WInv => CountersExact
  BY DEF WInv
<1> QED
  BY <1>1, WorkflowInvariant, PTL

(* A step and its job agree after every transaction of queue or workflow.  *)
THEOREM StepJobAgreesHolds == Spec => []StepJobAgrees
<1>1. WInv => StepJobAgrees
  BY DEF WInv
<1> QED
  BY <1>1, WorkflowInvariant, PTL

(* The stored status of a run is the one its steps have.                   *)
THEOREM RunStatusAgreesHolds == Spec => []RunStatusAgrees
<1>1. WInv => RunStatusAgrees
  BY DEF WInv
<1> QED
  BY <1>1, WorkflowInvariant, PTL

(* No step is released before its dependencies are fulfilled.              *)
THEOREM ReleasedStepsWereReadyHolds == Spec => []ReleasedStepsWereReady
<1>1. WInv => ReleasedStepsWereReady
  BY DEF WInv
<1> QED
  BY <1>1, WorkflowInvariant, PTL

(* No step is forgotten.  The first part: a BLOCKED step counts an open    *)
(* prerequisite.  The second: since the dependencies have no cycle, an     *)
(* open run with a BLOCKED step has one whose open prerequisite is not     *)
(* BLOCKED itself.                                                         *)
THEOREM NoStepStrandedHolds == Spec => []NoStepStranded
<1>1. WInv => NoStepStranded
  <2> SUFFICES ASSUME WInv PROVE NoStepStranded
    OBVIOUS
  <2>1. ASSUME NEW d \in Steps, step[d] = "BLOCKED"
        PROVE  \E p \in Prereqs(d) : step[p] \notin {"ABSENT"} \cup Terminal
    <3> DEFINE Open == {p \in Prereqs(d) : step[p] \notin Terminal}
    <3>1. Cardinality(Open) # 0
      BY <2>1 DEF WInv, CountersExact, BlockedWaits
    <3>2. Open # {}
      BY <3>1, FS_EmptySet
    <3>3. \A p \in Prereqs(d) : step[p] # "ABSENT"
      BY <2>1 DEF WInv, PrereqsPresent
    <3> QED BY <3>2, <3>3
  <2>2. ASSUME NEW r \in Runs, run[r] \in OpenRun
        PROVE  HasStep(r, {"ENQUEUED", "RUNNING", "WAITING_FOR_EXTERNAL"})
    <3> DEFINE B == {d \in StepsOf(r) : step[d] = "BLOCKED"}
    <3>1. CASE B = {}
      BY <2>2, <3>1 DEF WInv, RunStatusAgrees, HasStep, OpenRun
    <3>2. CASE B # {}
      <4>1. B \in SUBSET Steps
        BY DEF StepsOf
      <4>2. PICK d \in B : Prereqs(d) \cap B = {}
        BY <3>2, <4>1, AcyclicAssumption
      <4>3. d \in Steps /\ RunOf[d] = r
        BY DEF StepsOf
      <4>4. PICK p \in Prereqs(d) : step[p] \notin {"ABSENT"} \cup Terminal
        BY <2>1, <4>3
      <4>5. p \in StepsOf(r)
        BY <4>3, WorkflowAssumption DEF Prereqs, StepsOf
      <4>6. step[p] # "BLOCKED"
        BY <4>2, <4>5
      <4>7. step[p] \in StepStatuses
        BY <4>5 DEF WInv, TypeOK, StepsOf
      <4> QED BY <4>4, <4>5, <4>6, <4>7 DEF HasStep, StepStatuses, Terminal
    <3> QED BY <3>1, <3>2
  <2> QED BY <2>1, <2>2 DEF NoStepStranded
<1> QED
  BY <1>1, WorkflowInvariant, PTL

(* A run and a step end once, with one status.                             *)
THEOREM EndsAreFinalHolds == Spec => EndsAreFinal
<1>1. WInv /\ [Next]_vars =>
        [/\ \A r \in Runs : run[r] \in ClosedRun => run'[r] = run[r]
         /\ \A s \in Steps : step[s] \in Terminal => step'[s] = step[s]]_vars
  BY NextKeeps DEF KeepsEnds
<1> QED
  BY <1>1, WorkflowInvariant, PTL DEF Spec, EndsAreFinal

-----------------------------------------------------------------------------
(* Two runs with the same active key never have work under way together,   *)
(* for every set of runs, steps and keys.                                  *)

(* A lease deadline lies in the future only for a job that is leased, or   *)
(* that was canceled while it was.                                         *)
LiveJobs == \A s \in Steps : live[s] => job[s] \in {"LEASED", "CANCELED"}

(* Claim rows: at most one for a key, with the key of its run, and only    *)
(* for a run that is over is the release pending.                          *)
ClaimRows ==
  /\ \A c, d \in active_claims : c.key = d.key => c = d
  /\ \A c \in active_claims : c.key = ActiveKey[c.run]
  /\ \A c \in active_claims : c.release_pending => run[c.run] \in ClosedRun

(* A run with work under way holds its key.                                *)
OccupiedHolds ==
  \A r \in Runs : (Occupied(r) /\ ActiveKey[r] # NoKey) => \E c \in active_claims : c.run = r

ActiveInv == LiveJobs /\ ClaimRows /\ OccupiedHolds

-----------------------------------------------------------------------------
(* Resolve gives a job only to a step that had none.                       *)
LEMMA ResolveKeepsJobs ==
  ASSUME NEW r, NEW new, NEW ended, NEW st, NEW skipped, NEW jobs,
         WInv, ResolveCall(r, new, ended, st, skipped, jobs),
         Resolve(r, new, ended, st, skipped, jobs)
  PROVE  \A s \in Steps : job[s] # "NONE" => job'[s] = jobs[s]
<1> DEFINE resolved == Resolved(new, ended, ended \cup skipped)
<1>1. /\ \A d \in resolved : d \in new \/ step[d] = "BLOCKED"
      /\ job' = [s \in Steps |->
              IF s \in (resolved \ skipped) \ External THEN "PENDING" ELSE jobs[s]]
  BY ResolveSteps
<1> HIDE DEF resolved
<1>2. \A s \in new : step[s] = "ABSENT"
  BY DEF ResolveCall
<1>3. \A s \in Steps : step[s] \in {"ABSENT", "BLOCKED"} => job[s] = "NONE"
  BY DEF WInv, TypeOK, StepJobAgrees, JobStatuses
<1> QED
  BY <1>1, <1>2, <1>3

(* In a run that is over only a canceled job can be live.                  *)
LEMMA ClosedRunLive ==
  ASSUME WInv, LiveJobs, NEW r \in Runs, run[r] \in ClosedRun, Occupied(r)
  PROVE  LiveCanceled(r)
<1>1. PICK s \in StepsOf(r) : live[s]
  BY DEF Occupied, OpenRun, ClosedRun
<1>2. s \in Steps /\ RunOf[s] = r
  BY DEF StepsOf
<1>3. job[s] # "LEASED"
  <2> SUFFICES ASSUME job[s] = "LEASED" PROVE FALSE
    OBVIOUS
  <2>1. step[s] = "RUNNING"
    BY <1>2 DEF WInv, StepJobAgrees
  <2>2. run[r] \in OpenRun
    BY <1>2, <2>1, OpenStepOpenRun DEF Terminal
  <2> QED BY <2>2 DEF OpenRun, ClosedRun
<1> QED
  BY <1>1, <1>2, <1>3 DEF LiveJobs, LiveCanceled

(* A transaction of an open run that leaves no new deadline and, when it   *)
(* closes the run, releases or defers the claim.                           *)
LEMMA OpenRunTransaction ==
  ASSUME WInv, WInv', ActiveInv, LiveJobs', NEW r \in Runs, run[r] \in OpenRun,
         \A q \in Runs \ {r} : run'[q] = run[q],
         \A s \in Steps : live'[s] => live[s],
         \/ run'[r] \in ClosedRun /\ ReleaseOrDefer(r)
         \/ run'[r] \notin ClosedRun /\ active_claims' = active_claims
  PROVE  ActiveInv'
<1>1. active_claims \subseteq ActiveClaim
  BY DEF WInv, TypeOK
<1>2. \A q \in Runs : StepsOf(q) \subseteq Steps
  BY DEF StepsOf
<1>3. \A q \in Runs : Occupied(q)' => Occupied(q)
  BY <1>2 DEF Occupied
<1>4. CASE run'[r] \notin ClosedRun /\ active_claims' = active_claims
  <2>1. ClaimRows'
    BY <1>1, <1>4 DEF ActiveInv, ClaimRows, ActiveClaim, OpenRun, ClosedRun
  <2>2. OccupiedHolds'
    BY <1>3, <1>4 DEF ActiveInv, OccupiedHolds
  <2> QED BY <2>1, <2>2 DEF ActiveInv
<1>5. CASE run'[r] \in ClosedRun /\ LiveCanceled(r)' /\ ReleaseOrDefer(r)
  <2> DEFINE after(c) == IF c.run = r THEN [c EXCEPT !.release_pending = TRUE] ELSE c
  <2>1. active_claims' = {after(c) : c \in active_claims}
    BY <1>5 DEF ReleaseOrDefer
  <2>2. \A c \in active_claims :
          /\ after(c).run = c.run /\ after(c).key = c.key
          /\ after(c).release_pending => c.release_pending \/ c.run = r
    BY <1>1 DEF ActiveClaim
  <2> HIDE DEF after
  <2>3. \A c \in active_claims' : \E d \in active_claims : c = after(d)
    BY <2>1
  <2>4. ClaimRows'
    <3>1. \A c, d \in active_claims' : c.key = d.key => c = d
      BY <2>2, <2>3 DEF ActiveInv, ClaimRows
    <3>2. \A c \in active_claims' : c.key = ActiveKey[c.run]
      BY <2>2, <2>3 DEF ActiveInv, ClaimRows
    <3>3. \A c \in active_claims' : c.release_pending => run'[c.run] \in ClosedRun
      <4> SUFFICES ASSUME NEW d \in active_claims, after(d).release_pending
                   PROVE  run'[d.run] \in ClosedRun
        BY <2>2, <2>3
      <4>1. d.run \in Runs
        BY <1>1 DEF ActiveClaim
      <4> QED BY <1>5, <2>2, <4>1 DEF ActiveInv, ClaimRows
    <3> QED BY <3>1, <3>2, <3>3 DEF ClaimRows
  <2>5. OccupiedHolds'
    BY <1>3, <2>1, <2>2 DEF ActiveInv, OccupiedHolds
  <2> QED BY <2>4, <2>5 DEF ActiveInv
<1>6. CASE run'[r] \in ClosedRun /\ ~LiveCanceled(r)' /\ ReleaseOrDefer(r)
  <2>1. active_claims' = {c \in active_claims : c.run # r}
    BY <1>6 DEF ReleaseOrDefer
  <2>2. ClaimRows'
    BY <1>1, <2>1 DEF ActiveInv, ClaimRows, ActiveClaim
  <2>3. ~Occupied(r)'
    <3>1. ASSUME NEW s \in StepsOf(r), live'[s] PROVE FALSE
      <4>1. s \in Steps /\ RunOf[s] = r
        BY DEF StepsOf
      <4>2. job'[s] = "LEASED"
        BY <1>6, <3>1, <4>1 DEF LiveCanceled, LiveJobs
      <4>3. step'[s] = "RUNNING"
        BY <4>1, <4>2 DEF WInv, StepJobAgrees
      <4>4. run'[r] \notin ClosedRun
        BY <4>1, <4>3 DEF WInv, RunStatusAgrees, HasStep
      <4> QED BY <1>6, <4>4
    <3> QED BY <1>6, <3>1 DEF Occupied, OpenRun, ClosedRun
  <2>4. OccupiedHolds'
    <3> SUFFICES ASSUME NEW q \in Runs, Occupied(q)', ActiveKey[q] # NoKey
                 PROVE  \E c \in active_claims' : c.run = q
      BY DEF OccupiedHolds
    <3>1. q # r
      BY <2>3
    <3> QED BY <1>3, <2>1, <3>1 DEF ActiveInv, OccupiedHolds
  <2> QED BY <2>2, <2>4 DEF ActiveInv
<1> QED
  BY <1>4, <1>5, <1>6

(* Recompute changes one run and releases or defers when it closes it.     *)
LEMMA RecomputeEffect ==
  ASSUME WInv, NEW r \in Runs, run[r] \in OpenRun, Recompute(r)
  PROVE  /\ \A q \in Runs \ {r} : run'[q] = run[q]
         /\ \/ run'[r] \in ClosedRun /\ ReleaseOrDefer(r)
            \/ run'[r] \notin ClosedRun /\ active_claims' = active_claims
BY DEF WInv, TypeOK, Recompute, OpenRun, ClosedRun

(* The end of a step's job.                                                *)
LEMMA OnTerminalActive ==
  ASSUME WInv, WInv', ActiveInv, NEW s \in Steps, NEW st \in Terminal,
         NEW skipped \in SUBSET StepsOf(RunOf[s]),
         NEW j \in {"SUCCEEDED", "DEAD_LETTERED", "CANCELED"},
         job[s] \in {"PENDING", "LEASED"},
         j = "SUCCEEDED" => st = "SUCCEEDED",
         j = "DEAD_LETTERED" => st = "FAILED",
         j = "CANCELED" => st = "CANCELED",
         \A t \in Steps : live'[t] => live[t] /\ (t # s \/ j = "CANCELED"),
         OnTerminal(s, st, skipped, [job EXCEPT ![s] = j])
  PROVE  ActiveInv'
<1> DEFINE r == RunOf[s]
           jobs == [job EXCEPT ![s] = j]
<1>1. step[s] \in {"ENQUEUED", "RUNNING"}
  BY DEF WInv, StepJobAgrees
<1>2. r \in Runs /\ run[r] \in OpenRun /\ s \in StepsOf(r)
  BY <1>1, OpenStepOpenRun DEF Terminal
<1>3. Resolve(r, {}, {s}, st, skipped, jobs) /\ Recompute(r)
  BY <1>1 DEF OnTerminal, Terminal
<1>4. job \in [Steps -> JobStatuses]
  BY DEF WInv, TypeOK
<1>5. ResolveCall(r, {}, {s}, st, skipped, jobs)
  BY <1>1, <1>2, <1>4 DEF ResolveCall, ReleaseAllowed, Terminal, JobStatuses
<1>6. \A t \in Steps : job[t] # "NONE" => job'[t] = jobs[t]
  <2> HIDE DEF r, jobs
  <2> QED BY <1>3, <1>5, ResolveKeepsJobs
<1>7. LiveJobs'
  BY <1>4, <1>6 DEF ActiveInv, LiveJobs
<1> HIDE DEF r, jobs
<1>8. /\ \A q \in Runs \ {r} : run'[q] = run[q]
      /\ \/ run'[r] \in ClosedRun /\ ReleaseOrDefer(r)
         \/ run'[r] \notin ClosedRun /\ active_claims' = active_claims
  BY <1>2, <1>3, RecomputeEffect
<1> QED
  BY <1>2, <1>7, <1>8, OpenRunTransaction

(* A transaction that ends or inserts steps without touching a job of its  *)
(* own: the completion of an external step, and an append.                 *)
LEMMA ExternalActive ==
  ASSUME WInv, WInv', ActiveInv,
         NEW r \in Runs, NEW new, NEW ended, NEW st, NEW skipped,
         run[r] \in OpenRun, ResolveCall(r, new, ended, st, skipped, job),
         Resolve(r, new, ended, st, skipped, job), Recompute(r), live' = live
  PROVE  ActiveInv'
<1>1. \A t \in Steps : job[t] # "NONE" => job'[t] = job[t]
  BY ResolveKeepsJobs
<1>2. LiveJobs'
  BY <1>1 DEF ActiveInv, LiveJobs
<1>3. /\ \A q \in Runs \ {r} : run'[q] = run[q]
      /\ \/ run'[r] \in ClosedRun /\ ReleaseOrDefer(r)
         \/ run'[r] \notin ClosedRun /\ active_claims' = active_claims
  BY RecomputeEffect
<1> QED
  BY <1>2, <1>3, OpenRunTransaction

(* The completion of an external step.                                     *)
LEMMA CompleteExternalActive ==
  ASSUME WInv, WInv', ActiveInv, NEW s \in Steps, NEW st \in Terminal,
         NEW skipped \in SUBSET StepsOf(RunOf[s]), CompleteExternal(s, st, skipped)
  PROVE  ActiveInv'
<1> DEFINE r == RunOf[s]
<1>1. /\ step[s] = "WAITING_FOR_EXTERNAL"
      /\ Resolve(r, {}, {s}, st, skipped, job)
      /\ Recompute(r)
      /\ live' = live
  BY DEF CompleteExternal
<1>2. r \in Runs /\ run[r] \in OpenRun /\ s \in StepsOf(r)
  BY <1>1, OpenStepOpenRun DEF Terminal
<1>3. job[s] = "NONE"
  BY <1>1 DEF WInv, TypeOK, StepJobAgrees, JobStatuses
<1>4. ResolveCall(r, {}, {s}, st, skipped, job)
  BY <1>1, <1>2, <1>3 DEF ResolveCall, ReleaseAllowed, Terminal, WInv, TypeOK
<1> HIDE DEF r
<1> QED
  BY <1>1, <1>2, <1>4, ExternalActive

(* An append.                                                              *)
LEMMA AppendActive ==
  ASSUME WInv, WInv', ActiveInv, NEW m \in Appends, NEW r \in Runs,
         NEW skipped \in SUBSET AppendOf[m], Append(r, AppendOf[m], skipped)
  PROVE  ActiveInv'
<1> DEFINE new == AppendOf[m]
<1>1. /\ run[r] \in OpenRun /\ new \subseteq StepsOf(r)
      /\ \A s \in new : step[s] = "ABSENT"
      /\ \A s \in new : \A p \in Prereqs(s) : p \in new \/ step[p] # "ABSENT"
      /\ Resolve(r, new, {}, "CANCELED", skipped, job)
      /\ Recompute(r)
      /\ live' = live
  BY DEF Append, AppendWindow
<1> HIDE DEF new
<1>2. skipped \subseteq StepsOf(r)
  BY <1>1 DEF new
<1>3. ResolveCall(r, new, {}, "CANCELED", skipped, job)
  BY <1>1, <1>2 DEF ResolveCall, ReleaseAllowed, Terminal, WInv, TypeOK
<1> QED
  BY <1>1, <1>3, ExternalActive

(* A cancellation keeps the claim while a canceled handler is live.        *)
LEMMA CancelRunActive ==
  ASSUME WInv, WInv', ActiveInv, NEW r \in Runs, CancelRun(r)
  PROVE  ActiveInv'
<1> DEFINE swept == OpenSteps(r)
           leased == {s \in swept : step[s] \in {"ENQUEUED", "RUNNING"}}
           jobs == [s \in Steps |-> IF s \in leased THEN "CANCELED" ELSE job[s]]
<1>1. /\ run[r] \in OpenRun
      /\ Resolve(r, {}, swept, "CANCELED", {}, jobs)
      /\ run' = [run EXCEPT ![r] = "CANCELED"]
      /\ live' = live
      /\ ReleaseOrDefer(r)
  BY DEF CancelRun, Cancelable
<1>2. /\ swept \subseteq StepsOf(r) /\ swept \subseteq Steps
      /\ \A s \in swept : step[s] \notin {"ABSENT"} \cup Terminal
  BY DEF OpenSteps, StepsOf
<1>3. \A s \in swept \ leased : job[s] = "NONE"
  BY <1>2 DEF WInv, TypeOK, StepJobAgrees, JobStatuses, Terminal
<1>4. jobs \in [Steps -> JobStatuses]
  BY DEF WInv, TypeOK, JobStatuses
<1>5. ResolveCall(r, {}, swept, "CANCELED", {}, jobs)
  <2>1. \A s \in swept : jobs[s] \in {"CANCELED", "NONE"}
    BY <1>2, <1>3
  <2>2. \A s \in Steps \ swept : jobs[s] = job[s]
    OBVIOUS
  <2> HIDE DEF jobs, swept
  <2> QED BY <1>1, <1>2, <1>4, <2>1, <2>2 DEF ResolveCall, ReleaseAllowed, Terminal
<1>6. \A s \in Steps : job[s] # "NONE" => job'[s] = jobs[s]
  <2> HIDE DEF jobs, swept
  <2> QED BY <1>1, <1>5, ResolveKeepsJobs
<1>7. LiveJobs'
  BY <1>1, <1>6 DEF ActiveInv, LiveJobs
<1>8. run'[r] \in ClosedRun /\ \A q \in Runs \ {r} : run'[q] = run[q]
  BY <1>1 DEF WInv, TypeOK, ClosedRun
<1> QED
  BY <1>1, <1>7, <1>8, OpenRunTransaction

(* A new run takes a key only when no row has it.                          *)
LEMMA EnqueueRunActive ==
  ASSUME WInv, ActiveInv, NEW r \in Runs, EnqueueRun(r)
  PROVE  ActiveInv'
<1> DEFINE new == InitialSteps(r)
           claim == [key |-> ActiveKey[r], run |-> r, release_pending |-> FALSE]
<1>1. /\ run[r] = "ABSENT" /\ KeyFree(r)
      /\ Resolve(r, new, {}, "CANCELED", {}, job)
      /\ run' = [run EXCEPT ![r] = StatusOfSteps(r)']
      /\ active_claims' = active_claims \cup (IF ActiveKey[r] = NoKey THEN {} ELSE {claim})
      /\ live' = live
  BY DEF EnqueueRun
<1>2. new \subseteq StepsOf(r) /\ new \subseteq Steps
  BY DEF InitialSteps, StepsOf
<1>3. \A s \in new : step[s] = "ABSENT"
  BY <1>1, <1>2 DEF WInv, RunStatusAgrees
<1>4. ASSUME NEW s \in new, NEW p \in Prereqs(s)
      PROVE  p \in new
  <2>1. <<p, s>> \in Edges /\ p \in Steps
    BY DEF Prereqs
  <2>2. RunOf[p] = RunOf[s] /\ (p \in Appended => s \in Appended)
    BY <2>1, WorkflowAssumption
  <2> QED BY <2>1, <2>2 DEF InitialSteps, StepsOf
<1> HIDE DEF new
<1>5. ResolveCall(r, new, {}, "CANCELED", {}, job)
  BY <1>1, <1>2, <1>3, <1>4 DEF ResolveCall, ReleaseAllowed, Terminal, WInv, TypeOK
<1>6. \A t \in Steps : job[t] # "NONE" => job'[t] = job[t]
  BY <1>1, <1>5, ResolveKeepsJobs
<1>7. LiveJobs'
  BY <1>1, <1>6 DEF ActiveInv, LiveJobs
<1>8. claim.key = ActiveKey[r] /\ claim.run = r /\ claim.release_pending = FALSE
  OBVIOUS
<1> HIDE DEF claim
<1>9. ClaimRows'
  <2>1. \A c, d \in active_claims' : c.key = d.key => c = d
    BY <1>1, <1>8 DEF ActiveInv, ClaimRows, KeyFree
  <2>2. \A c \in active_claims' : c.key = ActiveKey[c.run]
    BY <1>1, <1>8 DEF ActiveInv, ClaimRows
  <2>3. \A c \in active_claims' : c.release_pending => run'[c.run] \in ClosedRun
    <3> SUFFICES ASSUME NEW c \in active_claims', c.release_pending
                 PROVE  run'[c.run] \in ClosedRun
      OBVIOUS
    <3>1. c \in active_claims
      BY <1>1, <1>8
    <3>2. run[c.run] \in ClosedRun /\ c.run \in Runs
      BY <3>1 DEF ActiveInv, ClaimRows, WInv, TypeOK, ActiveClaim
    <3> QED BY <1>1, <3>2 DEF ClosedRun, WInv, TypeOK
  <2> QED BY <2>1, <2>2, <2>3 DEF ClaimRows
<1>10. OccupiedHolds'
  <2> SUFFICES ASSUME NEW q \in Runs, Occupied(q)', ActiveKey[q] # NoKey
               PROVE  \E c \in active_claims' : c.run = q
    BY DEF OccupiedHolds
  <2>1. CASE q = r
    BY <1>1, <1>8, <2>1
  <2>2. CASE q # r
    <3>1. run'[q] = run[q]
      BY <1>1, <2>2 DEF WInv, TypeOK
    <3>2. Occupied(q)
      BY <1>1, <3>1 DEF Occupied
    <3> QED BY <1>1, <3>2 DEF ActiveInv, OccupiedHolds
  <2> QED BY <2>1, <2>2
<1> QED
  BY <1>7, <1>9, <1>10 DEF ActiveInv

(* A step's job is claimed, returned, or its deadline passes.              *)
LEMMA JobMovesActive ==
  ASSUME WInv, WInv', ActiveInv, NEW s \in Steps,
         run' = run, active_claims' = active_claims,
         \A t \in Steps : t # s => live'[t] = live[t] /\ job'[t] = job[t],
         \/ live'[s] = FALSE
         \/ job'[s] = "LEASED"
  PROVE  ActiveInv'
<1>1. LiveJobs'
  BY DEF ActiveInv, LiveJobs
<1>2. ClaimRows'
  BY DEF ActiveInv, ClaimRows
<1>3. ASSUME NEW q \in Runs, Occupied(q)'
      PROVE  Occupied(q)
  <2>1. CASE run[q] \in OpenRun
    BY <2>1 DEF Occupied
  <2>2. CASE run[q] \notin OpenRun
    <3>1. PICK t \in StepsOf(q) : live'[t]
      BY <1>3, <2>2 DEF Occupied
    <3>2. t \in Steps /\ RunOf[t] = q
      BY DEF StepsOf
    <3>3. CASE t # s
      BY <3>1, <3>2, <3>3 DEF Occupied
    <3>4. CASE t = s
      <4>1. step'[t] = "RUNNING"
        BY <3>1, <3>2, <3>4 DEF WInv, StepJobAgrees
      <4>2. run'[q] \notin ClosedRun /\ run'[q] # "ABSENT"
        BY <3>2, <4>1 DEF WInv, RunStatusAgrees, HasStep
      <4>3. run[q] \in OpenRun
        BY <4>2 DEF WInv, TypeOK
      <4> QED BY <2>2, <4>3
    <3> QED BY <3>3, <3>4
  <2> QED BY <2>1, <2>2
<1>4. OccupiedHolds'
  BY <1>3 DEF ActiveInv, OccupiedHolds
<1> QED
  BY <1>1, <1>2, <1>4 DEF ActiveInv

(* The cleanup deletes the row of a run that is over and quiet.            *)
LEMMA CleanupActive ==
  ASSUME WInv, ActiveInv, NEW c \in active_claims, CleanupActiveClaim(c)
  PROVE  ActiveInv'
<1>1. /\ c.release_pending /\ ~LiveCanceled(c.run)
      /\ active_claims' = active_claims \ {c}
      /\ run' = run /\ job' = job /\ live' = live
  BY DEF CleanupActiveClaim
<1>2. c.run \in Runs /\ run[c.run] \in ClosedRun
  BY <1>1 DEF ActiveInv, ClaimRows, WInv, TypeOK, ActiveClaim
<1>3. ~Occupied(c.run)
  BY <1>1, <1>2, ClosedRunLive DEF ActiveInv
<1>4. LiveJobs' /\ ClaimRows'
  BY <1>1 DEF ActiveInv, LiveJobs, ClaimRows
<1>5. OccupiedHolds'
  <2> SUFFICES ASSUME NEW q \in Runs, Occupied(q)', ActiveKey[q] # NoKey
               PROVE  \E d \in active_claims' : d.run = q
    BY DEF OccupiedHolds
  <2>1. Occupied(q)
    BY <1>1 DEF Occupied
  <2>2. PICK d \in active_claims : d.run = q
    BY <2>1 DEF ActiveInv, OccupiedHolds
  <2> QED BY <1>1, <1>3, <2>1, <2>2
<1> QED
  BY <1>4, <1>5 DEF ActiveInv

(* Every transaction keeps the invariant.                                  *)
LEMMA NextKeepsActive ==
  ASSUME WInv, WInv', ActiveInv, [Next]_vars
  PROVE  ActiveInv'
<1>1. live \in [Steps -> BOOLEAN] /\ job \in [Steps -> JobStatuses]
  BY DEF WInv, TypeOK
<1>2. ASSUME NEW s \in Steps, ClaimJob(s) \/ ReturnJob(s) \/ ContinueJob(s) \/ ExpireLease(s)
      PROVE  ActiveInv'
  <2>1. /\ run' = run /\ active_claims' = active_claims
        /\ \A t \in Steps : t # s => live'[t] = live[t] /\ job'[t] = job[t]
        /\ live'[s] = FALSE \/ job'[s] = "LEASED"
    BY <1>1, <1>2 DEF ClaimJob, ReturnJob, ContinueJob, ExpireLease
  <2> QED BY <2>1, JobMovesActive
<1>3. ASSUME NEW s \in Steps, EndStep(s)
      PROVE  ActiveInv'
  <2>1. PICK skipped \in SUBSET StepsOf(RunOf[s]) :
          \/ SucceedJob(s, skipped)
          \/ DeadLetterJob(s, skipped)
          \/ \E st \in Terminal : CompleteExternal(s, st, skipped)
    BY <1>3 DEF EndStep
  <2>2. CASE SucceedJob(s, skipped)
    <3>1. /\ \A t \in Steps : live'[t] => live[t] /\ t # s
          /\ job[s] = "LEASED"
          /\ OnTerminal(s, "SUCCEEDED", skipped, [job EXCEPT ![s] = "SUCCEEDED"])
      BY <1>1, <2>2 DEF SucceedJob
    <3> QED BY <3>1, OnTerminalActive DEF Terminal
  <2>3. CASE DeadLetterJob(s, skipped)
    <3>1. /\ \A t \in Steps : live'[t] => live[t] /\ t # s
          /\ job[s] = "LEASED"
          /\ OnTerminal(s, "FAILED", skipped, [job EXCEPT ![s] = "DEAD_LETTERED"])
      BY <1>1, <2>3 DEF DeadLetterJob
    <3> QED BY <3>1, OnTerminalActive DEF Terminal
  <2>4. CASE \E st \in Terminal : CompleteExternal(s, st, skipped)
    BY <2>4, CompleteExternalActive
  <2> QED BY <2>1, <2>2, <2>3, <2>4
<1>4. ASSUME NEW s \in Steps, NEW skipped \in SUBSET StepsOf(RunOf[s]), CancelJob(s, skipped)
      PROVE  ActiveInv'
  <2>1. /\ \A t \in Steps : live'[t] => live[t]
        /\ job[s] \in {"PENDING", "LEASED"}
        /\ OnTerminal(s, "CANCELED", skipped, [job EXCEPT ![s] = "CANCELED"])
    BY <1>1, <1>4 DEF CancelJob
  <2> QED BY <2>1, OnTerminalActive DEF Terminal
<1>5. CASE UNCHANGED vars
  BY <1>5 DEF vars, step_vars, ActiveInv, LiveJobs, ClaimRows, OccupiedHolds, Occupied
<1>6. CASE Next
  BY <1>2, <1>3, <1>4, <1>6, EnqueueRunActive, CancelRunActive, AppendActive, CleanupActive DEF Next
<1> QED
  BY <1>5, <1>6

-----------------------------------------------------------------------------
(* Two runs with the same active key never have work under way together:   *)
(* both would hold the one row of the key.                                 *)
THEOREM ActiveKeyExclusionHolds == Spec => []ActiveKeyExclusion
<1>1. Init => ActiveInv
  BY DEF Init, ActiveInv, LiveJobs, ClaimRows, OccupiedHolds, Occupied, OpenRun, StepsOf
<1>2. WInv /\ WInv' /\ ActiveInv /\ [Next]_vars => ActiveInv'
  BY NextKeepsActive
<1>3. WInv /\ ActiveInv => ActiveKeyExclusion
  <2> SUFFICES ASSUME WInv, ActiveInv, NEW r \in Runs, NEW q \in Runs,
                      Occupied(r), Occupied(q), ActiveKey[r] # NoKey, ActiveKey[r] = ActiveKey[q]
               PROVE  r = q
    BY DEF ActiveKeyExclusion
  <2>1. PICK c \in active_claims : c.run = r
    BY DEF ActiveInv, OccupiedHolds
  <2>2. PICK d \in active_claims : d.run = q
    BY DEF ActiveInv, OccupiedHolds
  <2>3. c.key = d.key
    BY <2>1, <2>2 DEF ActiveInv, ClaimRows
  <2> QED BY <2>1, <2>2, <2>3 DEF ActiveInv, ClaimRows
<1> QED
  BY <1>1, <1>2, <1>3, WorkflowInvariant, PTL DEF Spec

=============================================================================
