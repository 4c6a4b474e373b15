--------------------------- MODULE JobQueueProofs ---------------------------
(***************************************************************************)
(* Proofs about module JobQueue, for every set of jobs, workers and        *)
(* resources and every value of the durations, budgets and bounds: first   *)
(* leases and resource claims, then attempts and runs.                     *)
(***************************************************************************)
EXTENDS JobQueue, TLAPS

-----------------------------------------------------------------------------
(* Types of the row updates.                                               *)

(* Starting and finishing an attempt leaves a set of attempt rows.         *)
LEMMA AttemptUpdatesType ==
  ASSUME job_attempts \subseteq AttemptRow, NEW j \in Jobs
  PROVE  /\ StartAttempt(j) \subseteq AttemptRow
         /\ FinishAttempt(j) \subseteq AttemptRow
  BY DEF StartAttempt, FinishAttempt, AttemptRow

(* Releasing, quiescing and extending a claim leaves a set of claim rows.  *)
LEMMA ClaimUpdatesType ==
  ASSUME resource_claims \subseteq ClaimRow, lease \in [Jobs -> Nat], NEW j \in Jobs
  PROVE  /\ ReleaseResourceClaim(j) \subseteq ClaimRow
         /\ QuiesceResourceClaim(j) \subseteq ClaimRow
         /\ \A left \in Nat : ExtendResourceClaim(j, left) \subseteq ClaimRow
  BY DEF ReleaseResourceClaim, QuiesceResourceClaim, ExtendResourceClaim, ClaimRow

(* A lease never has a negative time left.                                 *)
LEMMA LeaseLeftsNat == LeaseLefts \subseteq Nat
  BY ConstantsAssumption DEF LeaseLefts

(* Only jobs that are LEASED have an identity to present.                  *)
LEMMA CurrentIdentitiesLeased ==
  ASSUME NEW id \in CurrentIdentities
  PROVE  /\ id.job \in Jobs
         /\ status[id.job] = "LEASED"
         /\ id.run = run_number[id.job]
         /\ id.attempt = attempt[id.job]
         /\ id.worker = worker_id[id.job]
  BY DEF CurrentIdentities

-----------------------------------------------------------------------------
(* Type correctness needs one fact that is not a type: releasing a claim   *)
(* subtracts one from the attempt, so a LEASED row must have at least one. *)

LeasedHasAttempt == \A j \in Jobs : status[j] = "LEASED" => attempt[j] >= 1

TypeInv == TypeOK /\ LeasedHasAttempt

(* The row updates that end a lease keep types.                            *)
LEMMA LeaseEndTypes ==
  ASSUME TypeInv, NEW j \in Jobs, status[j] = "LEASED", NEW delay \in Nat,
         \/ DeadLetter(j)
         \/ ScheduleRetry(j, delay)
         \/ UndoClaim(j, delay)
  PROVE  TypeInv'
<1> USE DEF TypeInv, TypeOK, LeasedHasAttempt, Statuses, EndLease
<1>1. CASE DeadLetter(j)
  BY <1>1, AttemptUpdatesType, ClaimUpdatesType DEF DeadLetter
<1>2. CASE ScheduleRetry(j, delay)
  BY <1>2, AttemptUpdatesType, ClaimUpdatesType DEF ScheduleRetry
<1>3. CASE UndoClaim(j, delay)
  BY <1>3, ClaimUpdatesType DEF UndoClaim
<1> QED BY <1>1, <1>2, <1>3

(* The types, and that a LEASED row has consumed an attempt, are inductive. *)
LEMMA TypeInvStep == TypeInv /\ [Next]_vars => TypeInv'
<1> SUFFICES ASSUME TypeInv, [Next]_vars PROVE TypeInv'
  OBVIOUS
<1> USE ConstantsAssumption DEF TypeInv, TypeOK, LeasedHasAttempt, Statuses
<1>1. ASSUME NEW j \in Jobs, NEW d \in RetryDelays, Enqueue(j, d) PROVE TypeInv'
  BY <1>1 DEF Enqueue
<1>2. ASSUME NEW w \in Workers, NEW j \in Jobs, NEW origin \in Origins,
             NEW left \in LeaseLefts, NEW allowed, Claim(w, j, allowed, origin, left)
      PROVE  TypeInv'
  <2>1. left \in Nat BY LeaseLeftsNat
  <2>2. NewAttempt(j, origin) \in AttemptRow
    BY DEF NewAttempt, AttemptRow
  <2>3. ResourceOf[j] # NoResource => NewClaim(j, w, left) \in ClaimRow
    BY <2>1 DEF NewClaim, ClaimRow
  <2> QED BY <1>2, <2>1, <2>2, <2>3 DEF Claim
<1>3. ASSUME NEW id \in CurrentIdentities, LeaseCall(id) PROVE TypeInv'
  <2>0. id.job \in Jobs /\ status[id.job] = "LEASED" BY CurrentIdentitiesLeased
  <2>1. CASE MarkRunning(id)
    BY <2>0, <2>1, AttemptUpdatesType DEF MarkRunning, queue_vars
  <2>2. ASSUME NEW left \in LeaseLefts, Heartbeat(id, left) PROVE TypeInv'
    BY <2>0, <2>2, LeaseLeftsNat, ClaimUpdatesType DEF Heartbeat
  <2>3. CASE CompleteSuccess(id)
    BY <2>0, <2>3, AttemptUpdatesType, ClaimUpdatesType DEF CompleteSuccess, EndLease
  <2>4. ASSUME NEW d \in RetryDelays, CompleteContinuation(id, d) PROVE TypeInv'
    BY <2>0, <2>4, AttemptUpdatesType, ClaimUpdatesType
       DEF CompleteContinuation, AdvanceToNextRun, EndLease
  <2>5. ASSUME NEW retryable \in BOOLEAN, NEW d \in RetryDelays,
               CompleteFailure(id, retryable, d)
        PROVE  TypeInv'
    BY <2>0, <2>5, LeaseEndTypes DEF CompleteFailure
  <2>6. ASSUME NEW d \in RetryDelays, ReleaseUnstarted(id, d) PROVE TypeInv'
    BY <2>0, <2>6, LeaseEndTypes DEF ReleaseUnstarted
  <2> QED BY <1>3, <2>1, <2>2, <2>3, <2>4, <2>5, <2>6 DEF LeaseCall
<1>4. ASSUME NEW j \in Jobs, Reap(j) PROVE TypeInv'
  BY <1>4, LeaseEndTypes DEF Reap, ExpiredLease
<1>5. ASSUME NEW j \in Jobs, ReapDeferred(j) PROVE TypeInv'
  BY <1>5, ClaimUpdatesType DEF ReapDeferred
<1>6. ASSUME NEW c \in resource_claims, CleanupResourceClaim(c) PROVE TypeInv'
  BY <1>6 DEF CleanupResourceClaim, queue_vars
<1>7. ASSUME NEW j \in Jobs, Cancel(j) PROVE TypeInv'
  BY <1>7, AttemptUpdatesType, ClaimUpdatesType DEF Cancel
<1>8. ASSUME NEW j \in Jobs, NEW s, NEW r, CompareAndRequeue(j, s, r) PROVE TypeInv'
  BY <1>8 DEF CompareAndRequeue, AdvanceToNextRun, EndLease
<1>9. CASE Tick
  <2>1. \A t \in Nat : Elapse(t) \in Nat BY DEF Elapse
  <2>2. \A c \in ClaimRow : [c EXCEPT !.left = Elapse(c.left)] \in ClaimRow
    <3> HIDE DEF TypeInv, TypeOK, LeasedHasAttempt
    <3> QED BY <2>1 DEF ClaimRow
  <2>3. resource_claims' = {[c EXCEPT !.left = Elapse(c.left)] : c \in resource_claims}
    BY <1>9 DEF Tick, TimePasses
  <2>4. resource_claims' \subseteq ClaimRow
    <3>1. resource_claims \subseteq ClaimRow OBVIOUS
    <3> HIDE DEF TypeInv, TypeOK, LeasedHasAttempt
    <3> QED BY <2>2, <2>3, <3>1
  <2> QED BY <1>9, <2>1, <2>4 DEF Tick, TimePasses
<1>10. CASE UNCHANGED vars
  BY <1>10 DEF vars, queue_vars
<1> QED BY <1>1, <1>2, <1>3, <1>4, <1>5, <1>6, <1>7, <1>8, <1>9, <1>10 DEF Next

(* Every reachable row has the type its column declares; in particular no  *)
(* release of an unstarted claim takes an attempt counter below zero.      *)
THEOREM TypeCorrect == Spec => []TypeOK
<1>1. Init => TypeInv
  BY ConstantsAssumption DEF Init, TypeInv, TypeOK, LeasedHasAttempt, Statuses
<1>2. TypeInv => TypeOK BY DEF TypeInv
<1> QED BY <1>1, <1>2, TypeInvStep, PTL DEF Spec

-----------------------------------------------------------------------------
(* Execution resources.                                                    *)

ClaimInv == TypeOK /\ LeaseColumns /\ ClaimsBackLeases

(* The columns of a claim row.                                             *)
LEMMA ClaimRowTypes ==
  ASSUME TypeOK, NEW c \in resource_claims
  PROVE  /\ c.resource \in Resources
         /\ c.job \in Jobs
         /\ c.left \in Nat
         /\ c.quiescing \in BOOLEAN
  BY DEF TypeOK, ClaimRow

(* A lease that ends without a cancellation takes exactly its claim row    *)
(* with it.                                                                *)
LEMMA LeaseEndClaims ==
  ASSUME ClaimInv, NEW j \in Jobs, status[j] = "LEASED",
         NEW s \in {"PENDING", "SUCCEEDED", "DEAD_LETTERED"},
         EndLease(j, s),
         resource_claims' = ReleaseResourceClaim(j),
         \A k \in Jobs : k # j => run_number'[k] = run_number[k] /\ attempt'[k] = attempt[k]
  PROVE  LeaseColumns' /\ ClaimsBackLeases'
<1> USE DEF ClaimInv, TypeOK, EndLease
<1>1. LeaseColumns'
  BY DEF LeaseColumns
<1>2. \A c \in resource_claims' : c \in resource_claims /\ c.job \in Jobs /\ ~ClaimOfLease(c, j)
  BY ClaimRowTypes DEF ReleaseResourceClaim
<1>3. \A c \in resource_claims' : c.job = j => c.quiescing
  BY <1>2 DEF ClaimsBackLeases
<1>4. \A c \in resource_claims : c.job # j => c \in resource_claims'
  BY DEF ReleaseResourceClaim, ClaimOfLease
<1>5. \A c \in resource_claims' :
        /\ c.resource = ResourceOf[c.job]
        /\ ~c.quiescing =>
             status'[c.job] = "LEASED" /\ ClaimOfLease(c, c.job)' /\ c.left = lease'[c.job]
  BY <1>2, <1>3 DEF ClaimsBackLeases, ClaimOfLease
<1>6. \A c, d \in resource_claims' : c.resource = d.resource => c = d
  BY <1>2 DEF ClaimsBackLeases
<1>7. \A k \in Jobs : ResourceOf[k] # NoResource =>
        /\ status'[k] = "LEASED" =>
             \E c \in resource_claims' : c.job = k /\ ~c.quiescing
        /\ (status'[k] = "CANCELED" /\ lease'[k] > 0) =>
             \E c \in resource_claims' : c.job = k /\ c.quiescing /\ c.left = lease'[k]
  BY <1>4 DEF ClaimsBackLeases
<1> QED BY <1>1, <1>5, <1>6, <1>7 DEF ClaimsBackLeases

(* A deadline that moves while the row stays LEASED moves in the claim row *)
(* too.                                                                    *)
LEMMA DeadlineMoveClaims ==
  ASSUME ClaimInv, NEW j \in Jobs, status[j] = "LEASED", NEW left \in Nat,
         lease' = [lease EXCEPT ![j] = left],
         resource_claims' = ExtendResourceClaim(j, left),
         UNCHANGED <<status, run_number, attempt, worker_id>>
  PROVE  LeaseColumns' /\ ClaimsBackLeases'
<1> USE DEF ClaimInv, TypeOK
<1>1. LeaseColumns'
  BY DEF LeaseColumns
<1> DEFINE moved(c) == IF ClaimOfLease(c, j) THEN [c EXCEPT !.left = left] ELSE c
<1>2. resource_claims' = {moved(c) : c \in resource_claims}
  BY DEF ExtendResourceClaim
<1>3. ASSUME NEW c \in resource_claims
      PROVE  /\ moved(c).resource = c.resource
             /\ moved(c).job = c.job
             /\ moved(c).run = c.run
             /\ moved(c).attempt = c.attempt
             /\ moved(c).worker = c.worker
             /\ moved(c).quiescing = c.quiescing
             /\ moved(c).left = IF ClaimOfLease(c, j) THEN left ELSE c.left
  BY DEF ClaimRow
<1> HIDE DEF moved
<1>4. \A c \in resource_claims :
        /\ moved(c).resource = ResourceOf[moved(c).job]
        /\ ~moved(c).quiescing =>
             /\ status'[moved(c).job] = "LEASED"
             /\ moved(c).run = run_number'[moved(c).job]
             /\ moved(c).attempt = attempt'[moved(c).job]
             /\ moved(c).worker = worker_id'[moved(c).job]
             /\ moved(c).left = lease'[moved(c).job]
  BY <1>3, ClaimRowTypes DEF ClaimsBackLeases, ClaimOfLease
<1>5. \A c, d \in resource_claims : moved(c).resource = moved(d).resource => moved(c) = moved(d)
  BY <1>3 DEF ClaimsBackLeases
<1>6. \A k \in Jobs : ResourceOf[k] # NoResource =>
        /\ status'[k] = "LEASED" =>
             \E c \in resource_claims : moved(c).job = k /\ ~moved(c).quiescing
        /\ (status'[k] = "CANCELED" /\ lease'[k] > 0) =>
             \E c \in resource_claims :
               moved(c).job = k /\ moved(c).quiescing /\ moved(c).left = lease'[k]
  BY <1>3 DEF ClaimsBackLeases, ClaimOfLease
<1> QED BY <1>1, <1>2, <1>4, <1>5, <1>6 DEF ClaimsBackLeases, ClaimOfLease

(* A claim takes a free resource, so its row is the only one of the key.   *)
LEMMA ClaimClaims ==
  ASSUME ClaimInv, NEW w \in Workers, NEW j \in Jobs, NEW origin, NEW left \in Nat,
         NEW allowed, Claim(w, j, allowed, origin, left)
  PROVE  LeaseColumns' /\ ClaimsBackLeases'
<1> USE ConstantsAssumption DEF ClaimInv, TypeOK, Claim, Claimable, Due
<1>1. LeaseColumns'
  BY DEF LeaseColumns
<1>2. \A c \in resource_claims : c.job \in Jobs /\ c.resource \in Resources
  BY ClaimRowTypes
<1>3. \A c \in resource_claims : c.job = j => c.quiescing
  BY DEF ClaimsBackLeases
<1>4. ASSUME NEW c \in resource_claims
      PROVE  /\ c.resource = ResourceOf[c.job]
             /\ ~c.quiescing =>
                  status'[c.job] = "LEASED" /\ ClaimOfLease(c, c.job)' /\ c.left = lease'[c.job]
  BY <1>2, <1>3 DEF ClaimsBackLeases, ClaimOfLease
<1>5. CASE ResourceOf[j] = NoResource
  <2>1. resource_claims' = resource_claims
    BY <1>5
  <2>2. \A k \in Jobs : ResourceOf[k] # NoResource =>
          status'[k] = status[k] /\ lease'[k] = lease[k]
    BY <1>5
  <2> QED BY <1>1, <1>4, <2>1, <2>2 DEF ClaimsBackLeases
<1>6. CASE ResourceOf[j] # NoResource
  <2>0. PICK n : n = NewClaim(j, w, left)
    OBVIOUS
  <2>1. resource_claims' = resource_claims \cup {n}
    BY <1>6, <2>0
  <2>2. /\ n.resource = ResourceOf[j] /\ n.job = j /\ ~n.quiescing
        /\ ClaimOfLease(n, j)' /\ n.left = lease'[j] /\ status'[j] = "LEASED"
    BY <2>0 DEF NewClaim, ClaimOfLease
  <2>3. \A c \in resource_claims : c.resource # n.resource
    BY <1>6, <2>2 DEF ResourceFree
  <2>4. \A c, d \in resource_claims' : c.resource = d.resource => c = d
    BY <2>1, <2>3 DEF ClaimsBackLeases
  <2>5. \A c \in resource_claims' :
          /\ c.resource = ResourceOf[c.job]
          /\ ~c.quiescing =>
               status'[c.job] = "LEASED" /\ ClaimOfLease(c, c.job)' /\ c.left = lease'[c.job]
    <3> SUFFICES ASSUME NEW c \in resource_claims'
                 PROVE  /\ c.resource = ResourceOf[c.job]
                        /\ ~c.quiescing =>
                             /\ status'[c.job] = "LEASED"
                             /\ ClaimOfLease(c, c.job)'
                             /\ c.left = lease'[c.job]
      OBVIOUS
    <3>1. CASE c \in resource_claims BY <1>4, <3>1
    <3>2. CASE c = n BY <2>2, <3>2
    <3> QED BY <2>1, <3>1, <3>2
  <2>6. \A k \in Jobs : k # j => status'[k] = status[k] /\ lease'[k] = lease[k]
    OBVIOUS
  <2>7. \A k \in Jobs : ResourceOf[k] # NoResource =>
          /\ status'[k] = "LEASED" =>
               \E c \in resource_claims' : c.job = k /\ ~c.quiescing
          /\ (status'[k] = "CANCELED" /\ lease'[k] > 0) =>
               \E c \in resource_claims' : c.job = k /\ c.quiescing /\ c.left = lease'[k]
    BY <2>1, <2>2, <2>6 DEF ClaimsBackLeases
  <2> QED BY <1>1, <2>4, <2>5, <2>7 DEF ClaimsBackLeases
<1> QED BY <1>5, <1>6

(* A cancellation keeps the claim row of a live lease, as a quiescing row  *)
(* with the lease's deadline, and deletes the row of an expired one.       *)
LEMMA CancelClaims ==
  ASSUME ClaimInv, NEW j \in Jobs, Cancel(j)
  PROVE  LeaseColumns' /\ ClaimsBackLeases'
<1> USE DEF ClaimInv, TypeOK
<1>1. LeaseColumns'
  BY DEF LeaseColumns, Cancel
<1>2. /\ status' = [status EXCEPT ![j] = "CANCELED"]
      /\ worker_id' = [worker_id EXCEPT ![j] = NoWorker]
      /\ UNCHANGED <<run_number, attempt, lease>>
  BY DEF Cancel
<1>3. \A k \in Jobs : k # j => status'[k] = status[k] /\ worker_id'[k] = worker_id[k]
  BY <1>2
<1>4. CASE status[j] = "PENDING"
  <2>1. resource_claims' = resource_claims /\ lease[j] = 0
    BY <1>4 DEF Cancel, LeaseColumns
  <2>2. \A c \in resource_claims : c.job = j => c.quiescing
    BY <1>4 DEF ClaimsBackLeases
  <2>3. \A c \in resource_claims : c.job \in Jobs
    BY ClaimRowTypes
  <2> QED BY <1>1, <1>2, <1>3, <1>4, <2>1, <2>2, <2>3 DEF ClaimsBackLeases, ClaimOfLease
<1>5. CASE status[j] = "LEASED" /\ ~(lease[j] > 0)
  <2>1. resource_claims' = ReleaseResourceClaim(j)
    BY <1>5 DEF Cancel
  <2>2. \A c \in resource_claims' : c \in resource_claims /\ c.job \in Jobs /\ ~ClaimOfLease(c, j)
    BY <2>1, ClaimRowTypes DEF ReleaseResourceClaim
  <2>3. \A c \in resource_claims' : c.job = j => c.quiescing
    BY <2>2 DEF ClaimsBackLeases
  <2>4. \A c \in resource_claims : c.job # j => c \in resource_claims'
    BY <2>1 DEF ReleaseResourceClaim, ClaimOfLease
  <2> QED BY <1>1, <1>2, <1>3, <1>5, <2>2, <2>3, <2>4 DEF ClaimsBackLeases, ClaimOfLease
<1>6. CASE status[j] = "LEASED" /\ lease[j] > 0
  <2> DEFINE kept(c) ==
        IF ClaimOfLease(c, j) THEN [c EXCEPT !.left = lease[j], !.quiescing = TRUE] ELSE c
  <2>1. resource_claims' = {kept(c) : c \in resource_claims}
    BY <1>6 DEF Cancel, QuiesceResourceClaim
  <2>2. ASSUME NEW c \in resource_claims
        PROVE  /\ kept(c).resource = c.resource
               /\ kept(c).job = c.job
               /\ kept(c).run = c.run
               /\ kept(c).attempt = c.attempt
               /\ kept(c).worker = c.worker
               /\ ClaimOfLease(c, j) => kept(c).quiescing /\ kept(c).left = lease[j]
               /\ ~ClaimOfLease(c, j) => kept(c) = c
    BY DEF ClaimRow
  <2> HIDE DEF kept
  <2>3. \A c \in resource_claims : c.job = j => kept(c).quiescing
    BY <2>2 DEF ClaimsBackLeases
  <2>4. \A c \in resource_claims :
          /\ kept(c).resource = ResourceOf[kept(c).job]
          /\ ~kept(c).quiescing =>
               /\ status'[kept(c).job] = "LEASED"
               /\ kept(c).run = run_number'[kept(c).job]
               /\ kept(c).attempt = attempt'[kept(c).job]
               /\ kept(c).worker = worker_id'[kept(c).job]
               /\ kept(c).left = lease'[kept(c).job]
    BY <1>2, <1>3, <2>2, <2>3, ClaimRowTypes DEF ClaimsBackLeases, ClaimOfLease
  <2>5. \A c, d \in resource_claims : kept(c).resource = kept(d).resource => kept(c) = kept(d)
    BY <2>2 DEF ClaimsBackLeases
  <2>6. ResourceOf[j] # NoResource =>
          \E c \in resource_claims : kept(c).job = j /\ kept(c).quiescing /\ kept(c).left = lease[j]
    BY <1>6, <2>2 DEF ClaimsBackLeases
  <2>7. ASSUME NEW k \in Jobs, k # j, ResourceOf[k] # NoResource
        PROVE  /\ status'[k] = "LEASED" =>
                    \E c \in resource_claims : kept(c).job = k /\ ~kept(c).quiescing
               /\ (status'[k] = "CANCELED" /\ lease'[k] > 0) =>
                    \E c \in resource_claims :
                      kept(c).job = k /\ kept(c).quiescing /\ kept(c).left = lease'[k]
    <3>1. \A c \in resource_claims : c.job = k => kept(c) = c
      BY <2>2, <2>7 DEF ClaimOfLease
    <3>2. status'[k] = status[k] /\ lease'[k] = lease[k]
      BY <1>2, <1>3, <2>7
    <3> QED BY <2>7, <3>1, <3>2 DEF ClaimsBackLeases
  <2>8. \A k \in Jobs : ResourceOf[k] # NoResource =>
          /\ status'[k] = "LEASED" =>
               \E c \in resource_claims' : c.job = k /\ ~c.quiescing
          /\ (status'[k] = "CANCELED" /\ lease'[k] > 0) =>
               \E c \in resource_claims' : c.job = k /\ c.quiescing /\ c.left = lease'[k]
    BY <1>2, <2>1, <2>6, <2>7
  <2>9. \A c \in resource_claims' :
          /\ c.resource = ResourceOf[c.job]
          /\ ~c.quiescing =>
               status'[c.job] = "LEASED" /\ ClaimOfLease(c, c.job)' /\ c.left = lease'[c.job]
    BY <2>1, <2>4 DEF ClaimOfLease
  <2>10. \A c, d \in resource_claims' : c.resource = d.resource => c = d
    BY <2>1, <2>5
  <2> QED BY <1>1, <2>8, <2>9, <2>10 DEF ClaimsBackLeases
<1> QED BY <1>4, <1>5, <1>6 DEF Cancel

(* Cleanup only takes rows that back neither a lease nor a marker.         *)
LEMMA CleanupClaims ==
  ASSUME ClaimInv, NEW c \in resource_claims, CleanupResourceClaim(c)
  PROVE  LeaseColumns' /\ ClaimsBackLeases'
<1> USE DEF ClaimInv, TypeOK, CleanupResourceClaim, queue_vars
<1>1. LeaseColumns'
  BY DEF LeaseColumns
<1>2. \A d \in resource_claims :
        (~d.quiescing \/ d.left > 0) => d \in resource_claims'
  BY ClaimRowTypes DEF ReleasableClaim, ClaimsBackLeases
<1> QED BY <1>1, <1>2 DEF ClaimsBackLeases, ClaimOfLease

(* All deadlines move together.                                            *)
LEMMA TickClaims ==
  ASSUME ClaimInv, Tick
  PROVE  LeaseColumns' /\ ClaimsBackLeases'
<1> USE DEF ClaimInv, TypeOK, Tick, TimePasses
<1>1. LeaseColumns'
  BY DEF LeaseColumns, Elapse
<1> DEFINE later(c) == [c EXCEPT !.left = Elapse(c.left)]
<1>2. resource_claims' = {later(c) : c \in resource_claims}
  OBVIOUS
<1>3. ASSUME NEW c \in resource_claims
      PROVE  /\ later(c).resource = c.resource
             /\ later(c).job = c.job
             /\ later(c).run = c.run
             /\ later(c).attempt = c.attempt
             /\ later(c).worker = c.worker
             /\ later(c).quiescing <=> c.quiescing
             /\ later(c).left = Elapse(c.left)
  BY DEF ClaimRow
<1> HIDE DEF later
<1>4. \A c \in resource_claims :
        /\ later(c).resource = ResourceOf[later(c).job]
        /\ ~later(c).quiescing =>
             /\ status'[later(c).job] = "LEASED"
             /\ later(c).run = run_number'[later(c).job]
             /\ later(c).attempt = attempt'[later(c).job]
             /\ later(c).worker = worker_id'[later(c).job]
             /\ later(c).left = lease'[later(c).job]
  BY <1>3, ClaimRowTypes DEF ClaimsBackLeases, ClaimOfLease
<1>5. \A c, d \in resource_claims : later(c).resource = later(d).resource => later(c) = later(d)
  BY <1>3 DEF ClaimsBackLeases
<1>6. \A k \in Jobs : lease'[k] = Elapse(lease[k]) /\ (lease'[k] > 0 => lease[k] > 0)
  BY DEF Elapse
<1>7. \A k \in Jobs : ResourceOf[k] # NoResource =>
        /\ status'[k] = "LEASED" =>
             \E c \in resource_claims : later(c).job = k /\ ~later(c).quiescing
        /\ (status'[k] = "CANCELED" /\ lease'[k] > 0) =>
             \E c \in resource_claims :
               later(c).job = k /\ later(c).quiescing /\ later(c).left = lease'[k]
  <2> SUFFICES ASSUME NEW k \in Jobs, ResourceOf[k] # NoResource
               PROVE  /\ status'[k] = "LEASED" =>
                           \E c \in resource_claims : later(c).job = k /\ ~later(c).quiescing
                      /\ (status'[k] = "CANCELED" /\ lease'[k] > 0) =>
                           \E c \in resource_claims :
                             later(c).job = k /\ later(c).quiescing /\ later(c).left = lease'[k]
    OBVIOUS
  <2>1. ASSUME status[k] = "LEASED"
        PROVE  \E c \in resource_claims : later(c).job = k /\ ~later(c).quiescing
    BY <1>3, <2>1 DEF ClaimsBackLeases
  <2>2. ASSUME status[k] = "CANCELED", lease'[k] > 0
        PROVE  \E c \in resource_claims :
                 later(c).job = k /\ later(c).quiescing /\ later(c).left = lease'[k]
    <3>1. PICK c \in resource_claims : c.job = k /\ c.quiescing /\ c.left = lease[k]
      BY <1>6, <2>2 DEF ClaimsBackLeases
    <3> QED BY <1>3, <1>6, <3>1
  <2> QED BY <2>1, <2>2
<1> HIDE DEF ClaimInv, TypeOK, Tick, TimePasses
<1>8. \A d \in resource_claims' :
        /\ d.resource = ResourceOf[d.job]
        /\ ~d.quiescing =>
             status'[d.job] = "LEASED" /\ ClaimOfLease(d, d.job)' /\ d.left = lease'[d.job]
  BY <1>2, <1>4 DEF ClaimOfLease
<1>9. \A c, d \in resource_claims' : c.resource = d.resource => c = d
  BY <1>2, <1>5
<1>10. \A k \in Jobs : ResourceOf[k] # NoResource =>
         /\ status'[k] = "LEASED" =>
              \E c \in resource_claims' : c.job = k /\ ~c.quiescing
         /\ (status'[k] = "CANCELED" /\ lease'[k] > 0) =>
              \E c \in resource_claims' : c.job = k /\ c.quiescing /\ c.left = lease'[k]
  BY <1>2, <1>7
<1> QED BY <1>1, <1>8, <1>9, <1>10 DEF ClaimsBackLeases

(* A requeue only finds rows whose marker has passed.                      *)
LEMMA RequeueClaims ==
  ASSUME ClaimInv, NEW j \in Jobs, NEW s, NEW r, CompareAndRequeue(j, s, r)
  PROVE  LeaseColumns' /\ ClaimsBackLeases'
<1> USE DEF ClaimInv, TypeOK, CompareAndRequeue, AdvanceToNextRun, EndLease
<1>1. LeaseColumns'
  BY DEF LeaseColumns
<1>2. \A c \in resource_claims : c.job \in Jobs /\ (c.job = j => c.quiescing)
  BY ClaimRowTypes DEF ClaimsBackLeases
<1>3. \A k \in Jobs : k # j =>
        /\ status'[k] = status[k] /\ lease'[k] = lease[k] /\ worker_id'[k] = worker_id[k]
        /\ run_number'[k] = run_number[k] /\ attempt'[k] = attempt[k]
  OBVIOUS
<1>4. status'[j] = "PENDING" /\ resource_claims' = resource_claims
  OBVIOUS
<1> QED BY <1>1, <1>2, <1>3, <1>4 DEF ClaimsBackLeases, ClaimOfLease

(* The lease columns and the claim rows agree after every transaction.     *)
LEMMA ClaimInvStep ==
  ASSUME TypeInv, ClaimInv, [Next]_vars
  PROVE  LeaseColumns' /\ ClaimsBackLeases'
<1> USE ConstantsAssumption
<1>1. ASSUME NEW j \in Jobs, NEW d \in RetryDelays, Enqueue(j, d)
      PROVE  LeaseColumns' /\ ClaimsBackLeases'
  <2> USE <1>1 DEF ClaimInv, TypeOK, Enqueue
  <2>1. LeaseColumns' BY DEF LeaseColumns
  <2>2. \A c \in resource_claims : c.job \in Jobs /\ (c.job = j => c.quiescing)
    BY ClaimRowTypes DEF ClaimsBackLeases
  <2>3. \A k \in Jobs : k # j => status'[k] = status[k] /\ run_number'[k] = run_number[k]
    OBVIOUS
  <2> QED BY <2>1, <2>2, <2>3 DEF ClaimsBackLeases, ClaimOfLease
<1>2. ASSUME NEW w \in Workers, NEW j \in Jobs, NEW origin \in Origins,
             NEW left \in LeaseLefts, NEW allowed, Claim(w, j, allowed, origin, left)
      PROVE  LeaseColumns' /\ ClaimsBackLeases'
  BY <1>2, ClaimClaims, LeaseLeftsNat
<1>3. ASSUME NEW j \in Jobs, NEW delay \in Nat, status[j] = "LEASED",
             DeadLetter(j) \/ ScheduleRetry(j, delay) \/ UndoClaim(j, delay)
      PROVE  LeaseColumns' /\ ClaimsBackLeases'
  <2>1. CASE DeadLetter(j)
    BY <1>3, <2>1, LeaseEndClaims DEF DeadLetter
  <2>2. CASE ScheduleRetry(j, delay)
    BY <1>3, <2>2, LeaseEndClaims DEF ScheduleRetry
  <2>3. CASE UndoClaim(j, delay)
    <3>1. \A k \in Jobs : k # j => run_number'[k] = run_number[k] /\ attempt'[k] = attempt[k]
      BY <2>3 DEF UndoClaim, ClaimInv, TypeOK
    <3> QED BY <1>3, <2>3, <3>1, LeaseEndClaims DEF UndoClaim
  <2> QED BY <1>3, <2>1, <2>2, <2>3
<1>4. ASSUME NEW id \in CurrentIdentities, LeaseCall(id)
      PROVE  LeaseColumns' /\ ClaimsBackLeases'
  <2>0. id.job \in Jobs /\ status[id.job] = "LEASED" BY CurrentIdentitiesLeased
  <2>1. CASE MarkRunning(id)
    BY <2>1 DEF ClaimInv, MarkRunning, queue_vars, LeaseColumns, ClaimsBackLeases, ClaimOfLease
  <2>2. ASSUME NEW left \in LeaseLefts, Heartbeat(id, left)
        PROVE  LeaseColumns' /\ ClaimsBackLeases'
    BY <2>0, <2>2, LeaseLeftsNat, DeadlineMoveClaims DEF Heartbeat
  <2>3. CASE CompleteSuccess(id)
    BY <2>0, <2>3, LeaseEndClaims DEF CompleteSuccess
  <2>4. ASSUME NEW d \in RetryDelays, CompleteContinuation(id, d)
        PROVE  LeaseColumns' /\ ClaimsBackLeases'
    <3>1. \A k \in Jobs : k # id.job =>
            run_number'[k] = run_number[k] /\ attempt'[k] = attempt[k]
      BY <2>4 DEF CompleteContinuation, AdvanceToNextRun, ClaimInv, TypeOK
    <3> QED BY <2>0, <2>4, <3>1, LeaseEndClaims DEF CompleteContinuation, AdvanceToNextRun
  <2>5. ASSUME NEW retryable \in BOOLEAN, NEW d \in RetryDelays,
               CompleteFailure(id, retryable, d)
        PROVE  LeaseColumns' /\ ClaimsBackLeases'
    BY <1>3, <2>0, <2>5 DEF CompleteFailure
  <2>6. ASSUME NEW d \in RetryDelays, ReleaseUnstarted(id, d)
        PROVE  LeaseColumns' /\ ClaimsBackLeases'
    BY <1>3, <2>0, <2>6 DEF ReleaseUnstarted
  <2> QED BY <1>4, <2>1, <2>2, <2>3, <2>4, <2>5, <2>6 DEF LeaseCall
<1>5. ASSUME NEW j \in Jobs, Reap(j) PROVE LeaseColumns' /\ ClaimsBackLeases'
  BY <1>3, <1>5 DEF Reap, ExpiredLease
<1>6. ASSUME NEW j \in Jobs, ReapDeferred(j) PROVE LeaseColumns' /\ ClaimsBackLeases'
  BY <1>6, DeadlineMoveClaims DEF ReapDeferred, ExpiredLease
<1>7. ASSUME NEW c \in resource_claims, CleanupResourceClaim(c)
      PROVE  LeaseColumns' /\ ClaimsBackLeases'
  BY <1>7, CleanupClaims
<1>8. ASSUME NEW j \in Jobs, Cancel(j) PROVE LeaseColumns' /\ ClaimsBackLeases'
  BY <1>8, CancelClaims
<1>9. ASSUME NEW j \in Jobs, NEW s, NEW r, CompareAndRequeue(j, s, r)
      PROVE  LeaseColumns' /\ ClaimsBackLeases'
  BY <1>9, RequeueClaims
<1>10. CASE Tick
  BY <1>10, TickClaims
<1>11. CASE UNCHANGED vars
  BY <1>11 DEF ClaimInv, vars, queue_vars, LeaseColumns, ClaimsBackLeases, ClaimOfLease
<1> QED BY <1>1, <1>2, <1>4, <1>5, <1>6, <1>7, <1>8, <1>9, <1>10, <1>11 DEF Next

(* Every keyed lease, and every lease canceled while live, is backed by    *)
(* its own claim row until its deadline, and no unreleased claim row       *)
(* outlives its lease.                                                     *)
THEOREM ClaimsCorrect == Spec => [](LeaseColumns /\ ClaimsBackLeases)
<1> DEFINE I == TypeInv /\ LeaseColumns /\ ClaimsBackLeases
<1>1. Init => I
  BY ConstantsAssumption
     DEF Init, TypeInv, TypeOK, LeasedHasAttempt, LeaseColumns, ClaimsBackLeases, Statuses
<1>2. I /\ [Next]_vars => I'
  BY TypeInvStep, ClaimInvStep DEF ClaimInv, TypeInv
<1>3. I => LeaseColumns /\ ClaimsBackLeases
  OBVIOUS
<1> QED BY <1>1, <1>2, <1>3, PTL DEF Spec

(* One permit per execution resource, for any number of jobs, workers and  *)
(* keys: no two jobs of one key are ever under a live deadline together,   *)
(* the handler of a canceled lease included.                               *)
THEOREM ResourceExclusionHolds == Spec => []ResourceExclusion
<1>1. TypeOK /\ ClaimsBackLeases => ResourceExclusion
  <2> SUFFICES ASSUME TypeOK, ClaimsBackLeases, NEW j \in Jobs, NEW k \in Jobs,
                      LiveGrant(j), LiveGrant(k), ResourceOf[j] # NoResource,
                      ResourceOf[j] = ResourceOf[k]
               PROVE  j = k
    BY DEF ResourceExclusion
  <2>1. PICK c \in resource_claims : c.job = j
    BY DEF LiveGrant, ClaimsBackLeases
  <2>2. PICK d \in resource_claims : d.job = k
    BY DEF LiveGrant, ClaimsBackLeases
  <2>3. c.resource = d.resource
    BY <2>1, <2>2 DEF ClaimsBackLeases
  <2> QED BY <2>1, <2>2, <2>3 DEF ClaimsBackLeases
<1> QED BY <1>1, TypeCorrect, ClaimsCorrect, PTL

-----------------------------------------------------------------------------
(* Attempts and runs: the retry budget, the attempt history, the           *)
(* dead-letter row, and what a step may never do.                          *)

(* What the transitions below rest on.                                     *)
BaseInv == TypeInv /\ LeaseColumns /\ ClaimsBackLeases

(* The invariant of module JobQueueProofs, as one inductive step.          *)
LEMMA BaseInvStep == BaseInv /\ [Next]_vars => BaseInv'
  BY TypeInvStep, ClaimInvStep DEF BaseInv, ClaimInv, TypeInv

(* An empty database satisfies it.                                        *)
LEMMA BaseInvInit == Init => BaseInv
  BY ConstantsAssumption
     DEF Init, BaseInv, TypeInv, TypeOK, LeasedHasAttempt, LeaseColumns, ClaimsBackLeases, Statuses

-----------------------------------------------------------------------------
(* The retry budget.                                                       *)

(* Every way back to PENDING leaves an attempt to spend.                  *)
LEMMA AttemptBudgetStep == BaseInv /\ AttemptBudget /\ [Next]_vars => AttemptBudget'
<1> SUFFICES ASSUME BaseInv, AttemptBudget, [Next]_vars PROVE AttemptBudget'
  OBVIOUS
<1> USE ConstantsAssumption DEF AttemptBudget, BaseInv, TypeInv, TypeOK, LeasedHasAttempt
<1>1. ASSUME NEW j \in Jobs, NEW d \in RetryDelays, Enqueue(j, d) PROVE AttemptBudget'
  BY <1>1 DEF Enqueue, LeaseColumns
<1>2. ASSUME NEW w \in Workers, NEW j \in Jobs, NEW origin \in Origins,
             NEW left \in LeaseLefts, NEW allowed, Claim(w, j, allowed, origin, left)
      PROVE  AttemptBudget'
  BY <1>2 DEF Claim, Claimable, Due
<1>3. ASSUME NEW j \in Jobs, NEW delay \in Nat, status[j] = "LEASED",
             \/ DeadLetter(j)
             \/ ~Exhausted(j) /\ ScheduleRetry(j, delay)
             \/ UndoClaim(j, delay)
      PROVE  AttemptBudget'
  BY <1>3 DEF DeadLetter, Exhausted, ScheduleRetry, UndoClaim, EndLease
<1>4. ASSUME NEW id \in CurrentIdentities, LeaseCall(id) PROVE AttemptBudget'
  <2>0. id.job \in Jobs /\ status[id.job] = "LEASED" BY CurrentIdentitiesLeased
  <2>1. CASE MarkRunning(id)
    BY <2>1 DEF MarkRunning, queue_vars
  <2>2. ASSUME NEW left \in LeaseLefts, Heartbeat(id, left) PROVE AttemptBudget'
    BY <2>2 DEF Heartbeat
  <2>3. CASE CompleteSuccess(id)
    BY <2>0, <2>3 DEF CompleteSuccess, EndLease
  <2>4. ASSUME NEW d \in RetryDelays, CompleteContinuation(id, d) PROVE AttemptBudget'
    BY <2>0, <2>4 DEF CompleteContinuation, AdvanceToNextRun, EndLease
  <2>5. ASSUME NEW retryable \in BOOLEAN, NEW d \in RetryDelays,
               CompleteFailure(id, retryable, d)
        PROVE  AttemptBudget'
    BY <1>3, <2>0, <2>5 DEF CompleteFailure
  <2>6. ASSUME NEW d \in RetryDelays, ReleaseUnstarted(id, d) PROVE AttemptBudget'
    BY <1>3, <2>0, <2>6 DEF ReleaseUnstarted
  <2> QED BY <1>4, <2>1, <2>2, <2>3, <2>4, <2>5, <2>6 DEF LeaseCall
<1>5. ASSUME NEW j \in Jobs, Reap(j) PROVE AttemptBudget'
  BY <1>3, <1>5 DEF Reap, ExpiredLease
<1>6. ASSUME NEW j \in Jobs, ReapDeferred(j) PROVE AttemptBudget'
  BY <1>6 DEF ReapDeferred
<1>7. ASSUME NEW c \in resource_claims, CleanupResourceClaim(c) PROVE AttemptBudget'
  BY <1>7 DEF CleanupResourceClaim, queue_vars
<1>8. ASSUME NEW j \in Jobs, Cancel(j) PROVE AttemptBudget'
  BY <1>8 DEF Cancel
<1>9. ASSUME NEW j \in Jobs, NEW s, NEW r, CompareAndRequeue(j, s, r) PROVE AttemptBudget'
  BY <1>9 DEF CompareAndRequeue, AdvanceToNextRun, EndLease
<1>10. CASE Tick
  BY <1>10 DEF Tick, TimePasses
<1>11. CASE UNCHANGED vars
  BY <1>11 DEF vars, queue_vars
<1> QED BY <1>1, <1>2, <1>4, <1>5, <1>6, <1>7, <1>8, <1>9, <1>10, <1>11 DEF Next

(* No claim ever spends more than max_attempts in a run, although the      *)
(* claim query does not compare the two columns.                           *)
THEOREM AttemptBudgetHolds == Spec => []AttemptBudget
<1>1. Init => AttemptBudget
  BY ConstantsAssumption DEF Init, AttemptBudget
<1>2. BaseInv /\ AttemptBudget /\ [Next]_vars => (BaseInv /\ AttemptBudget)'
  BY BaseInvStep, AttemptBudgetStep
<1> QED BY <1>1, <1>2, BaseInvInit, PTL DEF Spec

-----------------------------------------------------------------------------
(* The attempt history.                                                    *)

(* The columns of an attempt row.                                          *)
LEMMA AttemptRowTypes ==
  ASSUME TypeOK, NEW row \in job_attempts
  PROVE  /\ row.job \in Jobs /\ row.run \in Nat /\ row.attempt \in Nat
         /\ row.started \in BOOLEAN /\ row.finished \in BOOLEAN
         /\ run_number[row.job] \in Nat /\ attempt[row.job] \in Nat
  BY DEF TypeOK, AttemptRow

(* What finishing the current attempt does to each row.                    *)
LEMMA FinishAttemptRows ==
  ASSUME TypeOK, NEW j \in Jobs
  PROVE  /\ \A new \in FinishAttempt(j) : \E row \in job_attempts :
              /\ new.job = row.job /\ new.run = row.run /\ new.attempt = row.attempt
              /\ new.started <=> row.started
              /\ new.finished <=> (row.finished \/ CurrentAttempt(row, j))
              /\ new = IF CurrentAttempt(row, j) THEN [row EXCEPT !.finished = TRUE] ELSE row
         /\ \A row \in job_attempts : \E new \in FinishAttempt(j) :
              /\ new.job = row.job /\ new.run = row.run /\ new.attempt = row.attempt
              /\ new.started <=> row.started
<1> DEFINE done(row) == IF CurrentAttempt(row, j) THEN [row EXCEPT !.finished = TRUE] ELSE row
<1>1. FinishAttempt(j) = {done(row) : row \in job_attempts}
  BY DEF FinishAttempt
<1>2. ASSUME NEW row \in job_attempts
      PROVE  /\ done(row).job = row.job /\ done(row).run = row.run
             /\ done(row).attempt = row.attempt
             /\ done(row).started <=> row.started
             /\ done(row).finished <=> (row.finished \/ CurrentAttempt(row, j))
  BY DEF TypeOK, AttemptRow
<1> QED BY <1>1, <1>2

(* The current attempt is finished as the row leaves LEASED, in the same   *)
(* run or on the way to the next.                                          *)
LEMMA FinishHistory ==
  ASSUME TypeInv, AttemptHistory, NEW j \in Jobs, NEW s \in Statuses \ {"LEASED"},
         status' = [status EXCEPT ![j] = s],
         job_attempts' = FinishAttempt(j),
         \/ UNCHANGED <<run_number, attempt>>
         \/ /\ run_number' = [run_number EXCEPT ![j] = @ + 1]
            /\ attempt' = [attempt EXCEPT ![j] = 0]
  PROVE  AttemptHistory'
<1> USE DEF TypeInv, TypeOK
<1>1. \A k \in Jobs : k # j =>
        /\ status'[k] = status[k] /\ run_number'[k] = run_number[k] /\ attempt'[k] = attempt[k]
  OBVIOUS
<1>2. /\ status'[j] # "LEASED"
      /\ \/ run_number'[j] = run_number[j] /\ attempt'[j] = attempt[j]
         \/ run_number'[j] = run_number[j] + 1 /\ attempt'[j] = 0
  OBVIOUS
<1>3. AttemptRowsAgree'
  <2> SUFFICES ASSUME NEW new \in job_attempts'
               PROVE  /\ new.attempt >= 1
                      /\ \/ new.run < run_number'[new.job]
                         \/ new.run = run_number'[new.job] /\ new.attempt <= attempt'[new.job]
                      /\ ~new.finished <=>
                           (status'[new.job] = "LEASED" /\ CurrentAttempt(new, new.job)')
    BY DEF AttemptRowsAgree
  <2>1. PICK row \in job_attempts :
          /\ new.job = row.job /\ new.run = row.run /\ new.attempt = row.attempt
          /\ new.finished <=> (row.finished \/ CurrentAttempt(row, j))
    BY FinishAttemptRows
  <2>2. /\ row.attempt >= 1
        /\ \/ row.run < run_number[row.job]
           \/ row.run = run_number[row.job] /\ row.attempt <= attempt[row.job]
        /\ ~row.finished <=> (status[row.job] = "LEASED" /\ CurrentAttempt(row, row.job))
    BY DEF AttemptHistory, AttemptRowsAgree
  <2>3. /\ row.job \in Jobs /\ row.run \in Nat /\ row.attempt \in Nat
        /\ run_number[row.job] \in Nat /\ attempt[row.job] \in Nat
    BY AttemptRowTypes
  <2>4. CASE row.job = j
    BY <1>2, <2>1, <2>2, <2>3, <2>4 DEF CurrentAttempt
  <2>5. CASE row.job # j
    BY <1>1, <2>1, <2>2, <2>3, <2>5 DEF CurrentAttempt
  <2> QED BY <2>4, <2>5
<1>4. AttemptsCovered'
  <2> SUFFICES ASSUME NEW k \in Jobs, NEW a \in 1..attempt'[k]
               PROVE  \E new \in job_attempts' :
                        new.job = k /\ new.run = run_number'[k] /\ new.attempt = a
    BY DEF AttemptsCovered
  <2>1. a \in 1..attempt[k] /\ run_number'[k] = run_number[k]
    BY <1>1, <1>2
  <2>2. PICK row \in job_attempts : row.job = k /\ row.run = run_number[k] /\ row.attempt = a
    BY <2>1 DEF AttemptHistory, AttemptsCovered
  <2>3. PICK new \in FinishAttempt(j) :
          new.job = row.job /\ new.run = row.run /\ new.attempt = row.attempt
    BY FinishAttemptRows
  <2> QED BY <2>1, <2>2, <2>3
<1>5. AttemptsUnique'
  <2> SUFFICES ASSUME NEW new1 \in job_attempts', NEW new2 \in job_attempts',
                      new1.job = new2.job, new1.run = new2.run, new1.attempt = new2.attempt
               PROVE  new1 = new2
    BY DEF AttemptsUnique
  <2>1. PICK row1 \in job_attempts :
          /\ new1.job = row1.job /\ new1.run = row1.run /\ new1.attempt = row1.attempt
          /\ new1 = IF CurrentAttempt(row1, j) THEN [row1 EXCEPT !.finished = TRUE] ELSE row1
    BY FinishAttemptRows
  <2>2. PICK row2 \in job_attempts :
          /\ new2.job = row2.job /\ new2.run = row2.run /\ new2.attempt = row2.attempt
          /\ new2 = IF CurrentAttempt(row2, j) THEN [row2 EXCEPT !.finished = TRUE] ELSE row2
    BY FinishAttemptRows
  <2>3. row1.job = row2.job /\ row1.run = row2.run /\ row1.attempt = row2.attempt
    BY <2>1, <2>2
  <2>4. row1 = row2
    BY <2>3 DEF AttemptHistory, AttemptsUnique
  <2> QED BY <2>1, <2>2, <2>4
<1> QED BY <1>3, <1>4, <1>5 DEF AttemptHistory

(* Persisting RUNNING changes no column the history reads.                 *)
LEMMA StartHistory ==
  ASSUME TypeInv, AttemptHistory, NEW j \in Jobs, job_attempts' = StartAttempt(j),
         UNCHANGED <<status, run_number, attempt>>
  PROVE  AttemptHistory'
<1> USE DEF TypeInv
<1> DEFINE begun(row) == IF CurrentAttempt(row, j) THEN [row EXCEPT !.started = TRUE] ELSE row
<1>1. job_attempts' = {begun(row) : row \in job_attempts}
  BY DEF StartAttempt
<1>2. ASSUME NEW row \in job_attempts
      PROVE  /\ begun(row).job = row.job /\ begun(row).run = row.run
             /\ begun(row).attempt = row.attempt
             /\ begun(row).finished <=> row.finished
  BY DEF TypeOK, AttemptRow
<1> HIDE DEF begun
<1>3. AttemptRowsAgree'
  <2> SUFFICES ASSUME NEW row \in job_attempts
               PROVE  /\ begun(row).attempt >= 1
                      /\ \/ begun(row).run < run_number[begun(row).job]
                         \/ /\ begun(row).run = run_number[begun(row).job]
                            /\ begun(row).attempt <= attempt[begun(row).job]
                      /\ ~begun(row).finished <=>
                           /\ status[begun(row).job] = "LEASED"
                           /\ CurrentAttempt(begun(row), begun(row).job)
    BY <1>1 DEF AttemptRowsAgree, CurrentAttempt
  <2> QED BY <1>2 DEF AttemptHistory, AttemptRowsAgree, CurrentAttempt
<1>4. AttemptsCovered'
  BY <1>1, <1>2 DEF AttemptHistory, AttemptsCovered
<1>5. AttemptsUnique'
  <2> SUFFICES ASSUME NEW row1 \in job_attempts, NEW row2 \in job_attempts,
                      begun(row1).job = begun(row2).job, begun(row1).run = begun(row2).run,
                      begun(row1).attempt = begun(row2).attempt
               PROVE  begun(row1) = begun(row2)
    BY <1>1 DEF AttemptsUnique
  <2>1. row1.job = row2.job /\ row1.run = row2.run /\ row1.attempt = row2.attempt
    BY <1>2
  <2>2. row1 = row2
    BY <2>1 DEF AttemptHistory, AttemptsUnique
  <2> QED BY <2>2
<1> QED BY <1>3, <1>4, <1>5 DEF AttemptHistory

(* A claim appends the next attempt, open.                                 *)
LEMMA ClaimHistory ==
  ASSUME TypeInv, AttemptHistory, NEW w \in Workers, NEW j \in Jobs, NEW origin \in Origins,
         NEW left, NEW allowed, Claim(w, j, allowed, origin, left)
  PROVE  AttemptHistory'
<1> USE DEF TypeInv, TypeOK
<1>0. PICK n : n = NewAttempt(j, origin)
  OBVIOUS
<1>1. job_attempts' = job_attempts \cup {n} /\ status[j] = "PENDING"
  BY <1>0 DEF Claim, Claimable, Due
<1>2. /\ n.job = j /\ n.run = run_number[j] /\ n.attempt = attempt[j] + 1 /\ ~n.finished
  BY <1>0 DEF NewAttempt
<1>3. /\ status'[j] = "LEASED" /\ run_number' = run_number /\ attempt'[j] = attempt[j] + 1
      /\ \A k \in Jobs : k # j => status'[k] = status[k] /\ attempt'[k] = attempt[k]
  BY DEF Claim
<1>4. \A row \in job_attempts :
        row.job = j => row.finished /\ (row.run = run_number[j] => row.attempt <= attempt[j])
  BY <1>1, AttemptRowTypes DEF AttemptHistory, AttemptRowsAgree
<1>5. AttemptRowsAgree'
  <2> SUFFICES ASSUME NEW row \in job_attempts'
               PROVE  /\ row.attempt >= 1
                      /\ \/ row.run < run_number'[row.job]
                         \/ row.run = run_number'[row.job] /\ row.attempt <= attempt'[row.job]
                      /\ ~row.finished <=>
                           (status'[row.job] = "LEASED" /\ CurrentAttempt(row, row.job)')
    BY DEF AttemptRowsAgree
  <2>1. CASE row = n
    BY <1>2, <1>3, <2>1 DEF CurrentAttempt
  <2>2. CASE row \in job_attempts
    <3>1. /\ row.attempt >= 1
          /\ \/ row.run < run_number[row.job]
             \/ row.run = run_number[row.job] /\ row.attempt <= attempt[row.job]
          /\ ~row.finished <=> (status[row.job] = "LEASED" /\ CurrentAttempt(row, row.job))
      BY <2>2 DEF AttemptHistory, AttemptRowsAgree
    <3>2. /\ row.job \in Jobs /\ row.run \in Nat /\ row.attempt \in Nat
          /\ run_number[row.job] \in Nat /\ attempt[row.job] \in Nat
      BY <2>2, AttemptRowTypes
    <3>3. CASE row.job = j
      BY <1>3, <1>4, <2>2, <3>1, <3>2, <3>3 DEF CurrentAttempt
    <3>4. CASE row.job # j
      BY <1>3, <3>1, <3>2, <3>4 DEF CurrentAttempt
    <3> QED BY <3>3, <3>4
  <2> QED BY <1>1, <2>1, <2>2
<1>6. AttemptsCovered'
  <2> SUFFICES ASSUME NEW k \in Jobs, NEW a \in 1..attempt'[k]
               PROVE  \E row \in job_attempts' :
                        row.job = k /\ row.run = run_number'[k] /\ row.attempt = a
    BY DEF AttemptsCovered
  <2>1. CASE k = j /\ a = attempt[j] + 1
    BY <1>1, <1>2, <1>3, <2>1
  <2>2. CASE ~(k = j /\ a = attempt[j] + 1)
    <3>1. CASE k = j
      <4>1. attempt[j] \in Nat /\ a \in 1..(attempt[j] + 1) /\ a # attempt[j] + 1
        BY <1>3, <2>2, <3>1
      <4>2. a \in 1..attempt[j]
        BY <4>1
      <4>3. PICK row \in job_attempts :
              row.job = j /\ row.run = run_number[j] /\ row.attempt = a
        BY <4>2 DEF AttemptHistory, AttemptsCovered
      <4> QED BY <1>1, <1>3, <3>1, <4>3
    <3>2. CASE k # j
      BY <1>1, <1>3, <3>2 DEF AttemptHistory, AttemptsCovered
    <3> QED BY <3>1, <3>2
  <2> QED BY <2>1, <2>2
<1>7. \A row \in job_attempts :
        ~(row.job = n.job /\ row.run = n.run /\ row.attempt = n.attempt)
  BY <1>2, <1>4, AttemptRowTypes
<1>8. AttemptsUnique'
  BY <1>1, <1>7 DEF AttemptHistory, AttemptsUnique
<1> QED BY <1>5, <1>6, <1>8 DEF AttemptHistory

(* An undone claim takes back the last attempt of the history.             *)
LEMMA UndoHistory ==
  ASSUME TypeInv, AttemptHistory, NEW j \in Jobs, status[j] = "LEASED",
         NEW delay, UndoClaim(j, delay)
  PROVE  AttemptHistory'
<1> USE DEF TypeInv, TypeOK
<1>1. job_attempts' = {row \in job_attempts : ~CurrentAttempt(row, j)}
  BY DEF UndoClaim
<1>2. /\ status'[j] # "LEASED" /\ run_number' = run_number /\ attempt'[j] = attempt[j] - 1
      /\ \A k \in Jobs : k # j => status'[k] = status[k] /\ attempt'[k] = attempt[k]
  BY DEF UndoClaim, EndLease
<1>3. attempt[j] >= 1
  BY DEF LeasedHasAttempt
<1>4. AttemptRowsAgree'
  <2> SUFFICES ASSUME NEW row \in job_attempts, ~CurrentAttempt(row, j)
               PROVE  /\ row.attempt >= 1
                      /\ \/ row.run < run_number'[row.job]
                         \/ row.run = run_number'[row.job] /\ row.attempt <= attempt'[row.job]
                      /\ ~row.finished <=>
                           (status'[row.job] = "LEASED" /\ CurrentAttempt(row, row.job)')
    BY <1>1 DEF AttemptRowsAgree
  <2>1. /\ row.attempt >= 1
        /\ \/ row.run < run_number[row.job]
           \/ row.run = run_number[row.job] /\ row.attempt <= attempt[row.job]
        /\ ~row.finished <=> (status[row.job] = "LEASED" /\ CurrentAttempt(row, row.job))
    BY DEF AttemptHistory, AttemptRowsAgree
  <2>2. /\ row.job \in Jobs /\ row.run \in Nat /\ row.attempt \in Nat
        /\ run_number[row.job] \in Nat /\ attempt[row.job] \in Nat
    BY AttemptRowTypes
  <2>3. CASE row.job = j
    <3>1. row.finished
      BY <2>1, <2>3 DEF CurrentAttempt
    <3>2. row.run = run_number[j] => row.attempt <= attempt[j] - 1
      <4> SUFFICES ASSUME row.run = run_number[j] PROVE row.attempt <= attempt[j] - 1
        OBVIOUS
      <4>1. row.attempt # attempt[j]
        BY <2>3 DEF CurrentAttempt
      <4>2. row.attempt <= attempt[j] /\ row.attempt \in Nat /\ attempt[j] \in Nat
        BY <2>1, <2>2, <2>3
      <4>3. \A m, n \in Nat : m <= n /\ m # n => m <= n - 1
        OBVIOUS
      <4> HIDE DEF TypeInv, TypeOK
      <4> QED BY <4>1, <4>2, <4>3
    <3> QED BY <1>2, <2>1, <2>2, <2>3, <3>1, <3>2
  <2>4. CASE row.job # j
    BY <1>2, <2>1, <2>2, <2>4 DEF CurrentAttempt
  <2> QED BY <2>3, <2>4
<1>5. AttemptsCovered'
  <2> SUFFICES ASSUME NEW k \in Jobs, NEW a \in 1..attempt'[k]
               PROVE  \E row \in job_attempts' :
                        row.job = k /\ row.run = run_number'[k] /\ row.attempt = a
    BY DEF AttemptsCovered
  <2>1. a \in 1..attempt[k] /\ (k = j => a # attempt[j])
    BY <1>2, <1>3
  <2>2. PICK row \in job_attempts : row.job = k /\ row.run = run_number[k] /\ row.attempt = a
    BY <2>1 DEF AttemptHistory, AttemptsCovered
  <2>3. ~CurrentAttempt(row, j)
    BY <2>1, <2>2 DEF CurrentAttempt
  <2> QED BY <1>1, <1>2, <2>2, <2>3
<1>6. AttemptsUnique'
  BY <1>1 DEF AttemptHistory, AttemptsUnique
<1> QED BY <1>4, <1>5, <1>6 DEF AttemptHistory

(* A new run starts with an empty history; the rows of the old run are     *)
(* closed.                                                                 *)
LEMMA NewRunHistory ==
  ASSUME TypeInv, AttemptHistory, NEW j \in Jobs, status[j] # "LEASED",
         status' = [status EXCEPT ![j] = "PENDING"],
         run_number' = [run_number EXCEPT ![j] = @ + 1],
         attempt' = [attempt EXCEPT ![j] = 0],
         UNCHANGED job_attempts
  PROVE  AttemptHistory'
<1> USE DEF TypeInv, TypeOK
<1>1. /\ status'[j] # "LEASED" /\ run_number'[j] = run_number[j] + 1 /\ attempt'[j] = 0
      /\ \A k \in Jobs : k # j =>
           status'[k] = status[k] /\ run_number'[k] = run_number[k] /\ attempt'[k] = attempt[k]
  OBVIOUS
<1>2. AttemptRowsAgree'
  <2> SUFFICES ASSUME NEW row \in job_attempts
               PROVE  /\ row.attempt >= 1
                      /\ \/ row.run < run_number'[row.job]
                         \/ row.run = run_number'[row.job] /\ row.attempt <= attempt'[row.job]
                      /\ ~row.finished <=>
                           (status'[row.job] = "LEASED" /\ CurrentAttempt(row, row.job)')
    BY DEF AttemptRowsAgree
  <2>1. /\ row.attempt >= 1
        /\ \/ row.run < run_number[row.job]
           \/ row.run = run_number[row.job] /\ row.attempt <= attempt[row.job]
        /\ ~row.finished <=> (status[row.job] = "LEASED" /\ CurrentAttempt(row, row.job))
    BY DEF AttemptHistory, AttemptRowsAgree
  <2>2. /\ row.job \in Jobs /\ row.run \in Nat /\ row.attempt \in Nat
        /\ run_number[row.job] \in Nat /\ attempt[row.job] \in Nat
    BY AttemptRowTypes
  <2>3. CASE row.job = j
    BY <1>1, <2>1, <2>2, <2>3 DEF CurrentAttempt
  <2>4. CASE row.job # j
    BY <1>1, <2>1, <2>2, <2>4 DEF CurrentAttempt
  <2> QED BY <2>3, <2>4
<1>3. AttemptsCovered'
  BY <1>1 DEF AttemptHistory, AttemptsCovered
<1>4. AttemptsUnique'
  BY DEF AttemptHistory, AttemptsUnique
<1> QED BY <1>2, <1>3, <1>4 DEF AttemptHistory

(* Every transaction keeps the attempt history without gap or duplicate.  *)
LEMMA AttemptHistoryStep == BaseInv /\ AttemptHistory /\ [Next]_vars => AttemptHistory'
<1> SUFFICES ASSUME BaseInv, AttemptHistory, [Next]_vars PROVE AttemptHistory'
  OBVIOUS
<1> USE DEF BaseInv
<1>0. ASSUME UNCHANGED <<status, run_number, attempt, job_attempts>> PROVE AttemptHistory'
  BY <1>0 DEF AttemptHistory, AttemptRowsAgree, AttemptsCovered, AttemptsUnique, CurrentAttempt
<1>1. ASSUME NEW j \in Jobs, NEW d \in RetryDelays, Enqueue(j, d) PROVE AttemptHistory'
  <2>1. status[j] = "ABSENT" /\ run_number[j] = 0 /\ attempt[j] = 0
    BY <1>1 DEF Enqueue, LeaseColumns
  <2>2. /\ run_number' = [run_number EXCEPT ![j] = @ + 1]
        /\ attempt' = [attempt EXCEPT ![j] = 0]
    BY <1>1, <2>1 DEF Enqueue, TypeInv, TypeOK
  <2> QED BY <1>1, <2>1, <2>2, NewRunHistory DEF Enqueue
<1>2. ASSUME NEW w \in Workers, NEW j \in Jobs, NEW origin \in Origins,
             NEW left \in LeaseLefts, NEW allowed, Claim(w, j, allowed, origin, left)
      PROVE  AttemptHistory'
  BY <1>2, ClaimHistory
<1>3. ASSUME NEW j \in Jobs, NEW delay \in Nat, status[j] = "LEASED",
             DeadLetter(j) \/ ScheduleRetry(j, delay) \/ UndoClaim(j, delay)
      PROVE  AttemptHistory'
  <2>1. CASE DeadLetter(j)
    BY <2>1, FinishHistory DEF DeadLetter, EndLease, Statuses
  <2>2. CASE ScheduleRetry(j, delay)
    BY <2>2, FinishHistory DEF ScheduleRetry, EndLease, Statuses
  <2>3. CASE UndoClaim(j, delay)
    BY <1>3, <2>3, UndoHistory
  <2> QED BY <1>3, <2>1, <2>2, <2>3
<1>4. ASSUME NEW id \in CurrentIdentities, LeaseCall(id) PROVE AttemptHistory'
  <2>0. id.job \in Jobs /\ status[id.job] = "LEASED" BY CurrentIdentitiesLeased
  <2> USE ConstantsAssumption
  <2>1. CASE MarkRunning(id)
    BY <2>0, <2>1, StartHistory DEF MarkRunning, queue_vars
  <2>2. ASSUME NEW left \in LeaseLefts, Heartbeat(id, left) PROVE AttemptHistory'
    BY <1>0, <2>2 DEF Heartbeat
  <2>3. CASE CompleteSuccess(id)
    BY <2>0, <2>3, FinishHistory DEF CompleteSuccess, EndLease, Statuses
  <2>4. ASSUME NEW d \in RetryDelays, CompleteContinuation(id, d) PROVE AttemptHistory'
    BY <2>0, <2>4, FinishHistory DEF CompleteContinuation, AdvanceToNextRun, EndLease, Statuses
  <2>5. ASSUME NEW retryable \in BOOLEAN, NEW d \in RetryDelays,
               CompleteFailure(id, retryable, d)
        PROVE  AttemptHistory'
    BY <1>3, <2>0, <2>5 DEF CompleteFailure
  <2>6. ASSUME NEW d \in RetryDelays, ReleaseUnstarted(id, d) PROVE AttemptHistory'
    BY <1>3, <2>0, <2>6 DEF ReleaseUnstarted
  <2> QED BY <1>4, <2>1, <2>2, <2>3, <2>4, <2>5, <2>6 DEF LeaseCall
<1>5. ASSUME NEW j \in Jobs, Reap(j) PROVE AttemptHistory'
  BY <1>3, <1>5, ConstantsAssumption DEF Reap, ExpiredLease
<1>6. ASSUME NEW j \in Jobs, ReapDeferred(j) PROVE AttemptHistory'
  BY <1>0, <1>6 DEF ReapDeferred
<1>7. ASSUME NEW c \in resource_claims, CleanupResourceClaim(c) PROVE AttemptHistory'
  BY <1>0, <1>7 DEF CleanupResourceClaim, queue_vars
<1>8. ASSUME NEW j \in Jobs, Cancel(j) PROVE AttemptHistory'
  BY <1>8, FinishHistory DEF Cancel, Statuses
<1>9. ASSUME NEW j \in Jobs, NEW s, NEW r, CompareAndRequeue(j, s, r) PROVE AttemptHistory'
  BY <1>9, NewRunHistory DEF CompareAndRequeue, AdvanceToNextRun, EndLease
<1>10. CASE Tick
  BY <1>0, <1>10 DEF Tick, TimePasses
<1>11. CASE UNCHANGED vars
  BY <1>0, <1>11 DEF vars, queue_vars
<1> QED BY <1>1, <1>2, <1>4, <1>5, <1>6, <1>7, <1>8, <1>9, <1>10, <1>11 DEF Next

(* The attempt rows of the current run are exactly 1..attempt, and only    *)
(* the attempt of a held lease is open: a claim's INSERT never hits the    *)
(* unique constraint on (job_id, run_number, attempt).                     *)
THEOREM AttemptHistoryHolds == Spec => []AttemptHistory
<1>1. Init => AttemptHistory
  BY DEF Init, AttemptHistory, AttemptRowsAgree, AttemptsCovered, AttemptsUnique
<1>2. BaseInv /\ AttemptHistory /\ [Next]_vars => (BaseInv /\ AttemptHistory)'
  BY BaseInvStep, AttemptHistoryStep
<1> QED BY <1>1, <1>2, BaseInvInit, PTL DEF Spec

-----------------------------------------------------------------------------
(* What a step may never do.                                               *)

(* A started attempt row survives every step with its identity: undoing a  *)
(* claim deletes only the unstarted row, since the attempt has one row.    *)
THEOREM StartedAttemptsAreKeptHolds == Spec => StartedAttemptsAreKept
<1> DEFINE Kept(old, new) ==
      \A row \in old : row.started =>
        \E kept \in new :
          kept.job = row.job /\ kept.run = row.run /\ kept.attempt = row.attempt /\ kept.started
<1>1. ASSUME BaseInv, AttemptHistory, Next PROVE Kept(job_attempts, job_attempts')
  <2> USE DEF BaseInv, TypeInv
  <2>1. ASSUME job_attempts \subseteq job_attempts' PROVE Kept(job_attempts, job_attempts')
    BY <2>1
  <2>2. ASSUME NEW j \in Jobs, job_attempts' = FinishAttempt(j)
        PROVE  Kept(job_attempts, job_attempts')
    BY <1>1, <2>2, FinishAttemptRows
  <2>3. ASSUME NEW j \in Jobs, job_attempts' = StartAttempt(j)
        PROVE  Kept(job_attempts, job_attempts')
    <3> DEFINE begun(row) ==
          IF CurrentAttempt(row, j) THEN [row EXCEPT !.started = TRUE] ELSE row
    <3>1. job_attempts' = {begun(row) : row \in job_attempts}
      BY <2>3 DEF StartAttempt
    <3>2. ASSUME NEW row \in job_attempts, row.started
          PROVE  /\ begun(row).job = row.job /\ begun(row).run = row.run
                 /\ begun(row).attempt = row.attempt /\ begun(row).started
      BY <3>2 DEF TypeOK, AttemptRow
    <3> HIDE DEF begun
    <3> QED BY <3>1, <3>2
  <2>4. ASSUME NEW j \in Jobs, NEW d, UnstartedClaim(j), UndoClaim(j, d)
        PROVE  Kept(job_attempts, job_attempts')
    <3>1. PICK open \in job_attempts : CurrentAttempt(open, j) /\ ~open.started
      BY <2>4 DEF UnstartedClaim
    <3>2. \A row \in job_attempts : CurrentAttempt(row, j) => row = open
      BY <1>1, <3>1 DEF CurrentAttempt, AttemptHistory, AttemptsUnique
    <3>3. \A row \in job_attempts : row.started => row \in job_attempts'
      BY <2>4, <3>1, <3>2 DEF UndoClaim
    <3> QED BY <3>3
  <2> HIDE DEF Kept
  <2>5. ASSUME NEW id \in CurrentIdentities, LeaseCall(id)
        PROVE  Kept(job_attempts, job_attempts')
    <3>0. id.job \in Jobs BY CurrentIdentitiesLeased
    <3> QED
      BY <2>1, <2>2, <2>3, <2>4, <2>5, <3>0
         DEF LeaseCall, MarkRunning, Heartbeat, CompleteSuccess, CompleteContinuation,
             CompleteFailure, DeadLetter, ScheduleRetry, ReleaseUnstarted
  <2>6. ASSUME NEW j \in Jobs, Reap(j) PROVE Kept(job_attempts, job_attempts')
    BY <2>2, <2>4, <2>6 DEF Reap, DeadLetter, ScheduleRetry
  <2>7. CASE \E w \in Workers, j \in Jobs, origin \in Origins, left \in LeaseLefts :
               \E allowed \in {Jobs, JobTypes[w]} : Claim(w, j, allowed, origin, left)
    BY <2>1, <2>7 DEF Claim
  <2>8. CASE \E j \in Jobs : Cancel(j)
    BY <2>2, <2>8 DEF Cancel
  <2>9. CASE \/ \E j \in Jobs, d \in RetryDelays : Enqueue(j, d)
             \/ \E j \in Jobs : ReapDeferred(j)
             \/ \E c \in resource_claims : CleanupResourceClaim(c)
             \/ \E j \in Jobs, s \in Statuses : \E r \in 1..MaxRun[j] : CompareAndRequeue(j, s, r)
             \/ Tick
    BY <2>1, <2>9 DEF Enqueue, ReapDeferred, CleanupResourceClaim, CompareAndRequeue, Tick, TimePasses
  <2> QED BY <1>1, <2>5, <2>6, <2>7, <2>8, <2>9 DEF Next
<1>2. BaseInv /\ AttemptHistory /\ [Next]_vars => [Kept(job_attempts, job_attempts')]_vars
  BY <1>1
<1>3. BaseInv /\ AttemptHistory /\ [Next]_vars => (BaseInv /\ AttemptHistory)'
  BY BaseInvStep, AttemptHistoryStep
<1>4. Init => AttemptHistory
  BY DEF Init, AttemptHistory, AttemptRowsAgree, AttemptsCovered, AttemptsUnique
<1> QED BY <1>2, <1>3, <1>4, BaseInvInit, PTL DEF Spec, StartedAttemptsAreKept

(* A finished run never reopens: SUCCEEDED is for good, and only a requeue *)
(* leaves CANCELED or DEAD_LETTERED, into a new run with a full budget.    *)
THEOREM TerminalIsFinalHolds == Spec => TerminalIsFinal
<1> DEFINE Final(j) ==
      (status[j] \in {"SUCCEEDED", "CANCELED", "DEAD_LETTERED"} /\ status'[j] # status[j]) =>
        /\ status[j] # "SUCCEEDED"
        /\ status'[j] = "PENDING"
        /\ run_number'[j] = run_number[j] + 1
        /\ attempt'[j] = 0
<1>1. ASSUME TypeOK, Next, NEW j \in Jobs PROVE Final(j)
  <2> USE <1>1 DEF TypeOK
  <2>1. ASSUME NEW k \in Jobs, NEW t, status[k] \in {"ABSENT", "PENDING", "LEASED"},
               status' = [status EXCEPT ![k] = t]
        PROVE  Final(j)
    BY <2>1
  <2>2. ASSUME UNCHANGED status PROVE Final(j)
    BY <2>2
  <2>3. ASSUME NEW k \in Jobs, NEW s, NEW r, CompareAndRequeue(k, s, r) PROVE Final(j)
    BY <2>3 DEF CompareAndRequeue, AdvanceToNextRun, EndLease
  <2> HIDE DEF Final
  <2>4. ASSUME NEW id \in CurrentIdentities, LeaseCall(id) PROVE Final(j)
    <3>0. id.job \in Jobs /\ status[id.job] = "LEASED" BY CurrentIdentitiesLeased
    <3>1. CASE MarkRunning(id) \/ \E left \in LeaseLefts : Heartbeat(id, left)
      BY <2>2, <3>1 DEF MarkRunning, Heartbeat, queue_vars
    <3>2. CASE ~(MarkRunning(id) \/ \E left \in LeaseLefts : Heartbeat(id, left))
      BY <2>1, <2>4, <3>0, <3>2
         DEF LeaseCall, CompleteSuccess, CompleteContinuation, CompleteFailure, ReleaseUnstarted,
             AdvanceToNextRun, DeadLetter, ScheduleRetry, UndoClaim, EndLease
    <3> QED BY <3>1, <3>2
  <2>5. ASSUME NEW k \in Jobs, Reap(k) PROVE Final(j)
    BY <2>1, <2>5 DEF Reap, ExpiredLease, DeadLetter, ScheduleRetry, UndoClaim, EndLease
  <2>6. CASE \/ \E k \in Jobs, d \in RetryDelays : Enqueue(k, d)
             \/ \E w \in Workers, k \in Jobs, origin \in Origins, left \in LeaseLefts :
                  \E allowed \in {Jobs, JobTypes[w]} : Claim(w, k, allowed, origin, left)
             \/ \E k \in Jobs : Cancel(k)
    BY <2>1, <2>6 DEF Enqueue, Claim, Claimable, Due, Cancel
  <2>7. CASE \/ \E k \in Jobs : ReapDeferred(k)
             \/ \E c \in resource_claims : CleanupResourceClaim(c)
             \/ Tick
    BY <2>2, <2>7 DEF ReapDeferred, CleanupResourceClaim, queue_vars, Tick, TimePasses
  <2> QED BY <2>3, <2>4, <2>5, <2>6, <2>7 DEF Next
<1>2. TypeOK /\ [Next]_vars => [\A j \in Jobs : Final(j)]_vars
  BY <1>1
<1> QED BY <1>2, TypeCorrect, PTL DEF Spec, TerminalIsFinal

-----------------------------------------------------------------------------
(* Dead letters.                                                           *)

(* Every dead-lettering writes the row of its own run and attempt.        *)
LEMMA DeadLetterStep == BaseInv /\ DeadLetterCurrent /\ [Next]_vars => DeadLetterCurrent'
<1> SUFFICES ASSUME BaseInv, DeadLetterCurrent, [Next]_vars PROVE DeadLetterCurrent'
  OBVIOUS
<1> USE DEF BaseInv, TypeInv, TypeOK, DeadLetterCurrent, EndLease
<1>0. ASSUME NEW j \in Jobs, NEW t, t # "DEAD_LETTERED",
             status' = [status EXCEPT ![j] = t],
             \/ run_number' = run_number
             \/ run_number' = [run_number EXCEPT ![j] = @ + 1]
             \/ run_number[j] = 0 /\ run_number' = [run_number EXCEPT ![j] = 1],
             \A k \in Jobs : k # j => attempt'[k] = attempt[k],
             UNCHANGED dead_letter
      PROVE  DeadLetterCurrent'
  <2> SUFFICES ASSUME NEW k \in Jobs
               PROVE  /\ status'[k] = "DEAD_LETTERED" => dead_letter[k] = <<run_number'[k], attempt'[k]>>
                      /\ dead_letter[k][1] <= run_number'[k]
    BY <1>0
  <2>1. dead_letter[k][1] \in Nat /\ run_number[k] \in Nat /\ dead_letter[k][1] <= run_number[k]
    OBVIOUS
  <2>2. run_number[k] <= run_number'[k] /\ run_number'[k] \in Nat
    BY <1>0
  <2>3. k # j => status'[k] = status[k] /\ run_number'[k] = run_number[k] /\ attempt'[k] = attempt[k]
    BY <1>0
  <2>4. status'[j] # "DEAD_LETTERED"
    BY <1>0
  <2>5. dead_letter[k][1] <= run_number'[k]
    BY <2>1, <2>2
  <2> QED BY <2>3, <2>4, <2>5
<1>1. ASSUME UNCHANGED <<status, run_number, attempt, dead_letter>> PROVE DeadLetterCurrent'
  BY <1>1
<1>2. ASSUME NEW j \in Jobs, DeadLetter(j) PROVE DeadLetterCurrent'
  BY <1>2 DEF DeadLetter
<1>3. ASSUME NEW id \in CurrentIdentities, LeaseCall(id) PROVE DeadLetterCurrent'
  <2>0. id.job \in Jobs BY CurrentIdentitiesLeased
  <2>1. CASE MarkRunning(id) \/ \E left \in LeaseLefts : Heartbeat(id, left)
    BY <1>1, <2>1 DEF MarkRunning, Heartbeat, queue_vars
  <2>2. CASE CompleteSuccess(id)
    BY <1>0, <2>0, <2>2 DEF CompleteSuccess
  <2>3. CASE \E d \in RetryDelays : CompleteContinuation(id, d)
    BY <1>0, <2>0, <2>3 DEF CompleteContinuation, AdvanceToNextRun
  <2>4. CASE \E retryable \in BOOLEAN, d \in RetryDelays : CompleteFailure(id, retryable, d)
    BY <1>0, <1>2, <2>0, <2>4 DEF CompleteFailure, ScheduleRetry
  <2>5. CASE \E d \in RetryDelays : ReleaseUnstarted(id, d)
    BY <1>0, <2>0, <2>5 DEF ReleaseUnstarted, UndoClaim
  <2> QED BY <1>3, <2>1, <2>2, <2>3, <2>4, <2>5 DEF LeaseCall
<1>4. ASSUME NEW j \in Jobs, Reap(j) PROVE DeadLetterCurrent'
  BY <1>0, <1>2, <1>4 DEF Reap, ScheduleRetry, UndoClaim
<1>5. ASSUME NEW j \in Jobs, NEW d, Enqueue(j, d) PROVE DeadLetterCurrent'
  BY <1>0, <1>5 DEF Enqueue, LeaseColumns
<1>6. ASSUME NEW w, NEW j \in Jobs, NEW allowed, NEW origin, NEW left,
             Claim(w, j, allowed, origin, left)
      PROVE  DeadLetterCurrent'
  BY <1>0, <1>6 DEF Claim
<1>7. ASSUME NEW j \in Jobs, Cancel(j) PROVE DeadLetterCurrent'
  BY <1>0, <1>7 DEF Cancel
<1>8. ASSUME NEW j \in Jobs, NEW s, NEW r, CompareAndRequeue(j, s, r) PROVE DeadLetterCurrent'
  BY <1>0, <1>8 DEF CompareAndRequeue, AdvanceToNextRun
<1>9. CASE \/ \E j \in Jobs : ReapDeferred(j)
           \/ \E c \in resource_claims : CleanupResourceClaim(c)
           \/ Tick
           \/ UNCHANGED vars
  BY <1>1, <1>9 DEF ReapDeferred, CleanupResourceClaim, Tick, TimePasses, queue_vars, vars
<1> QED BY <1>3, <1>4, <1>5, <1>6, <1>7, <1>8, <1>9 DEF Next

(* The job_dead_letters row of a dead-lettered job is always the one of    *)
(* the run and attempt it died in, and never of a run to come.             *)
THEOREM DeadLetterCurrentHolds == Spec => []DeadLetterCurrent
<1>1. Init => DeadLetterCurrent
  BY DEF Init, DeadLetterCurrent
<1>2. BaseInv /\ DeadLetterCurrent /\ [Next]_vars => (BaseInv /\ DeadLetterCurrent)'
  BY BaseInvStep, DeadLetterStep
<1> QED BY <1>1, <1>2, BaseInvInit, PTL DEF Spec

-----------------------------------------------------------------------------
(* The contract.                                                           *)

ContractInv == BaseInv /\ AttemptBudget /\ AttemptHistory

(* What the contract sees of the jobs other than j does not change.        *)
OthersKept(j) ==
  \A k \in Jobs \ {j} :
    /\ status'[k] = status[k] /\ run_number'[k] = run_number[k] /\ attempt'[k] = attempt[k]
    /\ \A row \in job_attempts : row.job = k => row \in job_attempts'
    /\ \A row \in job_attempts' : row.job = k => row \in job_attempts

(* Then their attempts under way are the same, begun or not.               *)
LEMMA OthersBegun ==
  ASSUME NEW j \in Jobs, OthersKept(j), NEW k \in Jobs \ {j}
  PROVE  Begun(k)' = Begun(k)
<1>1. Begun(k) => Begun(k)'
  BY DEF Begun, CurrentAttempt, OthersKept
<1>2. Begun(k)' => Begun(k)
  BY DEF Begun, CurrentAttempt, OthersKept
<1> QED BY <1>1, <1>2 DEF Begun

(* An attempt row that a transaction finishes, starts, adds or deletes is  *)
(* one of its own job.                                                     *)
LEMMA OwnRows ==
  ASSUME TypeOK, NEW j \in Jobs,
         \A k \in Jobs \ {j} :
           status'[k] = status[k] /\ run_number'[k] = run_number[k] /\ attempt'[k] = attempt[k],
         \/ job_attempts' = job_attempts
         \/ job_attempts' = FinishAttempt(j)
         \/ job_attempts' = StartAttempt(j)
         \/ job_attempts' = {row \in job_attempts : ~CurrentAttempt(row, j)}
         \/ \E origin : job_attempts' = job_attempts \cup {NewAttempt(j, origin)}
  PROVE  OthersKept(j)
<1>1. ASSUME NEW k \in Jobs \ {j}, NEW row \in job_attempts, row.job = k
      PROVE  row \in job_attempts'
  BY <1>1 DEF FinishAttempt, StartAttempt, CurrentAttempt
<1>2. ASSUME NEW k \in Jobs \ {j}, NEW row \in job_attempts', row.job = k
      PROVE  row \in job_attempts
  <2>1. CASE job_attempts' = FinishAttempt(j)
    <3>1. PICK old \in job_attempts :
            row = IF CurrentAttempt(old, j) THEN [old EXCEPT !.finished = TRUE] ELSE old
      BY <2>1 DEF FinishAttempt
    <3>2. ~CurrentAttempt(old, j)
      BY <1>2, <3>1 DEF CurrentAttempt, TypeOK, AttemptRow
    <3> QED BY <3>1, <3>2
  <2>2. CASE job_attempts' = StartAttempt(j)
    <3>1. PICK old \in job_attempts :
            row = IF CurrentAttempt(old, j) THEN [old EXCEPT !.started = TRUE] ELSE old
      BY <2>2 DEF StartAttempt
    <3>2. ~CurrentAttempt(old, j)
      BY <1>2, <3>1 DEF CurrentAttempt, TypeOK, AttemptRow
    <3> QED BY <3>1, <3>2
  <2> QED BY <1>2, <2>1, <2>2 DEF NewAttempt
<1> QED BY <1>1, <1>2 DEF OthersKept

(* So a transaction on job j moves begun at j only.                        *)
LEMMA BegunMoves ==
  ASSUME NEW j \in Jobs, OthersKept(j)
  PROVE  /\ [k \in Jobs |-> Begun(k)]' = [[k \in Jobs |-> Begun(k)] EXCEPT ![j] = Begun(j)']
         /\ Begun(j)' = Begun(j) => [k \in Jobs |-> Begun(k)]' = [k \in Jobs |-> Begun(k)]
  BY OthersBegun

-----------------------------------------------------------------------------
(* The transactions as steps of the contract.                              *)

(* A lease that ends.                                                      *)
LEMMA LeaseEndKeepsContract ==
  ASSUME ContractInv, NEW j \in Jobs, status[j] = "LEASED", NEW delay \in Nat,
         \/ DeadLetter(j) /\ (lease[j] > 0 \/ Exhausted(j))
         \/ ScheduleRetry(j, delay) /\ ~Exhausted(j)
         \/ UndoClaim(j, delay) /\ UnstartedClaim(j)
  PROVE  Contract!JobStep(j)
<1> USE ConstantsAssumption DEF ContractInv, BaseInv, TypeInv, TypeOK
<1>1. OthersKept(j)
  BY OwnRows DEF DeadLetter, ScheduleRetry, UndoClaim, EndLease
<1>2. ~Begun(j)'
  BY DEF Begun, DeadLetter, ScheduleRetry, UndoClaim, EndLease
<1>3. [k \in Jobs |-> Begun(k)]' = [[k \in Jobs |-> Begun(k)] EXCEPT ![j] = FALSE]
  BY <1>1, <1>2, BegunMoves DEF Begun
<1>4. CASE DeadLetter(j) /\ (lease[j] > 0 \/ Exhausted(j))
  <2>1. Exhausted(j) => attempt[j] = MaxAttempts[j]
    <3>1. attempt[j] \in Nat /\ MaxAttempts[j] \in Nat
      OBVIOUS
    <3>2. attempt[j] <= MaxAttempts[j]
      BY DEF AttemptBudget
    <3> QED BY ONLY <3>1, <3>2 DEF Exhausted
  <2>2. Contract!Fail(j)
    BY <1>3, <1>4, <2>1 DEF DeadLetter, EndLease, Contract!Fail, Contract!Leave
  <2> QED BY <2>2 DEF Contract!JobStep
<1>5. CASE ScheduleRetry(j, delay) /\ ~Exhausted(j)
  <2>1. Contract!Retry(j)
    BY <1>3, <1>5 DEF ScheduleRetry, EndLease, Exhausted, Contract!Retry, Contract!Leave
  <2> QED BY <2>1 DEF Contract!JobStep
<1>6. CASE UndoClaim(j, delay) /\ UnstartedClaim(j)
  <2>1. ~Begun(j)
    BY <1>6 DEF UnstartedClaim, Begun, CurrentAttempt, AttemptHistory, AttemptsUnique
  <2>2. Contract!HandBack(j)
    BY <1>3, <1>6, <2>1 DEF UndoClaim, EndLease, Contract!HandBack, Contract!Leave
  <2> QED BY <2>2 DEF Contract!JobStep
<1> QED BY <1>4, <1>5, <1>6

(* A claim: whoever shares the resource has no claim row, hence neither a  *)
(* lease nor time left of one.                                             *)
LEMMA ClaimKeepsContract ==
  ASSUME ContractInv, NEW w \in Workers, NEW j \in Jobs, NEW origin \in Origins,
         NEW left \in LeaseLefts, NEW allowed, Claim(w, j, allowed, origin, left)
  PROVE  Contract!JobStep(j)
<1> USE ConstantsAssumption DEF ContractInv, BaseInv, TypeInv, TypeOK
<1>1. status[j] = "PENDING" /\ attempt[j] < MaxAttempts[j]
  BY DEF Claim, Claimable, Due, AttemptBudget
<1>2. OthersKept(j)
  BY OwnRows DEF Claim
<1>3. ~Begun(j)
  BY <1>1 DEF Begun
<1>4. ~Begun(j)'
  <2> SUFFICES ASSUME NEW row \in job_attempts', CurrentAttempt(row, j)', row.started
               PROVE  FALSE
    BY DEF Begun
  <2>1. row # NewAttempt(j, origin)
    BY DEF NewAttempt
  <2>2. row \in job_attempts /\ row.job = j /\ row.run = run_number[j] /\ row.attempt = attempt[j] + 1
    BY <2>1 DEF Claim, CurrentAttempt
  <2> QED BY <2>2 DEF AttemptHistory, AttemptRowsAgree
<1>5. [k \in Jobs |-> Begun(k)]' = [k \in Jobs |-> Begun(k)]
  BY <1>2, <1>3, <1>4, BegunMoves DEF Begun
<1>6. ASSUME NEW k \in Jobs, Contract!Share(j, k) PROVE ~Contract!Occupies(k)
  <2>1. ResourceOf[j] # NoResource /\ ResourceOf[k] = ResourceOf[j]
    BY <1>6 DEF Contract!Share
  <2>2. \A c \in resource_claims : c.job # k
    BY <2>1 DEF Claim, Claimable, ResourceFree, ClaimsBackLeases
  <2>3. status[k] # "LEASED" /\ ~(status[k] = "CANCELED" /\ lease[k] > 0)
    BY <2>1, <2>2 DEF ClaimsBackLeases
  <2> QED BY <2>3 DEF LeaseColumns, Contract!Occupies
<1>7. Contract!Grant(j, left)
  BY <1>1, <1>5, <1>6 DEF Claim, Contract!Grant
<1> QED BY <1>7 DEF Contract!JobStep

(* A call under a lease identity.                                          *)
LEMMA LeaseCallKeepsContract ==
  ASSUME ContractInv, NEW id \in CurrentIdentities, LeaseCall(id)
  PROVE  Contract!JobStep(id.job)
<1> USE ConstantsAssumption DEF ContractInv, BaseInv, TypeInv, TypeOK
<1> DEFINE j == id.job
<1>0. j \in Jobs /\ status[j] = "LEASED"
  BY CurrentIdentitiesLeased
<1> HIDE DEF j
<1>1. CASE MarkRunning(id)
  <2>1. OthersKept(j)
    BY <1>0, <1>1, OwnRows DEF MarkRunning, queue_vars, j
  <2>2. PICK row \in job_attempts : CurrentAttempt(row, j)
    <3>1. attempt[j] \in 1..attempt[j]
      BY <1>0 DEF LeasedHasAttempt
    <3> QED BY <1>0, <3>1 DEF AttemptHistory, AttemptsCovered, CurrentAttempt
  <2>3. [row EXCEPT !.started = TRUE] \in job_attempts'
    BY <1>1, <2>2 DEF MarkRunning, StartAttempt, j
  <2>4. Begun(j)'
    BY <1>0, <1>1, <2>2, <2>3 DEF Begun, CurrentAttempt, MarkRunning, queue_vars, AttemptRow
  <2>5. [k \in Jobs |-> Begun(k)]' = [[k \in Jobs |-> Begun(k)] EXCEPT ![j] = TRUE]
    BY <1>0, <2>1, <2>4, BegunMoves DEF Begun
  <2>6. Contract!Begin(j)
    BY <1>0, <1>1, <2>5 DEF MarkRunning, HoldsLiveLease, queue_vars, Contract!Begin, j
  <2> QED BY <2>6 DEF Contract!JobStep, j
<1>2. ASSUME NEW left \in LeaseLefts, Heartbeat(id, left) PROVE Contract!JobStep(j)
  <2>1. [k \in Jobs |-> Begun(k)]' = [k \in Jobs |-> Begun(k)]
    BY <1>2 DEF Heartbeat, Begun, CurrentAttempt
  <2>2. Contract!Prolong(j, left)
    BY <1>0, <1>2, <2>1 DEF Heartbeat, Contract!Prolong, j
  <2> QED BY <2>2 DEF Contract!JobStep
<1>3. CASE CompleteSuccess(id) \/ \E d \in RetryDelays : CompleteContinuation(id, d)
  <2>1. OthersKept(j)
    BY <1>0, <1>3, OwnRows DEF CompleteSuccess, CompleteContinuation, AdvanceToNextRun, EndLease, j
  <2>2. ~Begun(j)'
    BY <1>0, <1>3 DEF Begun, CompleteSuccess, CompleteContinuation, AdvanceToNextRun, EndLease, j
  <2>3. [k \in Jobs |-> Begun(k)]' = [[k \in Jobs |-> Begun(k)] EXCEPT ![j] = FALSE]
    BY <1>0, <2>1, <2>2, BegunMoves DEF Begun
  <2>4. CompleteSuccess(id) => Contract!Succeed(j)
    BY <1>0, <2>3 DEF CompleteSuccess, HoldsLiveLease, EndLease, Contract!Succeed, Contract!Leave, j
  <2>5. ASSUME NEW d, CompleteContinuation(id, d) PROVE Contract!Continue(j)
    BY <1>0, <2>3, <2>5
       DEF CompleteContinuation, HoldsLiveLease, AdvanceToNextRun, EndLease,
           Contract!Continue, Contract!NewRun, Contract!Leave, j
  <2>6. Contract!Succeed(j) \/ Contract!Continue(j)
    BY <1>3, <2>4, <2>5
  <2> QED BY ONLY <2>6 DEF Contract!JobStep, j
<1>4. ASSUME NEW retryable \in BOOLEAN, NEW d \in RetryDelays, CompleteFailure(id, retryable, d)
      PROVE  Contract!JobStep(j)
  BY <1>0, <1>4, LeaseEndKeepsContract DEF CompleteFailure, HoldsLiveLease, j
<1>5. ASSUME NEW d \in RetryDelays, ReleaseUnstarted(id, d) PROVE Contract!JobStep(j)
  BY <1>0, <1>5, LeaseEndKeepsContract DEF ReleaseUnstarted, j
<1>6. CASE \E retryable \in BOOLEAN, d \in RetryDelays : CompleteFailure(id, retryable, d)
  BY <1>4, <1>6 DEF j
<1> QED BY <1>1, <1>2, <1>3, <1>5, <1>6 DEF LeaseCall, j

(* The reaper, which also prolongs what it could not end.                  *)
LEMMA ReapKeepsContract ==
  ASSUME ContractInv, NEW j \in Jobs, Reap(j) \/ ReapDeferred(j)
  PROVE  Contract!JobStep(j)
<1> USE ConstantsAssumption DEF ContractInv, BaseInv, TypeInv, TypeOK
<1>1. CASE Reap(j)
  BY <1>1, LeaseEndKeepsContract DEF Reap, ExpiredLease
<1>2. CASE ReapDeferred(j)
  <2>1. [k \in Jobs |-> Begun(k)]' = [k \in Jobs |-> Begun(k)]
    BY <1>2 DEF ReapDeferred, Begun, CurrentAttempt
  <2>2. Contract!Prolong(j, ReaperDelay)
    BY <1>2, <2>1 DEF ReapDeferred, ExpiredLease, Contract!Prolong
  <2> QED BY <2>2 DEF Contract!JobStep
<1> QED BY <1>1, <1>2

(* Enqueue, cancellation and requeue.                                      *)
LEMMA AdminKeepsContract ==
  ASSUME ContractInv, NEW j \in Jobs,
         \/ \E d \in RetryDelays : Enqueue(j, d)
         \/ Cancel(j)
         \/ \E s \in Statuses : \E r \in 1..MaxRun[j] : CompareAndRequeue(j, s, r)
  PROVE  Contract!JobStep(j)
<1> USE ConstantsAssumption DEF ContractInv, BaseInv, TypeInv, TypeOK
<1>1. OthersKept(j)
  BY OwnRows DEF Enqueue, Cancel, CompareAndRequeue, AdvanceToNextRun, EndLease
<1>2. ~Begun(j)'
  BY DEF Begun, Enqueue, Cancel, CompareAndRequeue, AdvanceToNextRun, EndLease
<1>3. [k \in Jobs |-> Begun(k)]' = [[k \in Jobs |-> Begun(k)] EXCEPT ![j] = FALSE]
  BY <1>1, <1>2, BegunMoves DEF Begun
<1>4. ASSUME NEW d \in RetryDelays, Enqueue(j, d) PROVE Contract!Submit(j)
  <2>1. ~Begun(j)
    BY <1>4 DEF Enqueue, Begun
  <2>2. [k \in Jobs |-> Begun(k)]' = [k \in Jobs |-> Begun(k)]
    BY <1>1, <1>2, <2>1, BegunMoves DEF Begun
  <2> QED BY <1>4, <2>2 DEF Enqueue, Contract!Submit
<1>5. Cancel(j) => Contract!Withdraw(j)
  BY <1>3 DEF Cancel, Contract!Withdraw
<1>6. ASSUME NEW s \in Statuses, NEW r, CompareAndRequeue(j, s, r) PROVE Contract!Reopen(j)
  BY <1>3, <1>6
     DEF CompareAndRequeue, AdvanceToNextRun, EndLease, Contract!Reopen, Contract!NewRun, Contract!Leave
<1> QED BY <1>4, <1>5, <1>6 DEF Contract!JobStep

(* Every step of the queue is one of the contract, or invisible to it.     *)
LEMMA ContractStep == ContractInv /\ [Next]_vars => [Contract!ContractNext]_Contract!cvars
<1> SUFFICES ASSUME ContractInv, [Next]_vars PROVE [Contract!ContractNext]_Contract!cvars
  OBVIOUS
<1>0. ASSUME NEW j \in Jobs, Contract!JobStep(j) PROVE Contract!ContractNext
  BY <1>0 DEF Contract!ContractNext
<1>1. ASSUME UNCHANGED <<status, run_number, attempt, job_attempts>>
      PROVE  [k \in Jobs |-> Begun(k)]' = [k \in Jobs |-> Begun(k)]
  BY <1>1 DEF Begun, CurrentAttempt
<1>2. CASE Tick
  <2>1. [k \in Jobs |-> Begun(k)]' = [k \in Jobs |-> Begun(k)]
    BY <1>1, <1>2 DEF Tick, TimePasses
  <2>2. Contract!Pass
    BY <1>2, <2>1 DEF Tick, TimePasses, Elapse, Contract!Pass
  <2> QED BY <2>2 DEF Contract!ContractNext
<1>3. CASE UNCHANGED vars \/ \E c \in resource_claims : CleanupResourceClaim(c)
  BY <1>1, <1>3 DEF vars, queue_vars, CleanupResourceClaim, Contract!cvars
<1>4. CASE \E id \in CurrentIdentities : LeaseCall(id)
  BY <1>0, <1>4, LeaseCallKeepsContract, CurrentIdentitiesLeased
<1>5. CASE \E w \in Workers, j \in Jobs, origin \in Origins, left \in LeaseLefts :
             \E allowed \in {Jobs, JobTypes[w]} : Claim(w, j, allowed, origin, left)
  BY <1>0, <1>5, ClaimKeepsContract
<1>6. CASE \E j \in Jobs : Reap(j) \/ ReapDeferred(j)
  BY <1>0, <1>6, ReapKeepsContract
<1>7. CASE \/ \E j \in Jobs, d \in RetryDelays : Enqueue(j, d)
           \/ \E j \in Jobs : Cancel(j)
           \/ \E j \in Jobs, s \in Statuses : \E r \in 1..MaxRun[j] : CompareAndRequeue(j, s, r)
  BY <1>0, <1>7, AdminKeepsContract
<1> QED BY <1>2, <1>3, <1>4, <1>5, <1>6, <1>7 DEF Next

(* For all jobs, workers, resources, budgets and durations, the queue with *)
(* its claim rows, triggers, cleanup, attempt rows and fences implements   *)
(* the contract.                                                           *)
THEOREM QueueKeepsTheContract == Spec => KeepsTheContract
<1>1. Init => Contract!ContractInit
  BY DEF Init, Begun, Contract!ContractInit
<1>2. Init => AttemptBudget /\ AttemptHistory
  BY ConstantsAssumption
     DEF Init, AttemptBudget, AttemptHistory, AttemptRowsAgree, AttemptsCovered, AttemptsUnique
<1>3. ContractInv /\ [Next]_vars => ContractInv'
  BY BaseInvStep, AttemptBudgetStep, AttemptHistoryStep DEF ContractInv
<1>4. Init => ContractInv
  BY <1>2, BaseInvInit DEF ContractInv
<1> QED BY <1>1, <1>3, <1>4, ContractStep, PTL DEF Spec, KeepsTheContract, Contract!ContractSpec
=============================================================================
