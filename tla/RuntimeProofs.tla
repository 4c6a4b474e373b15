--------------------------- MODULE RuntimeProofs ---------------------------
(***************************************************************************)
(* The worker loop, the reaper loop and the settlement of a runtime, for   *)
(* any number of leases, loops, descendants and callbacks and any limits.  *)
(***************************************************************************)
EXTENDS Settlement, ReaperCallbacks, WorkerCallbacks, FiniteSetTheorems, TLAPS

-----------------------------------------------------------------------------
(* The worker.                                                             *)

ExecSteps == {"none", "marking", "handler", "persist", "notify", "hook", "hooking", "ending", "done"}
Dispositions == {"none", "succeed", "continue", "retry", "fail"}
Events == {"none", "lease_lost", "persist_failed", "succeeded", "continued", "retry", "dead"}
ExecType ==
  [pc : ExecSteps, do : Dispositions, valid : BOOLEAN, event : Events, owns : BOOLEAN, hooked : BOOLEAN]

RunningType == [state : {"none", "running", "ended"}, aborted : BOOLEAN]
TerminalType == [state : {"none", "draining", "notifying", "ended"}, aborted : BOOLEAN]

WorkerShape ==
  /\ WorkerTypeOK /\ IsFiniteSet(join_set) /\ IsFiniteSet(admitted)
  /\ exec \in [Leases -> ExecType]
  /\ running \in [Leases -> RunningType] /\ terminal \in [Leases -> TerminalType]

(* A lease's row, its job task and what observers were told of it.         *)
LeaseStory(j) ==
  /\ lease[j] = "queued" <=> exec[j].pc = "none"
  /\ exec[j].pc \in {"marking", "handler", "persist"} => lease[j] \in {"leased", "reaped"}
  /\ exec[j].pc \in {"none", "marking"} => running[j].state = "none"
  /\ exec[j].pc \in {"none", "marking", "handler", "persist"} => exec[j].event = "none"
  /\ exec[j].pc = "persist" => exec[j].do # "none"
  /\ exec[j].pc \in {"hook", "hooking"} \/ exec[j].hooked => exec[j].event = "dead"
  /\ exec[j].event \in {"succeeded", "continued", "retry", "dead"} => lease[j] = exec[j].event
  /\ exec[j].event = "lease_lost" => lease[j] \in {"leased", "reaped"}

(* Whose the observer tasks of a lease are: the job task's from the start  *)
(* of the handler to the notification, then the terminal task's, which is  *)
(* admitted or, when the loop has left it behind, aborted.                 *)
ObserverStory(j) ==
  /\ exec[j].pc \in {"none", "marking", "handler", "persist", "notify"} => terminal[j].state = "none"
  /\ exec[j].pc \in {"handler", "persist", "notify"} => exec[j].owns
  /\ exec[j].pc \in {"none", "marking", "done"} => ~exec[j].owns
  /\ Active(running[j]) => exec[j].owns \/ running[j].aborted \/ terminal[j].state = "draining"
  /\ terminal[j].state = "notifying" => ~Active(running[j])
  /\ exec[j].pc \notin {"none", "done"} => j \in join_set
  /\ worker_loop \in {"observers", "aborting", "exited"} => exec[j].pc \in {"none", "done"}
  /\ Active(terminal[j]) => j \in admitted \/ worker_loop = "exited"
  /\ worker_loop \in {"aborting", "exited"} /\ Active(terminal[j]) => terminal[j].aborted

(* The inductive invariant of the worker.                                  *)
WorkerInv == WorkerShape /\ \A j \in Leases : LeaseStory(j) /\ ObserverStory(j)

LEMMA WorkerInvSuffices == WorkerInv => WorkerEventsTellTheTruth
<1> SUFFICES ASSUME WorkerInv PROVE WorkerEventsTellTheTruth
  OBVIOUS
<1>1. WorkerTypeOK
  BY DEF WorkerInv, WorkerShape
<1>2. RunningBeforeTerminal /\ EventsTellTheTruth /\ HookMeansOwnDeadLetter
  BY DEF WorkerInv, LeaseStory, ObserverStory, RunningBeforeTerminal, EventsTellTheTruth,
         HookMeansOwnDeadLetter
<1>3. RunningIsOwned
  BY DEF WorkerInv, ObserverStory, RunningIsOwned
<1>4. ASSUME worker_loop = "exited", NEW j \in Leases
      PROVE  /\ exec[j].pc \in {"none", "done"}
             /\ Active(terminal[j]) => terminal[j].aborted
             /\ Active(running[j]) => running[j].aborted \/ terminal[j].aborted
  <2>1. LeaseStory(j) /\ ObserverStory(j)
    BY DEF WorkerInv
  <2>2. exec[j].pc \in {"none", "done"} /\ (Active(terminal[j]) => terminal[j].aborted)
    BY <1>4, <2>1 DEF ObserverStory
  <2>3. Active(running[j]) => running[j].aborted \/ terminal[j].state = "draining"
    BY <2>1, <2>2 DEF ObserverStory
  <2> QED BY <2>2, <2>3 DEF Active
<1>5. WorkerExitAborts
  BY <1>4 DEF WorkerExitAborts
<1> QED BY <1>1, <1>2, <1>3, <1>5 DEF WorkerEventsTellTheTruth

LEMMA WorkerInitInv == WorkerInit => WorkerInv
<1> SUFFICES ASSUME WorkerInit PROVE WorkerInv
  OBVIOUS
<1>1. IsFiniteSet(join_set) /\ IsFiniteSet(admitted) /\ Cardinality(join_set) = 0 /\ Cardinality(admitted) = 0
  BY FS_EmptySet DEF WorkerInit
<1>2. WorkerTypeOK
  <2>1. stopping \in BOOLEAN
    BY Zenon DEF WorkerInit
  <2> QED BY <1>1, <2>1, WorkerAssumption DEF WorkerInit, WorkerTypeOK, Rows
<1>3. WorkerShape
  BY <1>1, <1>2 DEF WorkerInit, WorkerShape, ExecType, ExecSteps, Dispositions, Events, RunningType, TerminalType, NoExec, NoObserver
<1> QED BY <1>3 DEF WorkerInit, WorkerInv, LeaseStory, ObserverStory, NoExec, NoObserver, Active

(* A step of one job task or of its observers changes nothing of the other *)
(* leases and leaves the loop and its sets of tasks alone.                 *)
LeaseOnly(j) ==
  /\ lease' \in [Leases -> Rows] /\ exec' \in [Leases -> ExecType]
  /\ running' \in [Leases -> RunningType] /\ terminal' \in [Leases -> TerminalType]
  /\ \A k \in Leases \ {j} : UNCHANGED <<lease[k], exec[k], running[k], terminal[k]>>
  /\ UNCHANGED <<stopping, admitted, join_set, worker_loop>>

LEMMA LeaseStepInv ==
  ASSUME WorkerInv, NEW j \in Leases, LeaseOnly(j), LeaseStory(j)', ObserverStory(j)'
  PROVE  WorkerInv'
<1>1. WorkerShape'
  BY DEF WorkerInv, WorkerShape, WorkerTypeOK, LeaseOnly
<1>2. ASSUME NEW k \in Leases, k # j PROVE LeaseStory(k)' /\ ObserverStory(k)'
  <2>1. UNCHANGED <<lease[k], exec[k], running[k], terminal[k], join_set, admitted, worker_loop>>
    BY <1>2 DEF LeaseOnly, WorkerInv, WorkerShape, WorkerTypeOK
  <2>2. LeaseStory(k) /\ ObserverStory(k)
    BY DEF WorkerInv
  <2> QED BY <2>1, <2>2 DEF LeaseStory, ObserverStory, Active
<1> QED BY <1>1, <1>2 DEF WorkerInv

(* An update of one field keeps the type.                                  *)
LEMMA ExecFields ==
  ASSUME NEW f \in [Leases -> ExecType], NEW j \in Leases
  PROVE  /\ \A v \in ExecSteps : [f EXCEPT ![j].pc = v] \in [Leases -> ExecType]
         /\ \A v \in Dispositions : [f EXCEPT ![j].do = v] \in [Leases -> ExecType]
         /\ \A v \in Events : [f EXCEPT ![j].event = v] \in [Leases -> ExecType]
         /\ \A v \in BOOLEAN : /\ [f EXCEPT ![j].valid = v] \in [Leases -> ExecType]
                              /\ [f EXCEPT ![j].owns = v] \in [Leases -> ExecType]
                              /\ [f EXCEPT ![j].hooked = v] \in [Leases -> ExecType]
BY DEF ExecType

(* spawn_terminal_observer frees the places of tasks that have ended, and  *)
(* takes one if there is one.                                              *)
LEMMA NotifyInv ==
  ASSUME WorkerInv, NEW j \in Leases, Notify(j)
  PROVE  WorkerInv'
<1> DEFINE finished == {k \in admitted : ~Active(terminal[k])}
           admit == TryAdmit(finished)
<1>0. WorkerShape /\ LeaseStory(j) /\ ObserverStory(j) /\ At(j, "notify")
  BY DEF WorkerInv, Notify
<1>1. /\ admitted' = (admitted \ finished) \cup (IF admit THEN {j} ELSE {})
      /\ terminal' = IF ~admit THEN terminal
                     ELSE [terminal EXCEPT ![j].state = IF WaitsForRunning(j) THEN "draining" ELSE "notifying"]
      /\ exec' = [exec EXCEPT ![j].pc = AfterNotify(j, admit),
                              ![j].owns = @ /\ Active(running[j]) /\ ~admit]
      /\ UNCHANGED <<stopping, lease, running, join_set, worker_loop>>
  BY DEF Notify
<1>2. IsFiniteSet(admitted \ finished) /\ Cardinality(admitted \ finished) <= Cardinality(admitted)
      /\ Cardinality(admitted \ finished) \in Nat /\ Cardinality(admitted) \in Nat
  BY <1>0, FS_Difference, FS_CardinalityType, FS_Subset DEF WorkerShape
<1>3. IsFiniteSet(admitted') /\ Cardinality(admitted') <= MaxTerminal
  <2>1. CASE admit
    <3>1. /\ IsFiniteSet((admitted \ finished) \cup {j})
          /\ Cardinality((admitted \ finished) \cup {j}) = IF j \in admitted \ finished
               THEN Cardinality(admitted \ finished) ELSE Cardinality(admitted \ finished) + 1
      <4> HIDE DEF finished
      <4> QED BY <1>2, FS_AddElement
    <3>2. Cardinality((admitted \ finished) \cup {j}) \in Nat
      BY <3>1, FS_CardinalityType
    <3> QED BY <1>1, <1>2, <2>1, <3>1, <3>2, WorkerAssumption DEF TryAdmit
  <2>2. CASE ~admit
    BY <1>0, <1>1, <1>2, <2>2, WorkerAssumption DEF WorkerShape, WorkerTypeOK
  <2> QED BY <2>1, <2>2
<1>4. AfterNotify(j, admit) \in {"hook", "ending"} /\ (AfterNotify(j, admit) = "hook" => exec[j].event = "dead")
  BY DEF AfterNotify
<1> HIDE DEF finished, admit
<1>5. WorkerShape'
  <2>1. exec' \in [Leases -> ExecType]
    <3>1. (exec[j].owns /\ Active(running[j]) /\ ~admit) \in BOOLEAN
      BY Zenon
    <3> QED BY Zenon, <1>0, <1>1, <1>4, <3>1, ExecFields DEF WorkerShape, ExecSteps
  <2>2. terminal' \in [Leases -> TerminalType]
    BY <1>0, <1>1 DEF WorkerShape, TerminalType
  <2> QED BY <1>0, <1>1, <1>3, <2>1, <2>2 DEF WorkerShape, WorkerTypeOK
<1>6. \A k \in Leases : Active(terminal[k]) /\ k \in admitted => k \in admitted'
  BY <1>1 DEF finished
<1>7. LeaseStory(j)' /\ ObserverStory(j)'
  BY <1>0, <1>1, <1>4, <1>6 DEF WorkerShape, ExecType, RunningType, TerminalType, LeaseStory, ObserverStory,
                           Active, WaitsForRunning, At
<1>8. ASSUME NEW k \in Leases, k # j PROVE LeaseStory(k)' /\ ObserverStory(k)'
  <2>1. UNCHANGED <<lease[k], exec[k], running[k], terminal[k], join_set, worker_loop>>
    BY <1>0, <1>1, <1>8 DEF WorkerShape
  <2>2. LeaseStory(k) /\ ObserverStory(k)
    BY DEF WorkerInv
  <2> QED BY <2>1, <2>2, <1>6 DEF LeaseStory, ObserverStory, Active
<1> QED BY <1>5, <1>7, <1>8 DEF WorkerInv

LEMMA JobStepInv ==
  ASSUME WorkerInv, NEW j \in Leases, JobStep(j)
  PROVE  WorkerInv'
<1>0. WorkerShape /\ LeaseStory(j) /\ ObserverStory(j)
  BY DEF WorkerInv
<1>a. /\ stopping \in BOOLEAN /\ lease \in [Leases -> Rows]
      /\ exec \in [Leases -> ExecType]
      /\ running \in [Leases -> RunningType] /\ terminal \in [Leases -> TerminalType]
  BY <1>0 DEF WorkerShape, WorkerTypeOK
<1> SUFFICES ASSUME ~Notify(j) PROVE LeaseOnly(j) /\ LeaseStory(j)' /\ ObserverStory(j)'
  BY LeaseStepInv, NotifyInv
<1>1. ASSUME MarkRunning(j) PROVE LeaseOnly(j) /\ LeaseStory(j)' /\ ObserverStory(j)'
  <2>1. exec' \in [Leases -> ExecType]
    BY Zenon, <1>a, ExecFields, <1>1 DEF MarkRunning, ExecSteps, Dispositions, Events
  <2>2. running' \in [Leases -> RunningType]
    BY Zenon, <1>a, <1>1 DEF MarkRunning, RunningType
  <2>3. LeaseOnly(j)
    BY <1>a, <1>1, <2>1, <2>2 DEF MarkRunning, LeaseOnly, Rows
  <2>4. LeaseStory(j)' /\ ObserverStory(j)'
    BY <1>0, <1>a, <1>1 DEF MarkRunning, At, ExecType, RunningType, TerminalType, LeaseStory, ObserverStory, Active
  <2> QED BY <2>3, <2>4
<1>2. ASSUME NEW left \in {"leased", "reaped", "released"}, MarkFails(j, left) PROVE LeaseOnly(j) /\ LeaseStory(j)' /\ ObserverStory(j)'
  <2>1. exec' \in [Leases -> ExecType]
    BY Zenon, <1>a, ExecFields, <1>2 DEF MarkFails, JobTaskEnds, ExecSteps, Dispositions, Events
  <2>2. running' \in [Leases -> RunningType]
    BY Zenon, <1>a, <1>2 DEF MarkFails, JobTaskEnds, AbortTask, Active, RunningType
  <2>3. LeaseOnly(j)
    BY <1>a, <1>2, <2>1, <2>2 DEF MarkFails, JobTaskEnds, AbortTask, Active, LeaseOnly, Rows
  <2>4. LeaseStory(j)' /\ ObserverStory(j)'
    BY <1>0, <1>a, <1>2 DEF MarkFails, JobTaskEnds, AbortTask, Active, At, ExecType, RunningType, TerminalType, LeaseStory, ObserverStory
  <2> QED BY <2>3, <2>4
<1>3. ASSUME NEW result \in Results, HandlerReturns(j, result) PROVE LeaseOnly(j) /\ LeaseStory(j)' /\ ObserverStory(j)'
  <2>0. result[1] \in {"succeed", "continue", "retry", "fail"} /\ result[2] \in BOOLEAN
    BY <1>3, WorkerAssumption
  <2>1. exec' \in [Leases -> ExecType]
    BY ZenonT(30), <1>a, ExecFields, <1>3, <2>0 DEF HandlerReturns, ExecSteps, Dispositions, Events
  <2>3. LeaseOnly(j)
    BY <1>a, <1>3, <2>1 DEF HandlerReturns, LeaseOnly, Rows
  <2>4. LeaseStory(j)' /\ ObserverStory(j)'
    BY <1>0, <1>a, <1>3, <2>0 DEF HandlerReturns, At, ExecType, RunningType, TerminalType, LeaseStory, ObserverStory, Active
  <2> QED BY <2>3, <2>4
<1>4. ASSUME LeaseMaintenanceLost(j) PROVE LeaseOnly(j) /\ LeaseStory(j)' /\ ObserverStory(j)'
  <2>1. exec' \in [Leases -> ExecType]
    BY Zenon, <1>a, ExecFields, <1>4 DEF LeaseMaintenanceLost, Told, ExecSteps, Dispositions, Events
  <2>3. LeaseOnly(j)
    BY <1>a, <1>4, <2>1 DEF LeaseMaintenanceLost, Told, LeaseOnly, Rows
  <2>4. LeaseStory(j)' /\ ObserverStory(j)'
    BY <1>0, <1>a, <1>4 DEF LeaseMaintenanceLost, Told, At, ExecType, RunningType, TerminalType, LeaseStory, ObserverStory, Active
  <2> QED BY <2>3, <2>4
<1>5. ASSUME PersistFails(j) PROVE LeaseOnly(j) /\ LeaseStory(j)' /\ ObserverStory(j)'
  <2>1. exec' \in [Leases -> ExecType]
    <3>1. PICK event \in Events : Told(j, event)
      BY <1>5 DEF PersistFails, Events
    <3> QED BY Zenon, <1>a, ExecFields, <3>1 DEF Told, ExecSteps
  <2>3. LeaseOnly(j)
    BY <1>a, <1>5, <2>1 DEF PersistFails, Told, LeaseOnly, Rows
  <2>4. LeaseStory(j)' /\ ObserverStory(j)'
    BY <1>0, <1>a, <1>5 DEF PersistFails, Told, At, ExecType, RunningType, TerminalType, LeaseStory, ObserverStory, Active
  <2> QED BY <2>3, <2>4
<1>6. ASSUME Rewrite(j) PROVE LeaseOnly(j) /\ LeaseStory(j)' /\ ObserverStory(j)'
  <2>1. exec' \in [Leases -> ExecType]
    BY Zenon, <1>a, ExecFields, <1>6 DEF Rewrite, ExecSteps, Dispositions, Events
  <2>3. LeaseOnly(j)
    BY <1>a, <1>6, <2>1 DEF Rewrite, LeaseOnly, Rows
  <2>4. LeaseStory(j)' /\ ObserverStory(j)'
    BY <1>0, <1>a, <1>6 DEF Rewrite, At, ExecType, RunningType, TerminalType, LeaseStory, ObserverStory, Active
  <2> QED BY <2>3, <2>4
<1>7. ASSUME NEW to \in Rows, PersistOk(j, to) PROVE LeaseOnly(j) /\ LeaseStory(j)' /\ ObserverStory(j)'
  <2>0. to \in {"succeeded", "continued", "retry", "dead"}
    BY <1>0, <1>7 DEF PersistOk, Targets, LeaseStory, At, WorkerShape, ExecType, Dispositions
  <2>1. exec' \in [Leases -> ExecType]
    BY Zenon, <1>a, ExecFields, <1>7, <2>0 DEF PersistOk, Told, ExecSteps, Dispositions, Events
  <2>3. LeaseOnly(j)
    BY <1>a, <1>7, <2>1 DEF PersistOk, Told, Targets, LeaseOnly, Rows
  <2>4. LeaseStory(j)' /\ ObserverStory(j)'
    BY <1>0, <1>a, <1>7, <2>0 DEF PersistOk, Told, Targets, At, ExecType, RunningType, TerminalType, LeaseStory, ObserverStory, Active
  <2> QED BY <2>3, <2>4
<1>8. ASSUME NEW to \in Rows, PersistUnconfirmed(j, to) PROVE LeaseOnly(j) /\ LeaseStory(j)' /\ ObserverStory(j)'
  <2>0. to \in {"succeeded", "continued", "retry", "dead"}
    BY <1>0, <1>8 DEF PersistUnconfirmed, Targets, LeaseStory, At, WorkerShape, ExecType, Dispositions
  <2>1. exec' \in [Leases -> ExecType]
    BY Zenon, <1>a, ExecFields, <1>8, <2>0 DEF PersistUnconfirmed, Told, ExecSteps, Dispositions, Events
  <2>3. LeaseOnly(j)
    BY <1>a, <1>8, <2>1 DEF PersistUnconfirmed, Told, Targets, LeaseOnly, Rows
  <2>4. LeaseStory(j)' /\ ObserverStory(j)'
    BY <1>0, <1>a, <1>8, <2>0 DEF PersistUnconfirmed, Told, Targets, At, ExecType, RunningType, TerminalType, LeaseStory, ObserverStory, Active
  <2> QED BY <2>3, <2>4
<1>9. ASSUME StartHook(j) PROVE LeaseOnly(j) /\ LeaseStory(j)' /\ ObserverStory(j)'
  <2>1. exec' \in [Leases -> ExecType]
    BY Zenon, <1>a, ExecFields, <1>9 DEF StartHook, ExecSteps, Dispositions, Events
  <2>3. LeaseOnly(j)
    BY <1>a, <1>9, <2>1 DEF StartHook, LeaseOnly, Rows
  <2>4. LeaseStory(j)' /\ ObserverStory(j)'
    BY <1>0, <1>a, <1>9 DEF StartHook, At, ExecType, RunningType, TerminalType, LeaseStory, ObserverStory, Active
  <2> QED BY <2>3, <2>4
<1>10. ASSUME HookEnds(j) PROVE LeaseOnly(j) /\ LeaseStory(j)' /\ ObserverStory(j)'
  <2>1. exec' \in [Leases -> ExecType]
    BY Zenon, <1>a, ExecFields, <1>10 DEF HookEnds, ExecSteps, Dispositions, Events
  <2>3. LeaseOnly(j)
    BY <1>a, <1>10, <2>1 DEF HookEnds, LeaseOnly, Rows
  <2>4. LeaseStory(j)' /\ ObserverStory(j)'
    BY <1>0, <1>a, <1>10 DEF HookEnds, At, ExecType, RunningType, TerminalType, LeaseStory, ObserverStory, Active
  <2> QED BY <2>3, <2>4
<1>11. ASSUME Finish(j) PROVE LeaseOnly(j) /\ LeaseStory(j)' /\ ObserverStory(j)'
  <2>1. exec' \in [Leases -> ExecType]
    BY Zenon, <1>a, ExecFields, <1>11 DEF Finish, JobTaskEnds, ExecSteps, Dispositions, Events
  <2>2. running' \in [Leases -> RunningType]
    BY Zenon, <1>a, <1>11 DEF Finish, JobTaskEnds, AbortTask, Active, RunningType
  <2>3. LeaseOnly(j)
    BY <1>a, <1>11, <2>1, <2>2 DEF Finish, JobTaskEnds, AbortTask, Active, LeaseOnly, Rows
  <2>4. LeaseStory(j)' /\ ObserverStory(j)'
    BY <1>0, <1>a, <1>11 DEF Finish, JobTaskEnds, AbortTask, Active, At, ExecType, RunningType, TerminalType, LeaseStory, ObserverStory
  <2> QED BY <2>3, <2>4
<1> QED BY <1>1, <1>2, <1>3, <1>4, <1>5, <1>6, <1>7, <1>8, <1>9, <1>10, <1>11 DEF JobStep

(* The other steps of one lease: its observers' tasks, its drop by a stop  *)
(* and the loss of its lease.                                              *)
LEMMA OtherLeaseStepInv ==
  ASSUME WorkerInv, NEW j \in Leases,
         \/ ObserverStep(j) \/ JoinStep(j) \/ LeaseTaken(j)
         \/ \E to \in Rows : JobTaskDropped(j, to)
  PROVE  WorkerInv'
<1>0. WorkerShape /\ LeaseStory(j) /\ ObserverStory(j)
  BY DEF WorkerInv
<1>a. /\ stopping \in BOOLEAN /\ lease \in [Leases -> Rows]
      /\ exec \in [Leases -> ExecType]
      /\ running \in [Leases -> RunningType] /\ terminal \in [Leases -> TerminalType]
  BY <1>0 DEF WorkerShape, WorkerTypeOK
<1> SUFFICES LeaseOnly(j) /\ LeaseStory(j)' /\ ObserverStory(j)'
  BY LeaseStepInv
<1>1. ASSUME RunningEnds(j) PROVE LeaseOnly(j) /\ LeaseStory(j)' /\ ObserverStory(j)'
  <2>2. running' \in [Leases -> RunningType]
    BY Zenon, <1>a, <1>1 DEF RunningEnds, RunningType
  <2>4. LeaseOnly(j)
    BY <1>a, <1>1, <2>2 DEF RunningEnds, LeaseOnly, Rows
  <2>5. LeaseStory(j)' /\ ObserverStory(j)'
    BY <1>0, <1>a, <1>1 DEF RunningEnds, At, ExecType, RunningType, TerminalType, LeaseStory, ObserverStory, Active
  <2> QED BY <2>4, <2>5
<1>2. ASSUME TerminalEnds(j) PROVE LeaseOnly(j) /\ LeaseStory(j)' /\ ObserverStory(j)'
  <2>3. terminal' \in [Leases -> TerminalType]
    BY <1>a, <1>2 DEF TerminalEnds, TerminalType
  <2>4. LeaseOnly(j)
    BY <1>a, <1>2, <2>3 DEF TerminalEnds, LeaseOnly, Rows
  <2>5. LeaseStory(j)' /\ ObserverStory(j)'
    BY <1>0, <1>a, <1>2 DEF TerminalEnds, At, ExecType, RunningType, TerminalType, LeaseStory, ObserverStory, Active
  <2> QED BY <2>4, <2>5
<1>3. ASSUME RunningJoined(j) PROVE LeaseOnly(j) /\ LeaseStory(j)' /\ ObserverStory(j)'
  <2>3. terminal' \in [Leases -> TerminalType]
    BY <1>a, <1>3 DEF RunningJoined, TerminalType
  <2>4. LeaseOnly(j)
    BY <1>a, <1>3, <2>3 DEF RunningJoined, LeaseOnly, Rows
  <2>5. LeaseStory(j)' /\ ObserverStory(j)'
    BY <1>0, <1>a, <1>3 DEF RunningJoined, At, ExecType, RunningType, TerminalType, LeaseStory, ObserverStory, Active
  <2> QED BY <2>4, <2>5
<1>4. ASSUME DrainAborted(j) PROVE LeaseOnly(j) /\ LeaseStory(j)' /\ ObserverStory(j)'
  <2>2. running' \in [Leases -> RunningType]
    BY Zenon, <1>a, <1>4 DEF DrainAborted, AbortTask, Active, RunningType
  <2>3. terminal' \in [Leases -> TerminalType]
    BY <1>a, <1>4 DEF DrainAborted, AbortTask, Active, TerminalType
  <2>4. LeaseOnly(j)
    BY <1>a, <1>4, <2>2, <2>3 DEF DrainAborted, AbortTask, Active, LeaseOnly, Rows
  <2>5. LeaseStory(j)' /\ ObserverStory(j)'
    BY <1>0, <1>a, <1>4 DEF DrainAborted, AbortTask, Active, At, ExecType, RunningType, TerminalType, LeaseStory, ObserverStory
  <2> QED BY <2>4, <2>5
<1>5. ASSUME LeaseTaken(j) PROVE LeaseOnly(j) /\ LeaseStory(j)' /\ ObserverStory(j)'
  <2>4. LeaseOnly(j)
    BY <1>a, <1>5 DEF LeaseTaken, LeaseOnly, Rows
  <2>5. LeaseStory(j)' /\ ObserverStory(j)'
    BY <1>0, <1>a, <1>5 DEF LeaseTaken, At, ExecType, RunningType, TerminalType, LeaseStory, ObserverStory, Active
  <2> QED BY <2>4, <2>5
<1>6. ASSUME NEW to \in Rows, JobTaskDropped(j, to) PROVE LeaseOnly(j) /\ LeaseStory(j)' /\ ObserverStory(j)'
  <2>1. exec' \in [Leases -> ExecType]
    BY Zenon, <1>a, ExecFields, <1>6 DEF JobTaskDropped, JobTaskEnds, AbortTask, Active, Targets, ExecSteps
  <2>2. running' \in [Leases -> RunningType]
    BY ZenonT(30), <1>a, <1>6 DEF JobTaskDropped, JobTaskEnds, AbortTask, Active, RunningType
  <2>4. LeaseOnly(j)
    BY <1>a, <1>6, <2>1, <2>2 DEF JobTaskDropped, JobTaskEnds, AbortTask, Active, Targets, LeaseOnly, Rows
  <2>5. LeaseStory(j)' /\ ObserverStory(j)'
    BY <1>0, <1>a, <1>6 DEF JobTaskDropped, JobTaskEnds, AbortTask, Active, Targets, At, ExecType, RunningType, TerminalType, LeaseStory, ObserverStory
  <2> QED BY <2>4, <2>5
<1> QED BY <1>1, <1>2, <1>3, <1>4, <1>5, <1>6 DEF ObserverStep, JoinStep

(* A claim fills no more than the free places of the join set.             *)
LEMMA ClaimInv ==
  ASSUME WorkerInv, NEW batch \in SUBSET Leases, Claim(batch)
  PROVE  WorkerInv'
<1>0. WorkerShape /\ \A j \in Leases : LeaseStory(j) /\ ObserverStory(j)
  BY DEF WorkerInv
<1>1. IsFiniteSet(join_set') /\ Cardinality(join_set') <= MaxConcurrency
  <2>1. IsFiniteSet(join_set) /\ IsFiniteSet(batch) /\ Cardinality(batch) <= MaxConcurrency - Cardinality(join_set)
        /\ join_set' = join_set \cup batch
    BY <1>0 DEF WorkerShape, Claim, Capacity
  <2>2. Cardinality(join_set) \in Nat /\ Cardinality(batch) \in Nat /\ Cardinality(join_set \cap batch) \in Nat
    BY <2>1, FS_CardinalityType, FS_Intersection
  <2>3. /\ IsFiniteSet(join_set \cup batch)
        /\ Cardinality(join_set \cup batch) = Cardinality(join_set) + Cardinality(batch) - Cardinality(join_set \cap batch)
    BY <2>1, FS_Union
  <2> QED BY <2>1, <2>2, <2>3, WorkerAssumption
<1>2. exec' \in [Leases -> ExecType]
  <2>1. [NoExec EXCEPT !.pc = "marking"] \in ExecType
    <3>1. NoExec \in ExecType
      BY Zenon DEF NoExec, ExecType, ExecSteps, Dispositions, Events
    <3> QED BY <3>1 DEF ExecType, ExecSteps
  <2> QED BY <1>0, <2>1 DEF WorkerShape, Claim
<1>3. WorkerShape'
  BY <1>0, <1>1, <1>2 DEF WorkerShape, WorkerTypeOK, Claim, Rows
<1>4. ASSUME NEW j \in batch PROVE LeaseStory(j)' /\ ObserverStory(j)'
  BY <1>0, <1>4 DEF Claim, LeaseStory, ObserverStory, Active, NoExec
<1>5. ASSUME NEW j \in Leases \ batch PROVE LeaseStory(j)' /\ ObserverStory(j)'
  BY <1>0, <1>5 DEF Claim, LeaseStory, ObserverStory, Active
<1> QED BY <1>3, <1>4, <1>5 DEF WorkerInv

(* The steps of the loop but the claim change only its sets of tasks.      *)
LEMMA LoopStepInv ==
  ASSUME WorkerInv, \/ Iterate \/ WakeWorker \/ DrainJobs \/ ObserversDrained
                    \/ ObserverDrainTimeout \/ AbortTimeout
  PROVE  WorkerInv'
<1>0. WorkerShape /\ \A j \in Leases : LeaseStory(j) /\ ObserverStory(j)
  BY DEF WorkerInv
<1>1. /\ IsFiniteSet(join_set') /\ Cardinality(join_set') <= MaxConcurrency
      /\ IsFiniteSet(admitted') /\ Cardinality(admitted') <= MaxTerminal
  <2>1. join_set' \subseteq join_set /\ admitted' \subseteq admitted
    BY DEF Iterate, WakeWorker, DrainJobs, ObserversDrained, ObserverDrainTimeout, AbortTimeout
  <2>2. /\ IsFiniteSet(join_set') /\ Cardinality(join_set') <= Cardinality(join_set)
        /\ IsFiniteSet(admitted') /\ Cardinality(admitted') <= Cardinality(admitted)
    BY <1>0, <2>1, FS_Subset DEF WorkerShape
  <2>3. /\ Cardinality(join_set) \in Nat /\ Cardinality(join_set') \in Nat
        /\ Cardinality(admitted) \in Nat /\ Cardinality(admitted') \in Nat
    BY <1>0, <2>2, FS_CardinalityType DEF WorkerShape
  <2> QED BY <1>0, <2>2, <2>3, WorkerAssumption DEF WorkerShape, WorkerTypeOK
<1>2. terminal' \in [Leases -> TerminalType]
  <2>1. \A j \in Leases : AbortTask(terminal[j]) \in TerminalType
    BY Zenon, <1>0 DEF WorkerShape, TerminalType, AbortTask
  <2> QED BY <1>0, <2>1 DEF WorkerShape, Iterate, WakeWorker, DrainJobs, ObserversDrained, ObserverDrainTimeout,
                            AbortTimeout
<1>3. WorkerShape'
  BY <1>0, <1>1, <1>2 DEF WorkerShape, WorkerTypeOK, Iterate, WakeWorker, DrainJobs, ObserversDrained,
                           ObserverDrainTimeout, AbortTimeout, JobsDone
<1>4. ASSUME NEW j \in Leases PROVE LeaseStory(j)'
  BY <1>0 DEF LeaseStory, Iterate, WakeWorker, DrainJobs, ObserversDrained, ObserverDrainTimeout, AbortTimeout
<1>5. ASSUME NEW j \in Leases PROVE ObserverStory(j)'
  <2>1. CASE Iterate
    BY <1>0, <2>1 DEF ObserverStory, Iterate, JobsDone, At, Active
  <2>2. CASE WakeWorker
    BY <1>0, <2>2 DEF ObserverStory, WakeWorker, Active
  <2>3. CASE DrainJobs
    BY <1>0, <2>3 DEF ObserverStory, DrainJobs, JobsDone, At, Active
  <2>4. CASE ObserversDrained
    BY <1>0, <2>4 DEF ObserverStory, ObserversDrained, Active
  <2>5. CASE ObserverDrainTimeout
    BY <1>0, <2>5 DEF WorkerShape, TerminalType, ObserverStory, ObserverDrainTimeout, AbortTask, Active
  <2>6. CASE AbortTimeout
    BY <1>0, <2>6 DEF ObserverStory, AbortTimeout, Active
  <2> QED BY <2>1, <2>2, <2>3, <2>4, <2>5, <2>6
<1> QED BY <1>3, <1>4, <1>5 DEF WorkerInv

LEMMA WorkerNextInv == WorkerInv /\ [WorkerNext]_wvars => WorkerInv'
<1> SUFFICES ASSUME WorkerInv, [WorkerNext]_wvars PROVE WorkerInv'
  OBVIOUS
<1>1. CASE UNCHANGED wvars
  BY <1>1 DEF WorkerInv, WorkerShape, WorkerTypeOK, LeaseStory, ObserverStory, Active, wvars
<1>2. CASE StopWorker
  <2>1. stopping' \in BOOLEAN
    BY Zenon, <1>2 DEF StopWorker
  <2> QED BY <1>2, <2>1 DEF StopWorker, WorkerInv, WorkerShape, WorkerTypeOK, LeaseStory, ObserverStory, Active
<1>3. CASE WorkerStep
  BY <1>3, ClaimInv, LoopStepInv DEF WorkerStep
<1>4. CASE \E j \in Leases : JobStep(j) \/ ObserverStep(j) \/ JoinStep(j) \/ LeaseTaken(j)
  BY <1>4, JobStepInv, OtherLeaseStepInv
<1>5. CASE \E j \in Leases, to \in Rows : JobTaskDropped(j, to)
  BY <1>5, OtherLeaseStepInv
<1> QED BY <1>1, <1>2, <1>3, <1>4, <1>5 DEF WorkerNext, WorkerTerminated

(* The worker, with any number of leases and any limits: observers are     *)
(* told what the database holds and of the end only after the running      *)
(* notification, hooks are called only for the worker's own dead letters,  *)
(* and no task outlives its owner unless it was aborted.                   *)
THEOREM WorkerCorrect == WorkerSpec => []WorkerEventsTellTheTruth
<1>1. WorkerSpec => []WorkerInv
  BY WorkerInitInv, WorkerNextInv, PTL DEF WorkerSpec
<1> QED BY <1>1, WorkerInvSuffices, PTL

-----------------------------------------------------------------------------
(* The reaper.                                                             *)

ReaperSteps == {"top", "reap", "hooks", "drain", "finish", "abort_hooks", "watch_batch", "sleep",
                "abort_watchers", "drain_watchers", "exited"}
BatchType == [pc : ReaperSteps, todo : SUBSET Jobs, batch : SUBSET Jobs, observed : BOOLEAN,
              budget : 0..MaxHooks, skipped : SUBSET Jobs]
CallbackStates == {"none", "running", "ended"}
CallbackResults == {"none", "completed", "panicked", "timed_out", "cancelled"}
CallbackType == [state : CallbackStates, result : CallbackResults, broke : BOOLEAN, aborted : BOOLEAN]

ReaperShape ==
  /\ ReaperTypeOK
  /\ reaper \in BatchType /\ task \in [Callbacks -> CallbackType]
  /\ IsFiniteSet(in_flight) /\ IsFiniteSet(watchers) /\ IsFiniteSet(reaper.batch)

(* Jobs of the batch whose hooks have been started.                        *)
Started == {j \in reaper.batch : task[Hook(j)].state # "none"}

(* The batch in hand, the window of hooks and its budget after a stop.     *)
BatchStory ==
  /\ reaper.todo \subseteq reaper.batch
  /\ reaper.pc # "hooks" => reaper.todo = {}
  /\ reaper.pc \in {"top", "reap", "watch_batch", "sleep"} => reaper.skipped = {}
  /\ reaper.pc \notin {"hooks", "drain", "finish", "abort_hooks"} => in_flight = {}
  /\ in_flight \subseteq {Hook(j) : j \in Started}
  /\ reaper.observed => stop
  /\ reaper.pc = "hooks" /\ reaper.observed => Cardinality(Started) + reaper.budget >= MaxHooks
  /\ reaper.skipped # {} => stop /\ Cardinality(Started) >= MaxHooks

(* One job: its row, its hook and its observers.                           *)
ReapedStory(j) ==
  /\ row[j] = "leased" \/ j \in reaper.todo => task[Hook(j)].state = "none"
  /\ row[j] = "leased" \/ j \in reaper.batch => task[Watcher(j)].state = "none"
  /\ j \in reaper.batch => row[j] # "leased"
  /\ HasHook(j) /\ task[Hook(j)].state = "none" => j \in reaper.todo \cup reaper.skipped
  /\ task[Hook(j)].state = "running" =>
       \/ Hook(j) \in in_flight
       \/ task[Hook(j)].aborted /\ reaper.pc \in {"abort_watchers", "drain_watchers", "exited"}
  /\ task[Hook(j)].state = "running" /\ reaper.pc = "abort_hooks" => task[Hook(j)].aborted
  /\ reaper.pc = "watch_batch" /\ j \in reaper.batch /\ HasHook(j) => Ended(Hook(j))
  /\ task[Watcher(j)].state # "none" /\ HasHook(j) => Ended(Hook(j))
  /\ task[Watcher(j)].state = "running" => Watcher(j) \in watchers \/ task[Watcher(j)].aborted
  /\ task[Watcher(j)].state = "running" /\ reaper.pc \in {"drain_watchers", "exited"} => task[Watcher(j)].aborted

(* The inductive invariant of the reaper.                                  *)
ReaperInv ==
  /\ ReaperShape /\ BatchStory /\ InterruptionsLeaveEvidence
  /\ \A j \in Jobs : ReapedStory(j)

(* Hooks and observers are different tasks, of one job each.               *)
LEMMA CallbackNames ==
  /\ \A j \in Jobs : Hook(j) \in Callbacks /\ Watcher(j) \in Callbacks
  /\ \A j, k \in Jobs : Hook(j) # Watcher(k)
  /\ \A j, k \in Jobs : j # k => Hook(j) # Hook(k) /\ Watcher(j) # Watcher(k)
  /\ \A c \in Callbacks : \E j \in Jobs : c = Hook(j) \/ c = Watcher(j)
BY DEF Hook, Watcher, Callbacks

LEMMA ReaperInvSuffices == ReaperInv => ReapedJobsAreAccountedFor
<1> SUFFICES ASSUME ReaperInv PROVE ReapedJobsAreAccountedFor
  OBVIOUS
<1>1. ReaperTypeOK /\ InterruptionsLeaveEvidence
  BY DEF ReaperInv, ReaperShape
<1>2. SkippedMeansWindowUsed
  BY DEF ReaperInv, BatchStory, Started, SkippedMeansWindowUsed
<1>3. DeadLettersAreAccountedFor /\ HooksBeforeObservers
  BY DEF ReaperInv, ReapedStory, DeadLettersAreAccountedFor, HooksBeforeObservers
<1>4. ReaperExitAborts
  <2> SUFFICES ASSUME reaper.pc = "exited", NEW c \in Callbacks, task[c].state = "running"
               PROVE  task[c].aborted
    BY DEF ReaperExitAborts
  <2>1. PICK j \in Jobs : c = Hook(j) \/ c = Watcher(j)
    BY CallbackNames
  <2>2. ReapedStory(j) /\ in_flight = {}
    BY DEF ReaperInv, BatchStory
  <2> QED BY <2>1, <2>2 DEF ReapedStory
<1> QED BY <1>1, <1>2, <1>3, <1>4 DEF ReapedJobsAreAccountedFor

LEMMA NoBatchType == NoBatch \in BatchType
<1>1. 0 \in 0..MaxHooks
  BY ReaperAssumption
<1> QED BY Zenon, <1>1 DEF NoBatch, BatchType, ReaperSteps

LEMMA ReaperInitInv == ReaperInit => ReaperInv
<1> SUFFICES ASSUME ReaperInit PROVE ReaperInv
  OBVIOUS
<1>1. stop \in BOOLEAN /\ NoTask \in CallbackType
  BY Zenon DEF ReaperInit, NoTask, CallbackType, CallbackStates, CallbackResults
<1>2. 0 \in 0..MaxHooks
  BY ReaperAssumption
<1>3. NoBatch \in BatchType
  BY NoBatchType
<1>4. IsFiniteSet({}) /\ Cardinality({}) = 0
  BY FS_EmptySet
<1>5. ReaperShape
  BY <1>1, <1>2, <1>3, <1>4, ReaperAssumption DEF ReaperInit, ReaperShape, ReaperTypeOK, NoBatch
<1>6. BatchStory
  BY DEF ReaperInit, BatchStory, NoBatch
<1>7. InterruptionsLeaveEvidence
  BY DEF ReaperInit, InterruptionsLeaveEvidence, Ended, NoTask
<1>8. ASSUME NEW j \in Jobs PROVE ReapedStory(j)
  BY CallbackNames DEF ReaperInit, ReapedStory, HasHook, NoTask, NoBatch
<1> QED BY <1>5, <1>6, <1>7, <1>8 DEF ReaperInv

(* An update of one field keeps the types.                                 *)
LEMMA BatchFields ==
  ASSUME NEW r \in BatchType
  PROVE  /\ \A v \in ReaperSteps : [r EXCEPT !.pc = v] \in BatchType
         /\ \A v \in SUBSET Jobs : /\ [r EXCEPT !.todo = v] \in BatchType
                                  /\ [r EXCEPT !.batch = v] \in BatchType
                                  /\ [r EXCEPT !.skipped = v] \in BatchType
         /\ \A v \in BOOLEAN : [r EXCEPT !.observed = v] \in BatchType
         /\ \A v \in 0..MaxHooks : [r EXCEPT !.budget = v] \in BatchType
BY DEF BatchType

LEMMA CallbackFields ==
  ASSUME NEW f \in [Callbacks -> CallbackType], NEW c \in Callbacks
  PROVE  /\ \A v \in CallbackStates : [f EXCEPT ![c].state = v] \in [Callbacks -> CallbackType]
         /\ \A v \in CallbackResults : [f EXCEPT ![c].result = v] \in [Callbacks -> CallbackType]
         /\ \A v \in BOOLEAN : [f EXCEPT ![c].broke = v] \in [Callbacks -> CallbackType]
BY DEF CallbackType

(* A step that starts nothing keeps the limits.                            *)
LEMMA ShapeShrinks ==
  ASSUME ReaperShape, in_flight' \subseteq in_flight, watchers' \subseteq watchers,
         reaper' \in BatchType, reaper'.batch \subseteq reaper.batch,
         stop' \in BOOLEAN, UNCHANGED row, evidence' \subseteq Callbacks,
         task' \in [Callbacks -> CallbackType]
  PROVE  ReaperShape'
<1>1. /\ IsFiniteSet(in_flight') /\ Cardinality(in_flight') <= Cardinality(in_flight)
      /\ IsFiniteSet(watchers') /\ Cardinality(watchers') <= Cardinality(watchers)
      /\ IsFiniteSet(reaper'.batch)
  BY FS_Subset DEF ReaperShape
<1>2. /\ Cardinality(in_flight) \in Nat /\ Cardinality(in_flight') \in Nat
      /\ Cardinality(watchers) \in Nat /\ Cardinality(watchers') \in Nat
  BY <1>1, FS_CardinalityType DEF ReaperShape
<1>3. reaper'.budget \in 0..MaxHooks
  BY DEF BatchType
<1>4. Cardinality(in_flight') <= MaxHooks /\ Cardinality(watchers') <= MaxWatchers
  BY <1>1, <1>2, ReaperAssumption DEF ReaperShape, ReaperTypeOK
<1> QED BY <1>1, <1>3, <1>4 DEF ReaperShape, ReaperTypeOK

(* Steps of the loop that leave rows and tasks alone.                      *)
LEMMA QuietInv ==
  ASSUME ReaperInv, UNCHANGED <<stop, row, task, evidence>>,
         in_flight' \subseteq in_flight, watchers' \subseteq watchers,
         reaper' \in BatchType, reaper'.batch \subseteq reaper.batch,
         BatchStory', \A j \in Jobs : ReapedStory(j)'
  PROVE  ReaperInv'
<1>1. ReaperShape'
  BY ShapeShrinks DEF ReaperInv, ReaperShape, ReaperTypeOK
<1>2. InterruptionsLeaveEvidence'
  BY DEF ReaperInv, InterruptionsLeaveEvidence, Ended
<1> QED BY <1>1, <1>2 DEF ReaperInv

LEMMA QuietStepInv ==
  ASSUME ReaperInv,
         \/ Top \/ ReapFails \/ EndAdmission \/ DrainEnds \/ ShutdownDrained \/ AbortDrainTimeout
         \/ BatchWatched \/ WakeReaper \/ WatchersDrained
         \/ \E j \in Jobs : PassOver(j)
         \/ \E c \in Callbacks : JoinHook(c)
  PROVE  ReaperInv'
<1>0. reaper \in BatchType /\ BatchStory /\ ReaperShape /\ \A j \in Jobs : ReapedStory(j)
  BY DEF ReaperInv, ReaperShape
<1> SUFFICES /\ UNCHANGED <<stop, row, task, evidence>>
             /\ in_flight' \subseteq in_flight /\ watchers' \subseteq watchers
             /\ reaper' \in BatchType /\ reaper'.batch \subseteq reaper.batch
             /\ BatchStory' /\ \A j \in Jobs : ReapedStory(j)'
  BY QuietInv
<1>t. UNCHANGED <<stop, row, task, evidence>> /\ in_flight' \subseteq in_flight /\ watchers' \subseteq watchers
  BY DEF Top, ReapFails, EndAdmission, DrainEnds, ShutdownDrained, AbortDrainTimeout, BatchWatched, WakeReaper,
         WatchersDrained, PassOver, JoinHook
<1>1. CASE Top
  <2>1. reaper' \in BatchType
    BY Zenon, <1>0, <1>1, BatchFields DEF Top, Goto, ReaperSteps
  <2>2. BatchStory' /\ reaper'.batch \subseteq reaper.batch
    BY <1>0, <1>t, <1>1 DEF Top, Goto, Finished, BatchStory, Started, ReapedStory, HasHook, Ended, BatchType
  <2>3. ASSUME NEW j \in Jobs PROVE ReapedStory(j)'
    BY <1>0, <1>t, <1>1, CallbackNames DEF Top, Goto, Finished, BatchStory, Started, ReapedStory, HasHook, Ended, BatchType
  <2> QED BY <1>t, <2>1, <2>2, <2>3
<1>2. CASE ReapFails
  <2>1. reaper' \in BatchType
    BY Zenon, <1>0, <1>2, BatchFields DEF ReapFails, Goto, ReaperSteps
  <2>2. BatchStory' /\ reaper'.batch \subseteq reaper.batch
    BY <1>0, <1>t, <1>2 DEF ReapFails, Goto, BatchStory, Started, ReapedStory, HasHook, Ended, BatchType
  <2>3. ASSUME NEW j \in Jobs PROVE ReapedStory(j)'
    BY <1>0, <1>t, <1>2, CallbackNames DEF ReapFails, Goto, BatchStory, Started, ReapedStory, HasHook, Ended, BatchType
  <2> QED BY <1>t, <2>1, <2>2, <2>3
<1>3. CASE EndAdmission
  <2>1. reaper' \in BatchType
    BY Zenon, <1>0, <1>3, BatchFields DEF EndAdmission, Goto, ReaperSteps
  <2>2. BatchStory' /\ reaper'.batch \subseteq reaper.batch
    BY <1>0, <1>t, <1>3 DEF EndAdmission, Goto, BatchStory, Started, ReapedStory, HasHook, Ended, BatchType
  <2>3. ASSUME NEW j \in Jobs PROVE ReapedStory(j)'
    BY <1>0, <1>t, <1>3, CallbackNames DEF EndAdmission, Goto, BatchStory, Started, ReapedStory, HasHook, Ended, BatchType
  <2> QED BY <1>t, <2>1, <2>2, <2>3
<1>4. CASE DrainEnds
  <2>0. ASSUME NEW j \in Jobs PROVE task[Hook(j)].state \in CallbackStates
    BY <1>0, CallbackNames DEF ReaperShape, CallbackType
  <2>1. CASE in_flight = {} /\ Goto(IF stop THEN "abort_watchers" ELSE "watch_batch")
    <3>1. reaper' \in BatchType
      BY Zenon, <1>0, <2>1, BatchFields DEF Goto, ReaperSteps
    <3>2. BatchStory' /\ reaper'.batch \subseteq reaper.batch
      BY <1>0, <1>t, <2>1, <1>4 DEF DrainEnds, Goto, BatchStory, Started, ReapedStory, HasHook, Ended, BatchType
    <3>3. ASSUME NEW j \in Jobs PROVE ReapedStory(j)'
      BY <1>0, <1>t, <2>0, <2>1, <1>4 DEF DrainEnds, Goto, CallbackStates, BatchStory, Started, ReapedStory, HasHook, Ended, BatchType
    <3> QED BY <1>t, <3>1, <3>2, <3>3
  <2>2. CASE stop /\ in_flight # {} /\ reaper' = [reaper EXCEPT !.observed = TRUE, !.pc = "finish"]
    <3>1. reaper' \in BatchType
      BY Zenon, <1>0, <2>2, BatchFields DEF ReaperSteps
    <3>2. BatchStory' /\ reaper'.batch \subseteq reaper.batch
      BY <1>0, <1>t, <2>2, <1>4 DEF DrainEnds, BatchStory, Started, ReapedStory, HasHook, Ended, BatchType
    <3>3. ASSUME NEW j \in Jobs PROVE ReapedStory(j)'
      BY <1>0, <1>t, <2>2, <1>4 DEF DrainEnds, BatchStory, Started, ReapedStory, HasHook, Ended, BatchType
    <3> QED BY <1>t, <3>1, <3>2, <3>3
  <2> QED BY <1>4, <2>1, <2>2 DEF DrainEnds
<1>5. CASE ShutdownDrained
  <2>1. reaper' \in BatchType
    BY Zenon, <1>0, <1>5, BatchFields DEF ShutdownDrained, Goto, ReaperSteps
  <2>2. BatchStory' /\ reaper'.batch \subseteq reaper.batch
    BY <1>0, <1>t, <1>5 DEF ShutdownDrained, Goto, BatchStory, Started, ReapedStory, HasHook, Ended, BatchType
  <2>3. ASSUME NEW j \in Jobs PROVE ReapedStory(j)'
    BY <1>0, <1>t, <1>5, CallbackNames DEF ShutdownDrained, Goto, BatchStory, Started, ReapedStory, HasHook, Ended, BatchType
  <2> QED BY <1>t, <2>1, <2>2, <2>3
<1>6. CASE AbortDrainTimeout
  <2>1. reaper' \in BatchType
    BY Zenon, <1>0, <1>6, BatchFields DEF AbortDrainTimeout, Goto, ReaperSteps
  <2>2. BatchStory' /\ reaper'.batch \subseteq reaper.batch
    BY <1>0, <1>t, <1>6 DEF AbortDrainTimeout, Goto, BatchStory, Started, ReapedStory, HasHook, Ended, BatchType
  <2>3. ASSUME NEW j \in Jobs PROVE ReapedStory(j)'
    BY <1>0, <1>t, <1>6, CallbackNames DEF AbortDrainTimeout, Goto, BatchStory, Started, ReapedStory, HasHook, Ended, BatchType
  <2> QED BY <1>t, <2>1, <2>2, <2>3
<1>7. CASE BatchWatched
  <2>1. reaper' \in BatchType
    BY Zenon, <1>0, <1>7, BatchFields DEF BatchWatched, Goto, ReaperSteps
  <2>2. BatchStory' /\ reaper'.batch \subseteq reaper.batch
    BY <1>0, <1>t, <1>7 DEF BatchWatched, Goto, Finished, BatchStory, Started, ReapedStory, HasHook, Ended, BatchType
  <2>3. ASSUME NEW j \in Jobs PROVE ReapedStory(j)'
    BY <1>0, <1>t, <1>7, CallbackNames DEF BatchWatched, Goto, Finished, BatchStory, Started, ReapedStory, HasHook, Ended, BatchType
  <2> QED BY <1>t, <2>1, <2>2, <2>3
<1>8. CASE WakeReaper
  <2>1. reaper' \in BatchType
    BY Zenon, <1>8, BatchFields, NoBatchType DEF WakeReaper, ReaperSteps
  <2>2. BatchStory' /\ reaper'.batch \subseteq reaper.batch
    BY <1>0, <1>t, <1>8 DEF WakeReaper, NoBatch, BatchStory, Started, ReapedStory, HasHook, Ended, BatchType
  <2>3. ASSUME NEW j \in Jobs PROVE ReapedStory(j)'
    BY <1>0, <1>t, <1>8, CallbackNames DEF WakeReaper, NoBatch, BatchStory, Started, ReapedStory, HasHook, Ended, BatchType
  <2> QED BY <1>t, <2>1, <2>2, <2>3
<1>9. CASE WatchersDrained
  <2>1. reaper' \in BatchType
    BY Zenon, <1>0, <1>9, BatchFields DEF WatchersDrained, Goto, ReaperSteps
  <2>2. BatchStory' /\ reaper'.batch \subseteq reaper.batch
    BY <1>0, <1>t, <1>9 DEF WatchersDrained, Goto, BatchStory, Started, ReapedStory, HasHook, Ended, BatchType
  <2>3. ASSUME NEW j \in Jobs PROVE ReapedStory(j)'
    BY <1>0, <1>t, <1>9, CallbackNames DEF WatchersDrained, Goto, BatchStory, Started, ReapedStory, HasHook, Ended, BatchType
  <2> QED BY <1>t, <2>1, <2>2, <2>3
<1>10. CASE \E k \in Jobs : PassOver(k)
  <2> PICK k \in Jobs : PassOver(k)
    BY <1>10
  <2>1. reaper' \in BatchType
    BY <1>0 DEF PassOver, BatchType
  <2>2. BatchStory' /\ reaper'.batch \subseteq reaper.batch
    BY <1>0, <1>t DEF PassOver, BatchStory, Started, ReapedStory, HasHook, Ended, BatchType
  <2>3. ASSUME NEW j \in Jobs PROVE ReapedStory(j)'
    BY <1>0, <1>t DEF PassOver, BatchStory, Started, ReapedStory, HasHook, Ended, BatchType
  <2> QED BY <1>t, <2>1, <2>2, <2>3
<1>11. CASE \E c \in Callbacks : JoinHook(c)
  <2> PICK c \in Callbacks : JoinHook(c)
    BY <1>11
  <2>1. UNCHANGED reaper /\ in_flight' = in_flight \ {c} /\ task[c].state = "ended" /\ reaper.pc \in {"hooks", "drain", "finish", "abort_hooks"}
    BY DEF JoinHook, Joining, Finished, Ended
  <2>2. BatchStory'
    BY <1>0, <1>t, <2>1 DEF BatchStory, Started
  <2>3. ASSUME NEW j \in Jobs PROVE ReapedStory(j)'
    BY <1>0, <1>t, <2>1 DEF JoinHook, ReapedStory, HasHook, Ended
  <2> QED BY <1>0, <1>t, <2>1, <2>2, <2>3
<1> QED BY <1>1, <1>2, <1>3, <1>4, <1>5, <1>6, <1>7, <1>8, <1>9, <1>10, <1>11

(* A callback ends, and its end is on record.                              *)
LEMMA CallbackEndsInv ==
  ASSUME ReaperInv, NEW c \in Callbacks, NEW result \in Endings, NEW broke \in Destructions,
         CallbackEnds(c, result, broke)
  PROVE  ReaperInv'
<1> DEFINE outcome == Outcome(result, broke)
<1>0. reaper \in BatchType /\ BatchStory /\ ReaperShape /\ \A j \in Jobs : ReapedStory(j)
  BY DEF ReaperInv, ReaperShape
<1>1. outcome \in CallbackResults /\ broke \in BOOLEAN
  BY ReaperAssumption DEF Outcome, CallbackResults
<1>2. /\ task[c].state = "running" /\ UNCHANGED <<stop, row, reaper, in_flight, watchers>>
      /\ task' = [task EXCEPT ![c].state = "ended", ![c].result = outcome, ![c].broke = broke]
      /\ evidence' = IF Records(outcome, broke) THEN evidence \cup {c} ELSE evidence
  BY DEF CallbackEnds
<1> HIDE DEF outcome
<1>3. task' \in [Callbacks -> CallbackType]
  BY Zenon, <1>0, <1>1, <1>2, CallbackFields DEF ReaperShape, CallbackStates
<1>4. ReaperShape'
  <2>1. evidence' \subseteq Callbacks
    BY <1>0, <1>2 DEF ReaperShape, ReaperTypeOK
  <2> QED BY <1>0, <1>2, <1>3, <2>1, ShapeShrinks DEF ReaperShape, ReaperTypeOK
<1>5. ASSUME NEW d \in Callbacks
      PROVE  /\ d # c => task'[d] = task[d]
             /\ task'[c].state = "ended" /\ task'[c].aborted = task[c].aborted
             /\ task'[c].result = outcome /\ task'[c].broke = broke
  BY <1>0, <1>2 DEF ReaperShape, CallbackType
<1>6. Started' = Started
  BY ZenonT(30), <1>0, <1>2, <1>5, CallbackNames DEF Started, BatchType
<1>7. BatchStory'
  BY <1>0, <1>2, <1>6 DEF BatchStory
<1>8. InterruptionsLeaveEvidence'
  BY <1>2, <1>5 DEF ReaperInv, InterruptionsLeaveEvidence, Ended, Records
<1>9. ASSUME NEW j \in Jobs PROVE ReapedStory(j)'
  <2>1. CASE c # Hook(j) /\ c # Watcher(j)
    BY ZenonT(30), <1>0, <1>2, <1>5, <2>1, CallbackNames DEF ReapedStory, HasHook, Ended
  <2>2. CASE c = Hook(j)
    BY ZenonT(30), <1>0, <1>2, <1>5, <2>2, CallbackNames DEF ReapedStory, HasHook, Ended
  <2>3. CASE c = Watcher(j)
    BY <1>0, <1>2, <1>5, <2>3, CallbackNames DEF ReapedStory, HasHook, Ended
  <2> QED BY <2>1, <2>2, <2>3
<1> QED BY <1>4, <1>7, <1>8, <1>9 DEF ReaperInv

(* A batch is reaped: none of its jobs has a hook or an observer yet.      *)
LEMMA ReapInv ==
  ASSUME ReaperInv, NEW batch \in SUBSET Leased, NEW dead \in SUBSET batch, IsFiniteSet(batch), Reap(batch, dead)
  PROVE  ReaperInv'
<1>0. reaper \in BatchType /\ BatchStory /\ ReaperShape /\ \A j \in Jobs : ReapedStory(j)
  BY DEF ReaperInv, ReaperShape
<1>1. batch \subseteq Jobs /\ \A j \in batch : row[j] = "leased"
  BY DEF Leased
<1>2. /\ reaper.pc = "reap" /\ UNCHANGED <<stop, task, in_flight, watchers, evidence>>
      /\ row' = [j \in Jobs |-> IF j \in dead THEN "dead" ELSE IF j \in batch THEN "retry" ELSE row[j]]
      /\ reaper' = [NoBatch EXCEPT !.pc = "hooks", !.todo = batch, !.batch = batch,
                                   !.observed = stop, !.budget = IF stop THEN MaxHooks ELSE 0]
  BY DEF Reap, Fanout
<1>3. reaper' \in BatchType
  <2>1. (IF stop THEN MaxHooks ELSE 0) \in 0..MaxHooks
    BY ReaperAssumption
  <2>2. stop \in BOOLEAN
    BY <1>0 DEF ReaperShape, ReaperTypeOK
  <2> QED BY Zenon, <1>1, <1>2, <2>1, <2>2, NoBatchType, BatchFields DEF ReaperSteps
<1>4. /\ reaper'.pc = "hooks" /\ reaper'.todo = batch /\ reaper'.batch = batch /\ reaper'.skipped = {}
      /\ reaper'.observed = stop /\ (stop => reaper'.budget = MaxHooks)
  BY <1>2 DEF NoBatch
<1>5. Started' = {}
  BY <1>0, <1>1, <1>2, <1>4 DEF Started, ReapedStory
<1>6. in_flight = {} /\ reaper.todo = {} /\ reaper.skipped = {}
  BY <1>0, <1>2 DEF BatchStory
<1>7. ReaperShape'
  BY <1>0, <1>1, <1>2, <1>3, <1>4 DEF ReaperShape, ReaperTypeOK, BatchType
<1>8. BatchStory'
  <2>1. Cardinality(Started') = 0
    BY <1>5, FS_EmptySet
  <2> QED BY <1>2, <1>4, <1>6, <2>1, ReaperAssumption DEF BatchStory
<1>9. InterruptionsLeaveEvidence'
  BY <1>2 DEF ReaperInv, InterruptionsLeaveEvidence, Ended
<1>10. ASSUME NEW j \in Jobs PROVE ReapedStory(j)'
  BY <1>0, <1>1, <1>2, <1>4, <1>6 DEF ReapedStory, HasHook, Ended
<1> QED BY <1>7, <1>8, <1>9, <1>10 DEF ReaperInv

(* A full window holds hooks of the batch: so many have been started.      *)
LEMMA WindowCounts ==
  ASSUME ReaperShape, BatchStory
  PROVE  /\ IsFiniteSet(Started) /\ Cardinality(Started) \in Nat /\ Cardinality(in_flight) \in Nat
         /\ Cardinality(in_flight) <= Cardinality(Started)
<1>1. IsFiniteSet(Started) /\ Cardinality(Started) \in Nat
  BY FS_Subset, FS_CardinalityType DEF ReaperShape, Started
<1> DEFINE f == [j \in Started |-> Hook(j)]
           image == {Hook(j) : j \in Started}
<1>2. f \in Surjection(Started, image)
  BY DEF Surjection
<1>3. IsFiniteSet(image) /\ Cardinality(image) <= Cardinality(Started)
  BY <1>1, <1>2, FS_Surjection
<1>4. IsFiniteSet(in_flight) /\ Cardinality(in_flight) <= Cardinality(image)
  BY <1>3, FS_Subset DEF BatchStory
<1>5. Cardinality(in_flight) \in Nat /\ Cardinality(image) \in Nat
  BY <1>3, <1>4, FS_CardinalityType
<1> HIDE DEF image
<1> QED BY <1>1, <1>3, <1>4, <1>5

(* A hook is admitted within the window, or skipped because a whole window *)
(* was used after a stop.                                                  *)
LEMMA AdmitHookInv ==
  ASSUME ReaperInv, NEW j \in Jobs, AdmitHook(j)
  PROVE  ReaperInv'
<1>0. reaper \in BatchType /\ BatchStory /\ ReaperShape /\ \A k \in Jobs : ReapedStory(k)
  BY DEF ReaperInv, ReaperShape
<1>1. /\ reaper.pc = "hooks" /\ j \in reaper.todo /\ j \in reaper.batch /\ HasHook(j)
      /\ UNCHANGED <<stop, row, watchers, evidence>>
  BY <1>0 DEF AdmitHook, BatchStory
<1>2. task[Hook(j)].state = "none" /\ Hook(j) \in Callbacks
  BY <1>0, <1>1, CallbackNames DEF ReapedStory
<1>3. Budget \in 0..MaxHooks /\ Observed \in BOOLEAN /\ (Observed => stop)
  <2>1. Observed \in BOOLEAN
    BY Zenon DEF Observed
  <2> QED BY <1>0, <2>1, ReaperAssumption DEF Budget, BatchType, Observed, BatchStory
<1>4. /\ IsFiniteSet(Started) /\ Cardinality(Started) \in Nat /\ Cardinality(in_flight) \in Nat
      /\ Cardinality(in_flight) <= Cardinality(Started)
  BY <1>0, WindowCounts
<1>5. CASE Reserved(j)
  <2>1. /\ ~Full /\ (Observed => Budget > 0)
        /\ reaper' = [reaper EXCEPT !.todo = @ \ {j}, !.observed = Observed,
                       !.budget = IF ~Observed THEN 0 ELSE Budget - 1, !.skipped = @]
        /\ task' = [task EXCEPT ![Hook(j)].state = "running"]
        /\ in_flight' = in_flight \cup {Hook(j)}
    BY <1>5 DEF AdmitHook, Reserved, Spawned
  <2>2. (IF ~Observed THEN 0 ELSE Budget - 1) \in 0..MaxHooks
    BY <1>3, <2>1, ReaperAssumption
  <2>3. reaper' \in BatchType
    <3>1. reaper.todo \ {j} \in SUBSET Jobs /\ reaper.skipped \in SUBSET Jobs
      BY <1>0 DEF BatchType
    <3> QED BY Zenon, <1>0, <1>3, <2>1, <2>2, <3>1, BatchFields
  <2>4. task' \in [Callbacks -> CallbackType]
    BY <1>0, <1>2, <2>1 DEF ReaperShape, CallbackType, CallbackStates
  <2>5. /\ reaper'.pc = "hooks" /\ reaper'.todo = reaper.todo \ {j} /\ reaper'.batch = reaper.batch
        /\ reaper'.observed = Observed /\ reaper'.skipped = reaper.skipped
        /\ reaper'.budget = IF ~Observed THEN 0 ELSE Budget - 1
    BY <1>0, <1>1, <2>1 DEF BatchType
  <2>6. ASSUME NEW d \in Callbacks
        PROVE  /\ d # Hook(j) => task'[d] = task[d]
               /\ task'[Hook(j)].state = "running"
               /\ task'[d].result = task[d].result /\ task'[d].broke = task[d].broke
               /\ task'[d].aborted = task[d].aborted
    BY <1>0, <1>2, <2>1 DEF ReaperShape, CallbackType
  <2>7. Started' = Started \cup {j} /\ j \notin Started
    BY <1>0, <1>1, <1>2, <2>5, <2>6, CallbackNames DEF Started, BatchType
  <2>8. IsFiniteSet(Started') /\ Cardinality(Started') = Cardinality(Started) + 1
    BY <1>4, <2>7, FS_AddElement
  <2>9. IsFiniteSet(in_flight') /\ Cardinality(in_flight') <= MaxHooks
    <3>1. IsFiniteSet(in_flight \cup {Hook(j)})
          /\ Cardinality(in_flight \cup {Hook(j)}) =
               IF Hook(j) \in in_flight THEN Cardinality(in_flight) ELSE Cardinality(in_flight) + 1
      BY <1>0, FS_AddElement DEF ReaperShape
    <3> QED BY <1>4, <2>1, <3>1, FS_CardinalityType, ReaperAssumption DEF Full
  <2>10. ReaperShape'
    BY <1>0, <1>1, <2>1, <2>3, <2>4, <2>5, <2>9, <2>2 DEF ReaperShape, ReaperTypeOK
  <2>11. BatchStory'
    <3>1. in_flight' \subseteq {Hook(k) : k \in Started'}
      BY <1>0, <2>1, <2>7 DEF BatchStory
    <3>2. reaper'.observed => Cardinality(Started') + reaper'.budget >= MaxHooks
      BY <1>0, <1>1, <1>3, <1>4, <2>1, <2>5, <2>8, ReaperAssumption DEF BatchStory, Budget, BatchType
    <3>3. reaper'.skipped # {} => stop /\ Cardinality(Started') >= MaxHooks
      BY <1>0, <1>4, <2>5, <2>8, ReaperAssumption DEF BatchStory
    <3> QED BY <1>0, <1>1, <1>3, <2>5, <3>1, <3>2, <3>3 DEF BatchStory
  <2>12. InterruptionsLeaveEvidence'
    BY <1>1, <2>6 DEF ReaperInv, InterruptionsLeaveEvidence, Ended
  <2>13. ASSUME NEW k \in Jobs PROVE ReapedStory(k)'
    <3>1. CASE k = j
      BY <1>0, <1>1, <1>2, <2>1, <2>5, <2>6, <3>1, CallbackNames DEF ReapedStory, HasHook, Ended
    <3>2. CASE k # j
      BY <1>0, <1>1, <1>2, <2>1, <2>5, <2>6, <3>2, CallbackNames DEF ReapedStory, HasHook, Ended
    <3> QED BY <3>1, <3>2
  <2> QED BY <2>10, <2>11, <2>12, <2>13 DEF ReaperInv
<1>6. CASE ~Reserved(j)
  <2>1. /\ Observed /\ ~(Budget > 0 /\ ~Full) /\ UNCHANGED <<task, in_flight>>
        /\ reaper' = [reaper EXCEPT !.todo = @ \ {j}, !.observed = Observed,
                       !.budget = Budget, !.skipped = @ \cup {j}]
    BY <1>6 DEF AdmitHook, Reserved
  <2>2. reaper' \in BatchType
    <3>1. reaper.todo \ {j} \in SUBSET Jobs /\ reaper.skipped \cup {j} \in SUBSET Jobs
      BY <1>0 DEF BatchType
    <3> QED BY Zenon, <1>0, <1>3, <2>1, <3>1, BatchFields
  <2>3. /\ reaper'.pc = "hooks" /\ reaper'.todo = reaper.todo \ {j} /\ reaper'.batch = reaper.batch
        /\ reaper'.observed = Observed /\ reaper'.skipped = reaper.skipped \cup {j}
        /\ reaper'.budget = Budget
    BY <1>0, <1>1, <2>1 DEF BatchType
  <2>4. Cardinality(Started) >= MaxHooks
    <3>1. CASE Full
      BY <1>4, <3>1, ReaperAssumption DEF Full
    <3>2. CASE ~(Budget > 0)
      BY <1>0, <1>1, <1>3, <1>4, <3>2, ReaperAssumption DEF BatchStory, Budget, BatchType
    <3> QED BY <2>1, <3>1, <3>2
  <2>5. Started' = Started
    BY <2>1, <2>3 DEF Started
  <2>6. BatchStory'
    <3>1. Cardinality(Started') + reaper'.budget >= MaxHooks
      BY <1>3, <1>4, <2>3, <2>4, <2>5, ReaperAssumption
    <3>2. Cardinality(Started') >= MaxHooks /\ stop'
      BY <1>1, <1>3, <2>1, <2>4, <2>5
    <3> QED BY <1>0, <1>1, <2>1, <2>3, <2>5, <3>1, <3>2 DEF BatchStory
  <2>7. ASSUME NEW k \in Jobs PROVE ReapedStory(k)'
    BY <1>0, <1>1, <2>1, <2>3 DEF ReapedStory, HasHook, Ended
  <2> QED BY <1>1, <2>1, <2>2, <2>3, <2>6, <2>7, QuietInv
<1> QED BY <1>5, <1>6

(* abort: what is not over is marked, and nothing else changes.            *)
LEMMA AbortedTasks ==
  ASSUME ReaperInv, NEW set \in SUBSET Callbacks, task' = Aborted(set)
  PROVE  /\ task' \in [Callbacks -> CallbackType]
         /\ \A c \in Callbacks :
              /\ task'[c].state = task[c].state /\ task'[c].result = task[c].result
              /\ task'[c].broke = task[c].broke
              /\ task[c].aborted => task'[c].aborted
              /\ c \in set /\ ~Ended(c) => task'[c].aborted
              /\ c \notin set => task'[c] = task[c]
<1>0. task \in [Callbacks -> CallbackType]
  BY DEF ReaperInv, ReaperShape
<1>1. ASSUME NEW c \in Callbacks PROVE [task[c] EXCEPT !.aborted = TRUE] \in CallbackType
  BY Zenon, <1>0 DEF CallbackType
<1>2. task' \in [Callbacks -> CallbackType]
  BY <1>0, <1>1 DEF Aborted
<1>3. ASSUME NEW c \in Callbacks
      PROVE  task'[c] = IF c \in set /\ ~Ended(c) THEN [task[c] EXCEPT !.aborted = TRUE] ELSE task[c]
  BY DEF Aborted
<1> QED BY <1>0, <1>2, <1>3 DEF CallbackType

LEMMA AbortStepInv ==
  ASSUME ReaperInv, ShutdownDrainTimeout \/ AbortWatchers
  PROVE  ReaperInv'
<1>0. reaper \in BatchType /\ BatchStory /\ ReaperShape /\ \A k \in Jobs : ReapedStory(k)
  BY DEF ReaperInv, ReaperShape
<1> DEFINE set == IF ShutdownDrainTimeout THEN in_flight ELSE watchers
<1>1. set \in SUBSET Callbacks
  BY <1>0 DEF ReaperShape, ReaperTypeOK, Callbacks
<1>2. /\ UNCHANGED <<stop, row, in_flight, evidence>> /\ watchers' \subseteq watchers /\ task' = Aborted(set)
      /\ \/ reaper.pc = "finish" /\ reaper' = [reaper EXCEPT !.pc = "abort_hooks"] /\ set = in_flight
            /\ watchers' = watchers
         \/ /\ reaper.pc = "abort_watchers" /\ set = watchers /\ watchers' = watchers \ Finished(watchers)
            /\ \/ reaper' = [reaper EXCEPT !.pc = "exited"] /\ watchers = Finished(watchers)
               \/ reaper' = [reaper EXCEPT !.pc = "drain_watchers"]
  BY DEF ShutdownDrainTimeout, AbortWatchers, Goto
<1> HIDE DEF set
<1>3. /\ task' \in [Callbacks -> CallbackType]
      /\ \A c \in Callbacks :
              /\ task'[c].state = task[c].state /\ task'[c].result = task[c].result
              /\ task'[c].broke = task[c].broke
              /\ task[c].aborted => task'[c].aborted
              /\ c \in set /\ ~Ended(c) => task'[c].aborted
              /\ c \notin set => task'[c] = task[c]
  BY <1>1, <1>2, AbortedTasks
<1>4. reaper' \in BatchType
  BY <1>0, <1>2 DEF BatchType, ReaperSteps
<1>5. /\ reaper'.todo = reaper.todo /\ reaper'.batch = reaper.batch /\ reaper'.observed = reaper.observed
      /\ reaper'.budget = reaper.budget /\ reaper'.skipped = reaper.skipped
      /\ \/ reaper.pc = "finish" /\ reaper'.pc = "abort_hooks"
         \/ reaper.pc = "abort_watchers" /\ reaper'.pc \in {"exited", "drain_watchers"}
  BY <1>0, <1>2 DEF BatchType
<1>6. ReaperShape'
  BY <1>0, <1>2, <1>3, <1>4, <1>5, ShapeShrinks DEF ReaperShape, ReaperTypeOK
<1>7. Started' = Started
  BY <1>0, <1>3, <1>5, CallbackNames DEF Started, BatchType
<1>8. BatchStory'
  BY <1>0, <1>2, <1>5, <1>7 DEF BatchStory
<1>9. InterruptionsLeaveEvidence'
  BY <1>2, <1>3 DEF ReaperInv, InterruptionsLeaveEvidence, Ended
<1>10. ASSUME NEW j \in Jobs PROVE ReapedStory(j)'
  <2>1. CASE reaper.pc = "finish"
    BY <1>0, <1>2, <1>3, <1>5, <2>1, CallbackNames DEF ReapedStory, HasHook, Ended
  <2>2. CASE reaper.pc = "abort_watchers"
    BY <1>0, <1>2, <1>3, <1>5, <2>2, CallbackNames DEF ReapedStory, HasHook, Ended, Finished
  <2> QED BY <1>5, <2>1, <2>2
<1> QED BY <1>6, <1>8, <1>9, <1>10 DEF ReaperInv

(* One record of the batch is told to the observers, if there is room.     *)
LEMMA WatchReapedInv ==
  ASSUME ReaperInv, NEW j \in Jobs, WatchReaped(j)
  PROVE  ReaperInv'
<1> DEFINE free == Finished(watchers)
<1>0. reaper \in BatchType /\ BatchStory /\ ReaperShape /\ \A k \in Jobs : ReapedStory(k)
  BY DEF ReaperInv, ReaperShape
<1>1. /\ reaper.pc = "watch_batch" /\ j \in reaper.batch /\ UNCHANGED <<stop, row, in_flight, evidence>>
      /\ reaper' = [reaper EXCEPT !.batch = @ \ {j}]
      /\ reaper.todo = {} /\ reaper.skipped = {} /\ in_flight = {}
  BY <1>0 DEF WatchReaped, BatchStory
<1>2. /\ reaper' \in BatchType /\ reaper'.pc = "watch_batch" /\ reaper'.batch = reaper.batch \ {j}
      /\ reaper'.todo = {} /\ reaper'.skipped = {} /\ reaper'.observed = reaper.observed
      /\ reaper'.budget \in 0..MaxHooks
  BY <1>0, <1>1 DEF BatchType
<1>3. IsFiniteSet(reaper'.batch)
  BY <1>0, <1>2, FS_Subset DEF ReaperShape
<1>4. BatchStory'
  BY <1>0, <1>1, <1>2 DEF BatchStory
<1>5. CASE ~WatcherAdmitted(free)
  <2>1. UNCHANGED task /\ watchers' = watchers \ free
    BY <1>5 DEF WatchReaped
  <2>2. ASSUME NEW k \in Jobs PROVE ReapedStory(k)'
    BY <1>0, <1>1, <1>2, <2>1 DEF ReapedStory, HasHook, Ended, Finished
  <2> QED BY <1>1, <1>2, <1>4, <2>1, <2>2, QuietInv
<1>6. CASE WatcherAdmitted(free)
  <2>1. /\ watchers' = (watchers \ free) \cup {Watcher(j)}
        /\ task' = [task EXCEPT ![Watcher(j)].state = "running"]
        /\ Cardinality(watchers \ free) < MaxWatchers
    BY <1>6 DEF WatchReaped, WatcherAdmitted, Spawned
  <2>2. task' \in [Callbacks -> CallbackType]
    BY <1>0, <2>1, CallbackNames DEF ReaperShape, CallbackType, CallbackStates
  <2>3. ASSUME NEW d \in Callbacks
        PROVE  /\ d # Watcher(j) => task'[d] = task[d]
               /\ task'[Watcher(j)].state = "running"
    BY <1>0, <2>1, CallbackNames DEF ReaperShape, CallbackType
  <2>4. IsFiniteSet(watchers') /\ Cardinality(watchers') <= MaxWatchers
    <3>1. IsFiniteSet(watchers \ free)
      BY <1>0, FS_Subset DEF ReaperShape
    <3>2. Cardinality(watchers \ free) \in Nat
      BY <3>1, FS_CardinalityType
    <3> HIDE DEF free
    <3>3. IsFiniteSet((watchers \ free) \cup {Watcher(j)})
          /\ Cardinality((watchers \ free) \cup {Watcher(j)}) =
               IF Watcher(j) \in watchers \ free THEN Cardinality(watchers \ free)
               ELSE Cardinality(watchers \ free) + 1
      BY <3>1, FS_AddElement
    <3> QED BY <2>1, <3>2, <3>3, ReaperAssumption
  <2>5. ReaperShape'
    BY <1>0, <1>1, <1>2, <1>3, <2>1, <2>2, <2>4 DEF ReaperShape, ReaperTypeOK
  <2>6. InterruptionsLeaveEvidence'
    BY <1>1, <2>3 DEF ReaperInv, InterruptionsLeaveEvidence, Ended
  <2>7. ASSUME NEW k \in Jobs PROVE ReapedStory(k)'
    <3>1. CASE k = j
      BY <1>0, <1>1, <1>2, <2>1, <2>3, <3>1, CallbackNames DEF ReapedStory, HasHook, Ended
    <3>2. CASE k # j
      BY <1>0, <1>1, <1>2, <2>1, <2>3, <3>2, CallbackNames DEF ReapedStory, HasHook, Ended, Finished
    <3> QED BY <3>1, <3>2
  <2> QED BY <1>4, <2>5, <2>6, <2>7 DEF ReaperInv
<1> QED BY <1>5, <1>6

LEMMA ReaperNextInv == ReaperInv /\ [ReaperNext]_rvars => ReaperInv'
<1> SUFFICES ASSUME ReaperInv, [ReaperNext]_rvars PROVE ReaperInv'
  OBVIOUS
<1>1. CASE UNCHANGED rvars
  <2>1. /\ UNCHANGED <<stop, row, reaper, task, in_flight, watchers, evidence>>
    BY <1>1 DEF rvars
  <2> QED BY <2>1 DEF ReaperInv, ReaperShape, ReaperTypeOK, BatchStory, Started, ReapedStory, HasHook, Ended,
                       InterruptionsLeaveEvidence
<1>2. CASE StopReaper
  <2>1. stop' \in BOOLEAN
    BY Zenon, <1>2 DEF StopReaper
  <2>2. UNCHANGED <<row, reaper, task, in_flight, watchers, evidence>> /\ stop'
    BY <1>2 DEF StopReaper
  <2> QED BY <2>1, <2>2 DEF ReaperInv, ReaperShape, ReaperTypeOK, BatchStory, Started, ReapedStory, HasHook,
                             Ended, InterruptionsLeaveEvidence
<1>3. CASE \E c \in Callbacks : CallbackStep(c)
  BY <1>3, CallbackEndsInv DEF CallbackStep
<1>4. CASE ReaperStep
  BY <1>4, QuietStepInv, ReapInv, AdmitHookInv, AbortStepInv, WatchReapedInv DEF ReaperStep
<1> QED BY <1>1, <1>2, <1>3, <1>4 DEF ReaperNext, ReaperTerminated

(* The reaper, with any number of jobs and any limits: a committed dead    *)
(* letter has its hook started or counted as skipped, skipping takes a     *)
(* stop and a whole window of started hooks, observers come after hooks,   *)
(* interruptions are on record and nothing outlives the loop unaborted.    *)
THEOREM ReaperCorrect == ReaperSpec => []ReapedJobsAreAccountedFor
<1>1. ReaperSpec => []ReaperInv
  BY ReaperInitInv, ReaperNextInv, PTL DEF ReaperSpec
<1> QED BY <1>1, ReaperInvSuffices, PTL

-----------------------------------------------------------------------------
(* The settlement.                                                         *)

Tasks == Loops \cup Children \cup {Signal}
CauseType == [kind : {"Requested", "LoopFailure", "DescendantFailure", "SignalFailed"}, task : Tasks \cup {None}]
RequestType == [at : Nat, cause : CauseType]
SigType == [error : BOOLEAN, panic : {"none", "poll", "destruction", "poll_and_destruction"}, initiating : BOOLEAN]
StartupType == [state : {"Starting", "Initialized", "Stopped"}, pending : SUBSET Loops]
OwnerSteps == {"observe", "settle", "settle_registry", "subscribe", "read", "wait", "final", "final_registry",
               "abort", "abort_loops", "harvest", "snapshot", "done"}
Phases == {"none", "graceful", "abort"}
OwnerType == [pc : OwnerSteps, phase : Phases, graceful : BOOLEAN, timer : 0..(MaxTime + Graceful + Abort)]

(* The clock of the stop and what started it.                              *)
ClockTyped == now \in 1..MaxTime /\ (request = None \/ (request \in RequestType /\ request.at <= now))
FlagsTyped == unpublished \in BOOLEAN /\ published \in BOOLEAN /\ dirty \in BOOLEAN
TasksTyped ==
  /\ loop \in [Loops -> TaskType] /\ desc \in [Descendants -> TaskType]
  /\ joined \subseteq Loops /\ recorded \subseteq collected /\ collected \subseteq Descendants
  /\ mode \in {"None", "AfterGracefulTimeout", "All"}
OwnerTyped ==
  /\ owner \in OwnerType
  /\ owner.pc \notin {"observe", "done"} => request # None
OthersTyped == sig \in SigType /\ startup \in StartupType

SettlementTyped == ClockTyped /\ FlagsTyped /\ TasksTyped /\ OwnerTyped /\ OthersTyped

LEMMA TypedSuffices == SettlementTyped => SettlementTypeOK
BY SettlementAssumption
   DEF SettlementTyped, ClockTyped, FlagsTyped, TasksTyped, OwnerTyped, SettlementTypeOK, RequestType, OwnerType,
       Phases

LEMMA RequestIsSome == None \notin RequestType
BY SettlementAssumption DEF RequestType, CauseType, Tasks

(* An update of one field keeps the types.                                 *)
LEMMA TaskFields ==
  ASSUME NEW S, NEW f \in [S -> TaskType], NEW x \in S
  PROVE  /\ \A v \in {"unborn", "running", "dropping", "done"} : [f EXCEPT ![x].st = v] \in [S -> TaskType]
         /\ \A v \in {"none", "Ok", "Shutdown", "Returned", "Panic", "Cancelled"} :
              [f EXCEPT ![x].result = v] \in [S -> TaskType]
         /\ \A v \in BOOLEAN : [f EXCEPT ![x].aborted = v] \in [S -> TaskType]
BY DEF TaskType

LEMMA TaskFieldPairs ==
  ASSUME NEW S, NEW f \in [S -> TaskType], NEW x \in S, NEW v \in {"unborn", "running", "dropping", "done"}
  PROVE  /\ \A w \in {"none", "Ok", "Shutdown", "Returned", "Panic", "Cancelled"} :
              [f EXCEPT ![x].st = v, ![x].result = w] \in [S -> TaskType]
         /\ \A w \in BOOLEAN : [f EXCEPT ![x].st = v, ![x].aborted = w] \in [S -> TaskType]
<1> DEFINE g == [f EXCEPT ![x].st = v]
<1>1. g \in [S -> TaskType]
  BY TaskFields
<1>2. /\ \A w \in {"none", "Ok", "Shutdown", "Returned", "Panic", "Cancelled"} :
           [g EXCEPT ![x].result = w] \in [S -> TaskType]
      /\ \A w \in BOOLEAN : [g EXCEPT ![x].aborted = w] \in [S -> TaskType]
  <2> HIDE DEF g
  <2> QED BY Zenon, <1>1, TaskFields
<1>3. /\ \A w : [f EXCEPT ![x].st = v, ![x].result = w] = [g EXCEPT ![x].result = w]
      /\ \A w : [f EXCEPT ![x].st = v, ![x].aborted = w] = [g EXCEPT ![x].aborted = w]
  BY Zenon
<1> QED BY Zenon, <1>2, <1>3

LEMMA OwnerFields ==
  ASSUME NEW r \in OwnerType
  PROVE  /\ \A v \in OwnerSteps : [r EXCEPT !.pc = v] \in OwnerType
         /\ \A v \in Phases : [r EXCEPT !.phase = v] \in OwnerType
         /\ \A v \in BOOLEAN : [r EXCEPT !.graceful = v] \in OwnerType
         /\ \A v \in 0..(MaxTime + Graceful + Abort) : [r EXCEPT !.timer = v] \in OwnerType
BY DEF OwnerType

LEMMA SettlementInitTyped == SettlementInit => SettlementTyped
<1> SUFFICES ASSUME SettlementInit PROVE SettlementTyped
  OBVIOUS
<1>1. ClockTyped
  BY SettlementAssumption DEF SettlementInit, ClockTyped
<1>2. FlagsTyped
  BY Zenon DEF SettlementInit, FlagsTyped
<1>3. NewTask \in TaskType /\ [NewTask EXCEPT !.st = "unborn"] \in TaskType
  <2>1. NewTask \in TaskType
    BY Zenon DEF NewTask, TaskType
  <2> QED BY <2>1 DEF TaskType
<1>4. TasksTyped
  BY <1>3 DEF SettlementInit, TasksTyped, DescInit
<1>5. OwnerTyped
  <2>1. 0 \in 0..(MaxTime + Graceful + Abort)
    BY SettlementAssumption
  <2>2. owner \in OwnerType
    BY Zenon, <2>1 DEF SettlementInit, OwnerType, OwnerSteps, Phases
  <2> QED BY <2>2 DEF SettlementInit, OwnerTyped
<1>6. OthersTyped
  <2>1. sig \in SigType
    BY Zenon DEF SettlementInit, SigType
  <2>2. startup \in StartupType
    BY DEF SettlementInit, StartupInit, StartupType
  <2> QED BY <2>1, <2>2 DEF OthersTyped
<1> QED BY <1>1, <1>2, <1>4, <1>5, <1>6 DEF SettlementTyped

(* request_since keeps the first cause and takes the earliest start.       *)
LEMMA RequestedTyped ==
  ASSUME ClockTyped, NEW started \in Nat, NEW cause \in CauseType
  PROVE  LET r == Requested(started, cause) IN
         /\ r \in RequestType /\ r.at <= now
         /\ request = None => r.cause = cause
         /\ request # None => r.cause = request.cause /\ r.at <= request.at
<1>1. now \in Nat
  BY SettlementAssumption DEF ClockTyped
<1>2. CASE request = None
  BY <1>1, <1>2 DEF Requested, RequestType
<1>3. CASE request # None
  BY <1>1, <1>3 DEF Requested, RequestType, ClockTyped
<1> QED BY <1>2, <1>3

LEMMA Causes ==
  /\ Cause("Requested", None) \in CauseType
  /\ Cause("SignalFailed", None) \in CauseType
  /\ Cause("DescendantFailure", Signal) \in CauseType
  /\ \A l \in Loops : Cause("LoopFailure", l) \in CauseType
  /\ \A d \in Descendants : Cause("DescendantFailure", d) \in CauseType
BY DEF Cause, CauseType, Tasks, Descendants

(* The steps of a task: they change what runs, the startup watch and the   *)
(* evidence of callbacks.                                                  *)
TaskAction ==
  \/ \E l \in Loops : LoopStarts(l) \/ \E r \in {"Shutdown", "Returned", "Panic", "Cancelled"} : LoopEnds(l, r)
  \/ \E c \in Children : Spawn(c) \/ AbortDescendant(c) \/ \E r \in {"Ok", "Panic", "Cancelled"} : DescendantEnds(c, r)
  \/ CallbackFails

(* The steps of the owner that change only its place and its timer.        *)
OwnerMove ==
  \/ OwnerSeesStop \/ SettleLoops \/ SettleRegistry \/ PhaseSubscribes \/ PhaseReads \/ PhaseWakes
  \/ PhaseElapsedLoops \/ PhaseElapsedRegistry \/ Harvest

LEMMA SettlementActions ==
  ASSUME SettlementNext
  PROVE  \/ \E started \in 0..(now + 1) : RequestShutdown(started)
         \/ Publish \/ TaskAction \/ SignalStep
         \/ \E l \in Loops : CollectLoop(l)
         \/ \E d \in Descendants : CollectDescendant(d)
         \/ OwnerMove \/ AbortDescendants \/ AbortLoops \/ Deliver
         \/ OwnerInterrupted \/ OwnerDropped \/ Tick \/ UNCHANGED svars
BY DEF SettlementNext, TaskStep, OwnerStep, TaskAction, OwnerMove, SettlementTerminated

(* Every change of the request tightens it and is to be published.         *)
LEMMA RequestChanges ==
  ASSUME SettlementTyped, SettlementNext
  PROVE  \/ UNCHANGED request
         \/ /\ unpublished' = TRUE /\ UNCHANGED <<now, owner, report>>
            /\ request' \in RequestType /\ request'.at <= now
            /\ request # None => request'.cause = request.cause /\ request'.at <= request.at
<1> DEFINE changed(cause) ==
             /\ unpublished' = TRUE /\ UNCHANGED <<now, owner, report>>
             /\ request' \in RequestType /\ request'.at <= now
             /\ request # None => request'.cause = request.cause /\ request'.at <= request.at
             /\ request = None => request'.cause = cause
<1>0. ClockTyped /\ now \in Nat
  BY SettlementAssumption DEF SettlementTyped, ClockTyped
<1>1. ASSUME NEW started \in 0..(now + 1), RequestShutdown(started) PROVE changed(Cause("Requested", None))
  BY <1>0, <1>1, RequestedTyped, Causes DEF RequestShutdown, owner_vars
<1>2. ASSUME NEW l \in Loops, CollectLoop(l) PROVE UNCHANGED request \/ changed(Cause("LoopFailure", l))
  BY <1>0, <1>2, RequestedTyped, Causes DEF CollectLoop
<1>3. ASSUME NEW d \in Descendants, CollectDescendant(d)
      PROVE  UNCHANGED request \/ changed(Cause("DescendantFailure", d))
  BY <1>0, <1>3, RequestedTyped, Causes DEF CollectDescendant, owner_vars
<1>4. CASE OwnerDropped
  BY <1>0, <1>4, RequestedTyped, Causes DEF OwnerDropped, owner_vars
<1>5. ASSUME NEW o \in {"ok", "error", "panic"}, SignalTriggers(o)
      PROVE  UNCHANGED request \/ (request = None /\ \E c \in CauseType : changed(c))
  <2>1. CASE request # None
    BY <1>5, <2>1 DEF SignalTriggers
  <2>2. CASE request = None
    <3>1. PICK c \in CauseType : request' = [at |-> now, cause |-> c]
      BY <1>5, <2>2, Causes DEF SignalTriggers
    <3> QED BY <1>0, <1>5, <2>2, <3>1 DEF SignalTriggers, RequestType, owner_vars
  <2> QED BY <2>1, <2>2
<1>6. CASE \/ Publish \/ TaskAction \/ OwnerMove \/ AbortDescendants \/ AbortLoops \/ Deliver
           \/ OwnerInterrupted \/ Tick \/ UNCHANGED svars
  BY <1>6 DEF Publish, TaskAction, LoopStarts, LoopEnds, Spawn, DescendantEnds, AbortDescendant, CallbackFails,
              OwnerMove, OwnerSeesStop, SettleLoops, SettleRegistry, PhaseSubscribes, PhaseReads, PhaseWakes,
              PhaseElapsedLoops, PhaseElapsedRegistry, Harvest, OwnerOnly, AbortDescendants, AbortLoops, Deliver,
              OwnerInterrupted, Tick, signal_vars, svars
<1>7. CASE SignalStep
  BY <1>5, <1>7 DEF SignalStep, SignalStops, SignalDestroyed, signal_vars
<1> QED BY <1>1, <1>2, <1>3, <1>4, <1>6, <1>7, SettlementActions

LEMMA ClockStep ==
  ASSUME SettlementTyped, SettlementNext
  PROVE  ClockTyped'
<1>1. now' = now \/ (now < MaxTime /\ now' = now + 1 /\ UNCHANGED request)
  BY SettlementActions
     DEF RequestShutdown, Publish, TaskAction, LoopStarts, LoopEnds, Spawn, DescendantEnds, AbortDescendant,
         CallbackFails, SignalStep, SignalTriggers, SignalStops, SignalDestroyed, CollectLoop, CollectDescendant,
         OwnerMove, OwnerSeesStop, SettleLoops, SettleRegistry, PhaseSubscribes, PhaseReads, PhaseWakes,
         PhaseElapsedLoops, PhaseElapsedRegistry, Harvest, OwnerOnly, AbortDescendants, AbortLoops, Deliver,
         OwnerInterrupted, OwnerDropped, Tick, signal_vars, svars
<1>2. now \in 1..MaxTime /\ MaxTime \in Nat
  BY SettlementAssumption DEF SettlementTyped, ClockTyped
<1>3. CASE UNCHANGED request
  BY <1>1, <1>2, <1>3 DEF SettlementTyped, ClockTyped, RequestType
<1>4. CASE ~UNCHANGED request
  BY <1>2, <1>4, RequestChanges DEF ClockTyped, RequestType
<1> QED BY <1>3, <1>4

LEMMA FlagsStep ==
  ASSUME SettlementTyped, SettlementNext
  PROVE  FlagsTyped'
<1>0. unpublished \in BOOLEAN /\ published \in BOOLEAN /\ dirty \in BOOLEAN
  BY DEF SettlementTyped, FlagsTyped
<1>1. CASE Publish
  BY Zenon, <1>1 DEF Publish, FlagsTyped
<1>2. CASE \/ \E started \in 0..(now + 1) : RequestShutdown(started)
           \/ OwnerDropped \/ \E o \in {"ok", "error", "panic"} : SignalTriggers(o)
  <2>1. unpublished' = TRUE /\ UNCHANGED <<published, dirty>>
    BY <1>2 DEF RequestShutdown, OwnerDropped, SignalTriggers
  <2> QED BY Zenon, <1>0, <2>1 DEF FlagsTyped
<1>3. ASSUME NEW l \in Loops, CollectLoop(l) PROVE FlagsTyped'
  <2>1. unpublished' \in BOOLEAN
    BY Zenon, <1>3 DEF CollectLoop
  <2> QED BY <1>0, <1>3, <2>1 DEF CollectLoop, FlagsTyped
<1>4. ASSUME NEW d \in Descendants, CollectDescendant(d) PROVE FlagsTyped'
  <2>1. unpublished' \in BOOLEAN
    BY Zenon, <1>4 DEF CollectDescendant
  <2> QED BY <1>0, <1>4, <2>1 DEF CollectDescendant, FlagsTyped
<1>5. CASE OwnerMove
  <2>1. UNCHANGED <<unpublished, published>> /\ (dirty' = dirty \/ dirty' = FALSE)
    BY <1>5 DEF OwnerMove, OwnerSeesStop, SettleLoops, SettleRegistry, PhaseSubscribes, PhaseReads, PhaseWakes,
                PhaseElapsedLoops, PhaseElapsedRegistry, Harvest, OwnerOnly, signal_vars
  <2> QED BY Zenon, <1>0, <2>1 DEF FlagsTyped
<1>6. CASE \/ TaskAction \/ AbortDescendants \/ AbortLoops \/ Deliver \/ OwnerInterrupted \/ Tick
           \/ UNCHANGED svars \/ (\E r \in {"Ok", "Cancelled"} : SignalStops(r))
           \/ \E panics \in BOOLEAN : SignalDestroyed(panics)
  <2>1. UNCHANGED <<unpublished, published, dirty>>
    BY <1>6 DEF TaskAction, LoopStarts, LoopEnds, Spawn, DescendantEnds, AbortDescendant, CallbackFails,
                AbortDescendants, AbortLoops, Deliver, OwnerInterrupted, Tick, SignalStops, SignalDestroyed,
                signal_vars, svars
  <2> QED BY <1>0, <2>1 DEF FlagsTyped
<1> QED BY <1>1, <1>2, <1>3, <1>4, <1>5, <1>6, SettlementActions DEF SignalStep

(* Aborts of the registry and of the loops mark what runs.                 *)
LEMMA AbortsTyped ==
  ASSUME SettlementTyped
  PROVE  /\ AbortedLoops \in [Loops -> TaskType]
         /\ \A m : AbortedDescendants(m) \in [Descendants -> TaskType]
<1>1. ASSUME NEW r \in TaskType PROVE [r EXCEPT !.aborted = TRUE] \in TaskType
  BY Zenon DEF TaskType
<1> QED BY <1>1 DEF SettlementTyped, TasksTyped, AbortedLoops, AbortedDescendants

LEMMA TasksStep ==
  ASSUME SettlementTyped, SettlementNext
  PROVE  TasksTyped'
<1>0. TasksTyped
  BY DEF SettlementTyped
<1> DEFINE quiet == UNCHANGED <<loop, desc, joined, collected, recorded, mode>>
<1>1. ASSUME NEW l \in Loops, NEW r \in {"Shutdown", "Returned", "Panic", "Cancelled"}, LoopEnds(l, r)
      PROVE  TasksTyped'
  <2>1. loop' \in [Loops -> TaskType]
    BY Zenon, <1>0, <1>1, TaskFields DEF LoopEnds, TasksTyped
  <2> QED BY <1>0, <1>1, <2>1 DEF LoopEnds, TasksTyped, registry_vars, owner_vars
<1>2. ASSUME NEW c \in Children, Spawn(c) \/ AbortDescendant(c) \/ \E r \in {"Ok", "Panic", "Cancelled"} : DescendantEnds(c, r)
      PROVE  TasksTyped'
  <2>0. c \in Descendants
    BY DEF Descendants
  <2>1. CASE Spawn(c)
    <3>1. ShouldAbort(c, mode) \in BOOLEAN
      BY Zenon DEF ShouldAbort
    <3>2. desc' \in [Descendants -> TaskType]
      BY Zenon, <1>0, <2>0, <2>1, <3>1, TaskFieldPairs DEF Spawn, TasksTyped
    <3> QED BY <1>0, <2>1, <3>2 DEF Spawn, TasksTyped, registry_vars, owner_vars
  <2>2. CASE AbortDescendant(c)
    BY Zenon, <1>0, <2>0, <2>2, TaskFields DEF AbortDescendant, TasksTyped, registry_vars, owner_vars
  <2>3. CASE \E r \in {"Ok", "Panic", "Cancelled"} : DescendantEnds(c, r)
    <3>1. PICK r \in {"Ok", "Panic", "Cancelled"} : DescendantEnds(c, r)
      BY <2>3
    <3>2. r \in {"none", "Ok", "Shutdown", "Returned", "Panic", "Cancelled"}
      OBVIOUS
    <3>3. desc' \in [Descendants -> TaskType]
      BY Zenon, <1>0, <2>0, <3>1, <3>2, TaskFieldPairs DEF DescendantEnds, TasksTyped
    <3> QED BY <1>0, <3>1, <3>3 DEF DescendantEnds, TasksTyped, registry_vars, owner_vars
  <2> QED BY <1>2, <2>1, <2>2, <2>3
<1>3. CASE SignalStep
  <2>0. Signal \in Descendants
    BY DEF Descendants
  <2>1. ASSUME NEW o \in {"ok", "error", "panic"}, SignalTriggers(o) PROVE desc' \in [Descendants -> TaskType]
    <3>1. (IF o = "panic" THEN "Panic" ELSE "Ok") \in {"none", "Ok", "Shutdown", "Returned", "Panic", "Cancelled"}
      OBVIOUS
    <3> QED BY ZenonT(30), <1>0, <2>0, <2>1, <3>1, TaskFields DEF SignalTriggers, TasksTyped
  <2>2. ASSUME NEW r \in {"Ok", "Cancelled"}, SignalStops(r) PROVE desc' \in [Descendants -> TaskType]
    BY Zenon, <1>0, <2>0, <2>2, TaskFields DEF SignalStops, TasksTyped
  <2>3. ASSUME NEW panics \in BOOLEAN, SignalDestroyed(panics) PROVE desc' \in [Descendants -> TaskType]
    <3>1. CASE panics
      <4>1. desc' = [desc EXCEPT ![Signal].st = "done", ![Signal].result = "Panic"]
        BY <2>3, <3>1 DEF SignalDestroyed
      <4> QED BY ZenonT(30), <1>0, <2>0, <4>1, TaskFields DEF TasksTyped
    <3>2. CASE ~panics
      <4> DEFINE done == [desc EXCEPT ![Signal].st = "done"]
      <4>1. done \in [Descendants -> TaskType]
        BY <1>0, <2>0 DEF TasksTyped, TaskType
      <4>2. done[Signal].result \in {"none", "Ok", "Shutdown", "Returned", "Panic", "Cancelled"}
        BY <2>0, <4>1 DEF TaskType
      <4>3. [done EXCEPT ![Signal].result = done[Signal].result] \in [Descendants -> TaskType]
        <5> HIDE DEF done
        <5> QED BY Zenon, <2>0, <4>1, <4>2, TaskFields
      <4>4. desc' = [done EXCEPT ![Signal].result = done[Signal].result]
        BY <1>0, <2>0, <2>3, <3>2 DEF SignalDestroyed, TasksTyped, TaskType
      <4> QED BY <4>3, <4>4
    <3> QED BY <3>1, <3>2
  <2>4. UNCHANGED <<loop, joined, collected, recorded, mode>>
    BY <1>3 DEF SignalStep, SignalTriggers, SignalStops, SignalDestroyed, registry_vars, owner_vars
  <2> QED BY <1>0, <1>3, <2>1, <2>2, <2>3, <2>4 DEF SignalStep, TasksTyped
<1>4. ASSUME NEW l \in Loops, CollectLoop(l) PROVE TasksTyped'
  BY <1>0, <1>4 DEF CollectLoop, TasksTyped, task_vars, registry_vars
<1>5. ASSUME NEW d \in Descendants, CollectDescendant(d) PROVE TasksTyped'
  BY <1>0, <1>5 DEF CollectDescendant, TasksTyped, task_vars, owner_vars
<1>6. CASE AbortDescendants
  BY <1>0, <1>6, AbortsTyped DEF AbortDescendants, TasksTyped
<1>7. CASE AbortLoops
  BY <1>0, <1>7, AbortsTyped DEF AbortLoops, TasksTyped, registry_vars
<1>8. CASE OwnerInterrupted
  BY <1>0, <1>8, AbortsTyped DEF OwnerInterrupted, TasksTyped
<1>9. CASE \/ \E started \in 0..(now + 1) : RequestShutdown(started)
           \/ Publish \/ (\E l \in Loops : LoopStarts(l)) \/ CallbackFails
           \/ OwnerMove \/ Deliver \/ OwnerDropped \/ Tick \/ UNCHANGED svars
  <2>1. quiet
    BY <1>9 DEF RequestShutdown, Publish, LoopStarts, CallbackFails, OwnerMove, OwnerSeesStop, SettleLoops,
                SettleRegistry, PhaseSubscribes, PhaseReads, PhaseWakes, PhaseElapsedLoops, PhaseElapsedRegistry,
                Harvest, OwnerOnly, Deliver, OwnerDropped, Tick, task_vars, registry_vars, owner_vars, svars
  <2> QED BY <1>0, <2>1 DEF TasksTyped
<1> QED BY <1>1, <1>2, <1>3, <1>4, <1>5, <1>6, <1>7, <1>8, <1>9, SettlementActions DEF TaskAction

LEMMA OwnerFieldPairs ==
  ASSUME NEW r \in OwnerType, NEW v \in OwnerSteps
  PROVE  /\ \A w \in Phases : [r EXCEPT !.pc = v, !.phase = w] \in OwnerType
         /\ \A w \in BOOLEAN : [r EXCEPT !.pc = v, !.graceful = w] \in OwnerType
         /\ \A w \in 0..(MaxTime + Graceful + Abort) : [r EXCEPT !.pc = v, !.timer = w] \in OwnerType
<1> DEFINE g == [r EXCEPT !.pc = v]
<1>1. g \in OwnerType
  BY OwnerFields
<1>2. /\ \A w \in Phases : [g EXCEPT !.phase = w] \in OwnerType
      /\ \A w \in BOOLEAN : [g EXCEPT !.graceful = w] \in OwnerType
      /\ \A w \in 0..(MaxTime + Graceful + Abort) : [g EXCEPT !.timer = w] \in OwnerType
  <2> HIDE DEF g
  <2> QED BY Zenon, <1>1, OwnerFields
<1>3. /\ \A w : [r EXCEPT !.pc = v, !.phase = w] = [g EXCEPT !.phase = w]
      /\ \A w : [r EXCEPT !.pc = v, !.graceful = w] = [g EXCEPT !.graceful = w]
      /\ \A w : [r EXCEPT !.pc = v, !.timer = w] = [g EXCEPT !.timer = w]
  BY Zenon
<1> QED BY Zenon, <1>2, <1>3

(* What an owner's step does to its record.                                *)
LEMMA OwnerRecord ==
  ASSUME SettlementTyped, SettlementNext
  PROVE  /\ owner' \in OwnerType
         /\ owner.pc = "observe" /\ request = None => owner' = owner
<1>0. owner \in OwnerType /\ 0 \in 0..(MaxTime + Graceful + Abort)
  BY SettlementAssumption DEF SettlementTyped, OwnerTyped
<1>1. ASSUME NEW pc \in OwnerSteps, OwnerGoto(pc) PROVE owner' \in OwnerType
  BY Zenon, <1>0, <1>1, OwnerFields DEF OwnerGoto
<1>2. ASSUME NEW pc \in OwnerSteps, OwnerWakes(pc) PROVE owner' \in OwnerType
  BY Zenon, <1>0, <1>2, OwnerFieldPairs DEF OwnerWakes
<1>3. ASSUME NEW settled, PhaseEnds(settled) PROVE owner' \in OwnerType
  <2>1. CASE owner.phase = "graceful" /\ ~settled
    <3>1. owner' = [owner EXCEPT !.pc = "abort"]
      BY <1>3, <2>1 DEF PhaseEnds
    <3> QED BY Zenon, <1>0, <3>1, OwnerFields DEF OwnerSteps
  <2>2. CASE ~(owner.phase = "graceful" /\ ~settled)
    <3>1. owner' = [owner EXCEPT !.pc = "harvest", !.graceful = owner.phase = "graceful"]
      BY <1>3, <2>2 DEF PhaseEnds
    <3>2. (owner.phase = "graceful") \in BOOLEAN
      BY Zenon
    <3>3. "harvest" \in OwnerSteps
      BY DEF OwnerSteps
    <3> QED BY Zenon, <1>0, <3>1, <3>2, <3>3, OwnerFieldPairs
  <2> QED BY <2>1, <2>2
<1>4. CASE OwnerSeesStop
  <2>1. "settle" \in OwnerSteps /\ "graceful" \in Phases
    BY DEF OwnerSteps, Phases
  <2> QED BY Zenon, <1>0, <1>4, <2>1, OwnerFieldPairs DEF OwnerSeesStop
<1>5. CASE AbortLoops
  <2>1. "settle" \in OwnerSteps /\ "abort" \in Phases
    BY DEF OwnerSteps, Phases
  <2>2. owner' \in OwnerType
    BY Zenon, <1>0, <1>5, <2>1, OwnerFieldPairs DEF AbortLoops
  <2> QED BY <1>5, <2>2 DEF AbortLoops
<1>6. CASE PhaseReads
  <2>1. request.at + Allowance \in 0..(MaxTime + Graceful + Abort)
    <3>1. request \in RequestType /\ request.at <= now /\ now \in 1..MaxTime
      BY <1>6 DEF PhaseReads, SettlementTyped, ClockTyped, OwnerTyped
    <3>2. Allowance \in {0, Graceful, Graceful + Abort}
      BY DEF Allowance
    <3> QED BY <3>1, <3>2, SettlementAssumption DEF RequestType
  <2>2. "wait" \in OwnerSteps
    BY DEF OwnerSteps
  <2>3. owner' \in OwnerType
    BY Zenon, <1>0, <1>6, <2>1, <2>2, OwnerFieldPairs DEF PhaseReads
  <2> QED BY <1>6, <2>3 DEF PhaseReads
<1>7. CASE PhaseWakes
  <2>1. \E pc \in OwnerSteps : OwnerWakes(pc)
    BY <1>7 DEF PhaseWakes, OwnerSteps
  <2> QED BY <1>2, <1>7, <2>1 DEF PhaseWakes
<1>8. CASE \/ SettleLoops \/ PhaseSubscribes \/ PhaseElapsedLoops \/ Harvest \/ AbortDescendants \/ Deliver
  <2>1. \E pc \in OwnerSteps : OwnerGoto(pc)
    BY <1>8 DEF SettleLoops, PhaseSubscribes, PhaseElapsedLoops, Harvest, AbortDescendants, Deliver, OwnerSteps
  <2>2. owner.pc # "observe"
    BY <1>8 DEF SettleLoops, PhaseSubscribes, PhaseElapsedLoops, Harvest, AbortDescendants, Deliver
  <2> QED BY <1>1, <2>1, <2>2
<1>9. CASE SettleRegistry \/ PhaseElapsedRegistry
  <2>1. (\E pc \in OwnerSteps : OwnerGoto(pc)) \/ (\E settled \in BOOLEAN : PhaseEnds(settled))
    <3>1. CASE SettleRegistry
      <4>1. "subscribe" \in OwnerSteps
        BY DEF OwnerSteps
      <4> QED BY <3>1, <4>1 DEF SettleRegistry
    <3>2. CASE PhaseElapsedRegistry
      <4>1. (joined = Loops /\ InRegistry = {}) \in BOOLEAN
        BY Zenon
      <4> QED BY Zenon, <3>2, <4>1 DEF PhaseElapsedRegistry
    <3> QED BY <1>9, <3>1, <3>2
  <2>2. owner.pc # "observe"
    BY <1>9 DEF SettleRegistry, PhaseElapsedRegistry
  <2> QED BY <1>1, <1>3, <2>1, <2>2
<1>10. CASE OwnerInterrupted
  <2>1. "done" \in OwnerSteps
    BY DEF OwnerSteps
  <2> QED BY <1>2, <1>10, <2>1 DEF OwnerInterrupted
<1>11. CASE \/ \E started \in 0..(now + 1) : RequestShutdown(started)
            \/ Publish \/ TaskAction \/ SignalStep \/ OwnerDropped \/ Tick \/ UNCHANGED svars
            \/ \E l \in Loops : CollectLoop(l)
            \/ \E d \in Descendants : CollectDescendant(d)
  <2>1. owner' = owner
    BY <1>11 DEF RequestShutdown, Publish, TaskAction, LoopStarts, LoopEnds, Spawn, DescendantEnds, AbortDescendant,
                 CallbackFails, SignalStep, SignalTriggers, SignalStops, SignalDestroyed, OwnerDropped, Tick,
                 CollectLoop, CollectDescendant, owner_vars, svars
  <2> QED BY <1>0, <2>1
<1> QED BY <1>4, <1>5, <1>6, <1>7, <1>8, <1>9, <1>10, <1>11, SettlementActions DEF OwnerMove, OwnerSeesStop

LEMMA OwnerStepTyped ==
  ASSUME SettlementTyped, SettlementNext
  PROVE  OwnerTyped'
<1>1. request # None => request' # None
  BY RequestChanges, RequestIsSome
<1>2. owner.pc = "done" => owner' = owner
  BY SettlementActions
     DEF RequestShutdown, Publish, TaskAction, LoopStarts, LoopEnds, Spawn, DescendantEnds, AbortDescendant,
         CallbackFails, SignalStep, SignalTriggers, SignalStops, SignalDestroyed, CollectLoop, CollectDescendant,
         OwnerMove, OwnerSeesStop, SettleLoops, SettleRegistry, PhaseSubscribes, PhaseReads, PhaseWakes,
         PhaseElapsedLoops, PhaseElapsedRegistry, Harvest, AbortDescendants, AbortLoops, Deliver,
         OwnerInterrupted, OwnerDropped, Tick, owner_vars, svars
<1> QED BY <1>1, <1>2, OwnerRecord DEF SettlementTyped, OwnerTyped

LEMMA OthersStep ==
  ASSUME SettlementTyped, SettlementNext
  PROVE  OthersTyped'
<1>0. sig \in SigType /\ startup \in StartupType
  BY DEF SettlementTyped, OthersTyped
<1>1. [startup EXCEPT !.state = "Stopped"] \in StartupType
  BY <1>0 DEF StartupType
<1>2. ASSUME NEW o \in {"ok", "error", "panic"}, SignalTriggers(o) PROVE OthersTyped'
  <2>1. (IF o = "panic" THEN "poll" ELSE "none") \in {"none", "poll", "destruction", "poll_and_destruction"}
    OBVIOUS
  <2>2. (o = "error") \in BOOLEAN /\ (request = None) \in BOOLEAN
    BY Zenon
  <2>3. sig' \in SigType
    BY Zenon, <1>2, <2>1, <2>2 DEF SignalTriggers, SigType
  <2> QED BY <1>0, <1>2, <2>3 DEF SignalTriggers, OthersTyped
<1>3. ASSUME NEW panics \in BOOLEAN, SignalDestroyed(panics) PROVE OthersTyped'
  <2>1. \A v \in {"none", "poll", "destruction", "poll_and_destruction"} : [sig EXCEPT !.panic = v] \in SigType
    BY <1>0 DEF SigType
  <2>2. sig.panic \in {"none", "poll", "destruction", "poll_and_destruction"}
    BY <1>0 DEF SigType
  <2>3. \E v \in {"none", "poll", "destruction", "poll_and_destruction"} : sig' = [sig EXCEPT !.panic = v]
    BY <1>3, <2>2 DEF SignalDestroyed
  <2> QED BY <1>0, <1>3, <2>1, <2>3 DEF SignalDestroyed, OthersTyped
<1>4. ASSUME NEW l \in Loops, LoopStarts(l) PROVE OthersTyped'
  BY <1>0, <1>4 DEF LoopStarts, Acknowledged, OthersTyped, StartupType
<1>5. CASE Publish \/ \E l \in Loops : \E r \in {"Shutdown", "Returned", "Panic", "Cancelled"} : LoopEnds(l, r)
  BY <1>0, <1>1, <1>5 DEF Publish, LoopEnds, OthersTyped
<1>6. CASE \/ \E started \in 0..(now + 1) : RequestShutdown(started)
           \/ \E c \in Children : Spawn(c) \/ AbortDescendant(c) \/ \E r \in {"Ok", "Panic", "Cancelled"} : DescendantEnds(c, r)
           \/ CallbackFails \/ (\E r \in {"Ok", "Cancelled"} : SignalStops(r))
           \/ OwnerMove \/ AbortDescendants \/ AbortLoops \/ Deliver \/ OwnerInterrupted \/ OwnerDropped \/ Tick
           \/ UNCHANGED svars \/ (\E l \in Loops : CollectLoop(l)) \/ \E d \in Descendants : CollectDescendant(d)
  <2>1. UNCHANGED <<sig, startup>>
    BY <1>6 DEF RequestShutdown, Spawn, DescendantEnds, AbortDescendant, CallbackFails, SignalStops, OwnerMove,
                OwnerSeesStop, SettleLoops, SettleRegistry, PhaseSubscribes, PhaseReads, PhaseWakes,
                PhaseElapsedLoops, PhaseElapsedRegistry, Harvest, OwnerOnly, AbortDescendants, AbortLoops, Deliver,
                OwnerInterrupted, OwnerDropped, Tick, CollectLoop, CollectDescendant, signal_vars, svars
  <2> QED BY <1>0, <2>1 DEF OthersTyped
<1> QED BY <1>2, <1>3, <1>4, <1>5, <1>6, SettlementActions DEF TaskAction, SignalStep

LEMMA SettlementNextTyped ==
  ASSUME SettlementTyped, [SettlementNext]_svars
  PROVE  SettlementTyped'
<1>1. CASE SettlementNext
  BY <1>1, ClockStep, FlagsStep, TasksStep, OwnerStepTyped, OthersStep DEF SettlementTyped
<1>2. CASE UNCHANGED svars
  BY <1>2 DEF svars, SettlementTyped, ClockTyped, FlagsTyped, TasksTyped, OwnerTyped, OthersTyped
<1> QED BY <1>1, <1>2

(* Everything that ran has been joined.                                    *)
Frozen == joined = Loops /\ InRegistry = {}

(* What the joins leave behind: a join comes after the end, a failure that *)
(* is not the owner's doing is recorded or counted, and the signal's       *)
(* evidence is that of its only trigger.                                   *)
RegistryStory ==
  /\ \A l \in joined : loop[l].st = "done"
  /\ \A d \in collected : desc[d].st = "done" /\ (Failed(d) /\ ~OwnerCancelled(d) => d \in recorded \/ prior)
  /\ desc[Signal].st \in {"unborn", "running"} => ~sig.error /\ sig.panic = "none"
  /\ desc[Signal].st = "dropping" => sig.panic \in {"none", "poll"}

(* Steps that touch neither the tasks nor the registry.                    *)
QuietAction ==
  \/ \E started \in 0..(now + 1) : RequestShutdown(started)
  \/ Publish \/ (\E l \in Loops : LoopStarts(l)) \/ OwnerMove \/ Deliver \/ OwnerDropped \/ Tick
  \/ UNCHANGED svars

LEMMA QuietSteps ==
  ASSUME QuietAction
  PROVE  UNCHANGED <<loop, desc, joined, collected, recorded, mode, prior, callbacks, sig, kind, budget>>
BY DEF QuietAction, RequestShutdown, Publish, LoopStarts, OwnerMove, OwnerSeesStop, SettleLoops, SettleRegistry,
       PhaseSubscribes, PhaseReads, PhaseWakes, PhaseElapsedLoops, PhaseElapsedRegistry, Harvest, OwnerOnly, Deliver,
       OwnerDropped, Tick, signal_vars, task_vars, registry_vars, owner_vars, svars

(* The other steps, one by one.                                            *)
LEMMA TaskActions ==
  ASSUME SettlementNext
  PROVE  \/ QuietAction
         \/ \E l \in Loops : \E r \in {"Shutdown", "Returned", "Panic", "Cancelled"} : LoopEnds(l, r)
         \/ \E c \in Children :
              Spawn(c) \/ AbortDescendant(c) \/ \E r \in {"Ok", "Panic", "Cancelled"} : DescendantEnds(c, r)
         \/ CallbackFails \/ SignalStep
         \/ \E l \in Loops : CollectLoop(l)
         \/ \E d \in Descendants : CollectDescendant(d)
         \/ AbortDescendants \/ AbortLoops \/ OwnerInterrupted
BY SettlementActions DEF QuietAction, TaskAction

(* A task that has ended keeps its result.                                 *)
LEMMA EndsStay ==
  ASSUME SettlementTyped, SettlementNext
  PROVE  /\ \A l \in Loops : loop[l].st = "done" => loop'[l] = loop[l]
         /\ \A d \in Descendants : desc[d].st = "done" => desc'[d] = desc[d]
         /\ UNCHANGED <<kind, budget>>
<1>0. loop \in [Loops -> TaskType] /\ desc \in [Descendants -> TaskType] /\ Children \subseteq Descendants
  BY DEF SettlementTyped, TasksTyped, Descendants
<1>1. CASE QuietAction
  BY <1>1, QuietSteps
<1>2. CASE \E l \in Loops : \E r \in {"Shutdown", "Returned", "Panic", "Cancelled"} : LoopEnds(l, r)
  BY <1>0, <1>2 DEF LoopEnds
<1>3. CASE \E c \in Children :
             Spawn(c) \/ AbortDescendant(c) \/ \E r \in {"Ok", "Panic", "Cancelled"} : DescendantEnds(c, r)
  BY <1>0, <1>3 DEF Spawn, AbortDescendant, DescendantEnds
<1>4. CASE CallbackFails \/ (\E l \in Loops : CollectLoop(l)) \/ \E d \in Descendants : CollectDescendant(d)
  BY <1>4 DEF CallbackFails, CollectLoop, CollectDescendant, task_vars
<1>5. CASE SignalStep
  BY <1>0, <1>5 DEF SignalStep, SignalTriggers, SignalStops, SignalDestroyed
<1>6. CASE AbortDescendants \/ AbortLoops \/ OwnerInterrupted
  BY <1>0, <1>6 DEF AbortDescendants, AbortLoops, OwnerInterrupted, AbortedDescendants, AbortedLoops
<1> QED BY <1>1, <1>2, <1>3, <1>4, <1>5, <1>6, TaskActions

(* Evidence of the joins: only a join adds to it.                          *)
LEMMA RegistryChanges ==
  ASSUME SettlementTyped, SettlementNext
  PROVE  /\ UNCHANGED joined \/ \E l \in Loops : CollectLoop(l)
         /\ UNCHANGED <<collected, recorded>> \/ \E d \in Descendants : CollectDescendant(d)
         /\ prior => prior'
<1>0. prior => prior'
  <2>1. CASE QuietAction
    BY <2>1, QuietSteps
  <2>2. CASE \E d \in Descendants : CollectDescendant(d)
    BY <2>2 DEF CollectDescendant, PriorWith
  <2> QED BY <2>1, <2>2, TaskActions
      DEF LoopEnds, Spawn, AbortDescendant, DescendantEnds, CallbackFails, SignalStep, SignalTriggers,
          SignalStops, SignalDestroyed, CollectLoop, AbortDescendants, AbortLoops, OwnerInterrupted,
          registry_vars
<1> QED BY <1>0, TaskActions, QuietSteps
    DEF LoopEnds, Spawn, AbortDescendant, DescendantEnds, CallbackFails, SignalStep, SignalTriggers, SignalStops,
        SignalDestroyed, CollectLoop, CollectDescendant, AbortDescendants, AbortLoops, OwnerInterrupted,
        registry_vars, owner_vars

(* The signal's evidence changes with its trigger and its destruction.     *)
LEMMA SignalChanges ==
  ASSUME SettlementTyped, SettlementNext
  PROVE  \/ /\ UNCHANGED sig
            /\ desc'[Signal].st \in {"unborn", "running"} => desc[Signal].st \in {"unborn", "running"}
            /\ desc'[Signal].st = "dropping" => desc[Signal].st \in {"running", "dropping"}
         \/ /\ desc[Signal].st = "running" /\ desc'[Signal].st = "dropping"
            /\ \E o \in {"ok", "error", "panic"} : SignalTriggers(o)
         \/ /\ desc[Signal].st = "dropping" /\ desc'[Signal].st = "done" /\ sig'.error = sig.error
            /\ sig.panic = "poll" => sig'.panic \in {"poll", "poll_and_destruction"}
<1>0. desc \in [Descendants -> TaskType] /\ Signal \in Descendants /\ sig \in SigType /\ Signal \notin Children
  BY SettlementAssumption DEF SettlementTyped, TasksTyped, OthersTyped, Descendants
<1>1. CASE QuietAction
  BY <1>1, QuietSteps
<1>2. ASSUME NEW c \in Children,
             Spawn(c) \/ AbortDescendant(c) \/ \E r \in {"Ok", "Panic", "Cancelled"} : DescendantEnds(c, r)
      PROVE  UNCHANGED sig /\ desc'[Signal] = desc[Signal]
  BY <1>0, <1>2 DEF Spawn, AbortDescendant, DescendantEnds
<1>3. CASE \/ (\E l \in Loops : \E r \in {"Shutdown", "Returned", "Panic", "Cancelled"} : LoopEnds(l, r))
           \/ CallbackFails \/ (\E l \in Loops : CollectLoop(l)) \/ (\E d \in Descendants : CollectDescendant(d))
           \/ AbortLoops
  BY <1>3 DEF LoopEnds, CallbackFails, CollectLoop, CollectDescendant, AbortLoops, task_vars, signal_vars
<1>4. CASE AbortDescendants \/ OwnerInterrupted
  BY <1>0, <1>4 DEF AbortDescendants, OwnerInterrupted, AbortedDescendants, signal_vars, TaskType
<1>5. ASSUME NEW o \in {"ok", "error", "panic"}, SignalTriggers(o)
      PROVE  desc[Signal].st = "running" /\ desc'[Signal].st = "dropping"
  BY <1>0, <1>5 DEF SignalTriggers, TaskType
<1>6. ASSUME NEW r \in {"Ok", "Cancelled"}, SignalStops(r)
      PROVE  UNCHANGED sig /\ desc[Signal].st = "running"
  BY <1>0, <1>6 DEF SignalStops, signal_vars
<1>7. ASSUME NEW panics \in BOOLEAN, SignalDestroyed(panics)
      PROVE  /\ desc[Signal].st = "dropping" /\ desc'[Signal].st = "done" /\ sig'.error = sig.error
             /\ sig.panic = "poll" => sig'.panic \in {"poll", "poll_and_destruction"}
  <2>1. desc[Signal].st = "dropping" /\ desc'[Signal].st = "done"
    BY <1>0, <1>7 DEF SignalDestroyed, TaskType
  <2>2. sig'.error = sig.error
    BY <1>0, <1>7 DEF SignalDestroyed, SigType
  <2>3. ASSUME sig.panic = "poll" PROVE sig'.panic \in {"poll", "poll_and_destruction"}
    BY <1>0, <1>7, <2>3 DEF SignalDestroyed, SigType
  <2> QED BY <2>1, <2>2, <2>3
<1> QED BY <1>1, <1>2, <1>3, <1>4, <1>5, <1>6, <1>7, TaskActions DEF SignalStep

LEMMA RegistryStep ==
  ASSUME SettlementTyped, RegistryStory, SettlementNext
  PROVE  RegistryStory'
<1>0. joined \subseteq Loops /\ collected \subseteq Descendants
  BY DEF SettlementTyped, TasksTyped
<1>1. \A l \in joined' : loop'[l].st = "done"
  BY <1>0, RegistryChanges, EndsStay DEF RegistryStory, CollectLoop, FinishedLoops
<1>2. ASSUME NEW d \in collected'
      PROVE  desc'[d].st = "done" /\ ((Failed(d) /\ ~OwnerCancelled(d))' => d \in recorded' \/ prior')
  <2>1. CASE d \in collected
    <3>1. desc'[d] = desc[d] /\ kind' = kind /\ desc[d].st = "done"
      BY <1>0, <2>1, EndsStay DEF RegistryStory
    <3>2. recorded \subseteq recorded'
      BY RegistryChanges DEF CollectDescendant
    <3> QED BY <2>1, <3>1, <3>2, RegistryChanges DEF RegistryStory, Failed, OwnerCancelled
  <2>2. CASE d \notin collected
    <3>1. CollectDescendant(d)
      BY <1>2, <2>2, RegistryChanges DEF CollectDescendant
    <3> QED BY <3>1 DEF CollectDescendant, FinishedDescendants, PriorWith, Failed, OwnerCancelled, task_vars
  <2> QED BY <2>1, <2>2
<1>3. desc'[Signal].st \in {"unborn", "running"} => ~sig'.error /\ sig'.panic = "none"
  BY SignalChanges DEF RegistryStory
<1>4. desc'[Signal].st = "dropping" => sig'.panic \in {"none", "poll"}
  <2>1. ASSUME NEW o \in {"ok", "error", "panic"}, SignalTriggers(o) PROVE sig'.panic \in {"none", "poll"}
    BY <2>1 DEF SignalTriggers
  <2> QED BY <2>1, SignalChanges DEF RegistryStory
<1> QED BY <1>1, <1>2, <1>3, <1>4 DEF RegistryStory

(* Once everything that ran is joined, nothing starts or changes again.    *)
LEMMA FrozenStays ==
  ASSUME SettlementTyped, RegistryStory, Frozen, SettlementNext
  PROVE  UNCHANGED <<loop, desc, joined, collected, recorded, prior, callbacks, sig, kind>> /\ Frozen'
<1>0. /\ loop \in [Loops -> TaskType] /\ desc \in [Descendants -> TaskType]
      /\ Children \subseteq Descendants /\ Signal \in Descendants
  BY DEF SettlementTyped, TasksTyped, Descendants
<1>1. /\ \A l \in Loops : loop[l].st = "done"
      /\ \A d \in Descendants : desc[d].st \in {"unborn", "done"}
      /\ FinishedLoops = {} /\ FinishedDescendants = {} /\ ~Spawning
  <2>1. \A l \in Loops : loop[l].st = "done"
    BY DEF Frozen, RegistryStory
  <2>2. \A d \in Descendants : desc[d].st \in {"unborn", "done"}
    BY DEF Frozen, RegistryStory, InRegistry
  <2>3. FinishedLoops = {} /\ FinishedDescendants = {}
    BY DEF Frozen, FinishedLoops, FinishedDescendants
  <2> QED BY <1>0, <2>1, <2>2, <2>3 DEF Spawning
<1>2. UNCHANGED <<loop, desc, joined, collected, recorded, prior, callbacks, sig, kind>>
  <2>1. CASE QuietAction
    BY <2>1, QuietSteps
  <2>2. ~SignalStep
    BY <1>0, <1>1 DEF SignalStep, SignalTriggers, SignalStops, SignalDestroyed
  <2>3. AbortedLoops = loop /\ \A m : AbortedDescendants(m) = desc
    BY <1>0 DEF Frozen, AbortedLoops, AbortedDescendants
  <2>4. CASE AbortDescendants \/ AbortLoops \/ OwnerInterrupted
    BY <2>3, <2>4 DEF AbortDescendants, AbortLoops, OwnerInterrupted, signal_vars, registry_vars
  <2>5. ~\E l \in Loops : CollectLoop(l) \/ \E r \in {"Shutdown", "Returned", "Panic", "Cancelled"} : LoopEnds(l, r)
    BY <1>1 DEF CollectLoop, LoopEnds
  <2>6. ~CallbackFails /\ ~\E d \in Descendants : CollectDescendant(d)
    BY <1>1 DEF CallbackFails, CollectDescendant
  <2>7. ~\E c \in Children :
          Spawn(c) \/ AbortDescendant(c) \/ \E r \in {"Ok", "Panic", "Cancelled"} : DescendantEnds(c, r)
    BY <1>0, <1>1 DEF Spawn, AbortDescendant, DescendantEnds
  <2> QED BY <2>1, <2>2, <2>4, <2>5, <2>6, <2>7, TaskActions
<1> QED BY <1>2 DEF Frozen, InRegistry

(* The cause of the stop is on record: the loop's join, the descendant's   *)
(* record, or what the signal task published.                              *)
CauseStory ==
  request # None =>
    /\ request.cause.kind = "LoopFailure" => request.cause.task \in joined /\ LoopFailed(request.cause.task)
    /\ request.cause.kind = "DescendantFailure" =>
         \/ /\ request.cause.task \in recorded
            /\ Failed(request.cause.task) /\ ~OwnerCancelled(request.cause.task)
         \/ request.cause.task = Signal /\ sig.panic \in {"poll", "poll_and_destruction"}
    /\ request.cause.kind = "SignalFailed" => sig.error

(* Where a first cause comes from.                                         *)
LEMMA FirstCause ==
  ASSUME SettlementTyped, SettlementNext, request = None, request' # None
  PROVE  \/ request'.cause.kind = "Requested"
         \/ \E l \in Loops : CollectLoop(l) /\ LoopFailed(l) /\ request'.cause = Cause("LoopFailure", l)
         \/ \E d \in Descendants :
              CollectDescendant(d) /\ RequestsShutdown(d) /\ request'.cause = Cause("DescendantFailure", d)
         \/ SignalTriggers("error") /\ request'.cause = Cause("SignalFailed", None)
         \/ SignalTriggers("panic") /\ request'.cause = Cause("DescendantFailure", Signal)
<1>0. ClockTyped /\ now \in Nat
  BY SettlementAssumption DEF SettlementTyped, ClockTyped
<1>1. CASE OwnerDropped \/ \E started \in 0..(now + 1) : RequestShutdown(started)
  <2>1. \E started \in Nat : request' = Requested(started, Cause("Requested", None))
    BY <1>0, <1>1 DEF OwnerDropped, RequestShutdown
  <2>2. request'.cause = Cause("Requested", None)
    BY <1>0, <2>1, RequestedTyped, Causes
  <2> QED BY <2>2 DEF Cause
<1>2. ASSUME NEW l \in Loops, CollectLoop(l)
      PROVE  LoopFailed(l) /\ request'.cause = Cause("LoopFailure", l)
  BY <1>0, <1>2, RequestedTyped, Causes DEF CollectLoop
<1>3. ASSUME NEW d \in Descendants, CollectDescendant(d)
      PROVE  RequestsShutdown(d) /\ request'.cause = Cause("DescendantFailure", d)
  BY <1>0, <1>3, RequestedTyped, Causes DEF CollectDescendant
<1>4. ASSUME NEW o \in {"ok", "error", "panic"}, SignalTriggers(o)
      PROVE  \/ o = "ok" /\ request'.cause.kind = "Requested"
             \/ o = "error" /\ request'.cause = Cause("SignalFailed", None)
             \/ o = "panic" /\ request'.cause = Cause("DescendantFailure", Signal)
  BY <1>4 DEF SignalTriggers, Cause
<1>5. CASE SignalStep
  BY <1>4, <1>5 DEF SignalStep, SignalStops, SignalDestroyed, signal_vars
<1>6. CASE \/ Publish \/ TaskAction \/ OwnerMove \/ AbortDescendants \/ AbortLoops \/ Deliver
           \/ OwnerInterrupted \/ Tick \/ UNCHANGED svars
  BY <1>6 DEF Publish, TaskAction, LoopStarts, LoopEnds, Spawn, DescendantEnds, AbortDescendant, CallbackFails,
              OwnerMove, OwnerSeesStop, SettleLoops, SettleRegistry, PhaseSubscribes, PhaseReads, PhaseWakes,
              PhaseElapsedLoops, PhaseElapsedRegistry, Harvest, OwnerOnly, AbortDescendants, AbortLoops, Deliver,
              OwnerInterrupted, Tick, signal_vars, svars
<1> QED BY <1>1, <1>2, <1>3, <1>5, <1>6, SettlementActions

LEMMA CauseStep ==
  ASSUME SettlementTyped, RegistryStory, CauseStory, SettlementNext
  PROVE  CauseStory'
<1>0. joined \subseteq Loops /\ recorded \subseteq collected /\ collected \subseteq Descendants
  BY DEF SettlementTyped, TasksTyped
<1>1. CASE request # None
  <2>0. request' # None /\ request'.cause = request.cause
    BY <1>1, RequestChanges, RequestIsSome
  <2> DEFINE t == request.cause.task
  <2>1. ASSUME t \in joined, LoopFailed(t) PROVE t \in joined' /\ LoopFailed(t)'
    <3>1. t \in joined'
      BY <2>1, RegistryChanges DEF CollectLoop
    <3>2. loop'[t] = loop[t]
      BY <1>0, <2>1, EndsStay DEF RegistryStory
    <3> QED BY <2>0, <2>1, <3>1, <3>2 DEF LoopFailed
  <2>2. ASSUME t \in recorded, Failed(t), ~OwnerCancelled(t)
        PROVE  t \in recorded' /\ Failed(t)' /\ ~OwnerCancelled(t)'
    <3>1. t \in recorded'
      BY <2>2, RegistryChanges DEF CollectDescendant
    <3>2. desc'[t] = desc[t] /\ kind' = kind
      BY <1>0, <2>2, EndsStay DEF RegistryStory
    <3> QED BY <2>0, <2>2, <3>1, <3>2 DEF Failed, OwnerCancelled
  <2>3. sig.panic \in {"poll", "poll_and_destruction"} => sig'.panic \in {"poll", "poll_and_destruction"}
    BY SignalChanges DEF RegistryStory
  <2>4. sig.error => sig'.error
    BY SignalChanges DEF RegistryStory
  <2> QED BY <1>1, <2>0, <2>1, <2>2, <2>3, <2>4 DEF CauseStory
<1>2. CASE request = None /\ request' # None
  <2>1. CASE request'.cause.kind = "Requested"
    BY <2>1 DEF CauseStory
  <2>2. ASSUME NEW l \in Loops, CollectLoop(l), LoopFailed(l), request'.cause = Cause("LoopFailure", l)
        PROVE  CauseStory'
    <3>1. request'.cause.kind = "LoopFailure" /\ request'.cause.task = l
      BY <2>2 DEF Cause
    <3>2. l \in joined' /\ loop' = loop
      BY <2>2 DEF CollectLoop, task_vars
    <3> QED BY <2>2, <3>1, <3>2 DEF CauseStory, LoopFailed
  <2>3. ASSUME NEW d \in Descendants, CollectDescendant(d), RequestsShutdown(d),
               request'.cause = Cause("DescendantFailure", d)
        PROVE  CauseStory'
    <3>1. request'.cause.kind = "DescendantFailure" /\ request'.cause.task = d
      BY <2>3 DEF Cause
    <3>2. d \in recorded' /\ UNCHANGED <<desc, kind>>
      BY <1>2, <2>3 DEF CollectDescendant, task_vars
    <3>3. Failed(d) /\ ~OwnerCancelled(d)
      BY <2>3 DEF RequestsShutdown, Failed, OwnerCancelled
    <3> QED BY <3>1, <3>2, <3>3 DEF CauseStory, Failed, OwnerCancelled
  <2>4. CASE SignalTriggers("error") /\ request'.cause = Cause("SignalFailed", None)
    <3>1. sig'.error
      BY Zenon, <2>4 DEF SignalTriggers
    <3> QED BY <2>4, <3>1 DEF Cause, CauseStory
  <2>5. CASE SignalTriggers("panic") /\ request'.cause = Cause("DescendantFailure", Signal)
    BY <2>5 DEF SignalTriggers, Cause, CauseStory
  <2> QED BY <1>2, <2>1, <2>2, <2>3, <2>4, <2>5, FirstCause
<1>3. CASE request' = None
  BY <1>3 DEF CauseStory
<1> QED BY <1>1, <1>2, <1>3

(* The owner's place: loops are joined before the registry is asked, a     *)
(* graceful end leaves nothing running, and the deadline it sleeps on is   *)
(* the request's unless a wake-up is on its way.                           *)
OwnerStory ==
  /\ owner.pc = "settle_registry" => joined = Loops
  /\ owner.pc \in {"harvest", "snapshot"} /\ owner.graceful => Frozen
  /\ WaitsForTheTightestDeadline

LEMMA OwnerStoryStep ==
  ASSUME SettlementTyped, RegistryStory, OwnerStory, SettlementNext
  PROVE  OwnerStory'
<1>0. owner \in OwnerType /\ joined \subseteq Loops /\ joined' \subseteq Loops
  BY SettlementNextTyped DEF SettlementTyped, OwnerTyped, TasksTyped
<1>1. joined = Loops => joined' = Loops
  BY <1>0, RegistryChanges DEF CollectLoop
<1>2. Frozen => Frozen'
  BY FrozenStays
<1>3. ASSUME NEW settled, PhaseEnds(settled), settled \in BOOLEAN
      PROVE  /\ owner'.pc \in {"abort", "harvest"}
             /\ owner'.pc = "harvest" /\ owner'.graceful => settled
  BY <1>0, <1>3 DEF PhaseEnds, OwnerType
<1>4. CASE SettleRegistry
  <2>1. UNCHANGED <<joined, desc, collected, budget, request>> /\ joined = Loops
    BY <1>4 DEF SettleRegistry, OwnerOnly, signal_vars, task_vars, registry_vars, OwnerStory
  <2>2. CASE InRegistry = {}
    BY <1>3, <1>4, <2>1, <2>2 DEF SettleRegistry, OwnerStory, Frozen, InRegistry, WaitsForTheTightestDeadline
  <2>3. CASE InRegistry # {}
    BY <1>0, <1>4, <2>1, <2>3 DEF SettleRegistry, OwnerGoto, OwnerStory, OwnerType, WaitsForTheTightestDeadline
  <2> QED BY <2>2, <2>3
<1>5. CASE PhaseElapsedRegistry
  <2>1. UNCHANGED <<joined, desc, collected>> /\ PhaseEnds(joined = Loops /\ InRegistry = {})
    BY <1>5 DEF PhaseElapsedRegistry, OwnerOnly, task_vars, registry_vars
  <2>2. (joined = Loops /\ InRegistry = {}) \in BOOLEAN
    BY Zenon
  <2>3. /\ owner'.pc \in {"abort", "harvest"}
        /\ owner'.pc = "harvest" /\ owner'.graceful => joined = Loops /\ InRegistry = {}
    BY <1>3, <2>1, <2>2
  <2> QED BY <2>1, <2>3 DEF OwnerStory, Frozen, InRegistry, WaitsForTheTightestDeadline
<1>6. CASE PhaseReads
  <2>1. UNCHANGED <<request, budget>> /\ owner'.pc = "wait" /\ owner'.phase = owner.phase
        /\ owner'.timer = request.at + Allowance
    BY <1>0, <1>6 DEF PhaseReads, OwnerOnly, signal_vars, OwnerType
  <2> QED BY <2>1 DEF OwnerStory, WaitsForTheTightestDeadline, Allowance
<1>7. CASE \/ OwnerSeesStop \/ SettleLoops \/ PhaseSubscribes \/ PhaseWakes \/ PhaseElapsedLoops
           \/ AbortDescendants \/ AbortLoops \/ Deliver \/ OwnerInterrupted
  <2>1. /\ owner'.pc = "settle_registry" => joined = Loops
        /\ owner'.pc \notin {"harvest", "snapshot", "wait"}
    BY <1>0, <1>7 DEF OwnerSeesStop, SettleLoops, PhaseSubscribes, PhaseWakes, PhaseElapsedLoops, AbortDescendants,
                      AbortLoops, Deliver, OwnerInterrupted, OwnerGoto, OwnerWakes, OwnerType
  <2> QED BY <1>1, <2>1 DEF OwnerStory, WaitsForTheTightestDeadline
<1>8. CASE Harvest
  <2>1. owner'.pc = "snapshot" /\ owner'.graceful = owner.graceful /\ owner.pc = "harvest"
    BY <1>0, <1>8 DEF Harvest, OwnerGoto, OwnerType
  <2> QED BY <1>2, <2>1 DEF OwnerStory, WaitsForTheTightestDeadline
<1>9. ASSUME UNCHANGED owner, budget' = budget,
             ~dirty' /\ ~unpublished' => ~dirty /\ ~unpublished /\ UNCHANGED request
      PROVE  OwnerStory'
  BY <1>1, <1>2, <1>9 DEF OwnerStory, WaitsForTheTightestDeadline, Allowance
<1>10. CASE \/ \E started \in 0..(now + 1) : RequestShutdown(started)
            \/ Publish \/ TaskAction \/ SignalStep \/ OwnerDropped \/ Tick \/ UNCHANGED svars
            \/ \E l \in Loops : CollectLoop(l)
            \/ \E d \in Descendants : CollectDescendant(d)
  <2>1. UNCHANGED owner /\ budget' = budget
    BY <1>10 DEF RequestShutdown, Publish, TaskAction, LoopStarts, LoopEnds, Spawn, DescendantEnds, AbortDescendant,
                 CallbackFails, SignalStep, SignalTriggers, SignalStops, SignalDestroyed, OwnerDropped, Tick,
                 CollectLoop, CollectDescendant, owner_vars, svars
  <2>2. ~dirty' /\ ~unpublished' => ~dirty /\ ~unpublished /\ UNCHANGED request
    BY <1>10 DEF RequestShutdown, Publish, TaskAction, LoopStarts, LoopEnds, Spawn, DescendantEnds, AbortDescendant,
                 CallbackFails, SignalStep, SignalTriggers, SignalStops, SignalDestroyed, OwnerDropped, Tick,
                 CollectLoop, CollectDescendant, signal_vars, svars
  <2> QED BY <1>9, <2>1, <2>2
<1> QED BY <1>4, <1>5, <1>6, <1>7, <1>8, <1>10, SettlementActions DEF OwnerMove

(* The startup watch: a published stop has stopped it, and until it stops  *)
(* every loop runs.                                                        *)
StartupStory ==
  /\ published => startup.state = "Stopped"
  /\ startup.state # "Stopped" => \A l \in Loops : loop[l].st = "running"
  /\ startup.state = "Initialized" => startup.pending = {}

LEMMA StartupStep ==
  ASSUME SettlementTyped, StartupStory, SettlementNext
  PROVE  StartupStory' /\ (startup.state = "Stopped" => startup'.state = "Stopped")
<1>0. startup \in StartupType /\ loop \in [Loops -> TaskType]
  BY DEF SettlementTyped, OthersTyped, TasksTyped
<1>1. CASE Publish \/ \E l \in Loops : \E r \in {"Shutdown", "Returned", "Panic", "Cancelled"} : LoopEnds(l, r)
  BY <1>0, <1>1 DEF Publish, LoopEnds, StartupStory, StartupType
<1>2. ASSUME NEW l \in Loops, LoopStarts(l)
      PROVE  StartupStory' /\ (startup.state = "Stopped" => startup'.state = "Stopped")
  BY <1>0, <1>2 DEF LoopStarts, Acknowledged, StartupStory, StartupType, task_vars
<1>3. CASE AbortLoops \/ OwnerInterrupted
  BY <1>0, <1>3 DEF AbortLoops, OwnerInterrupted, AbortedLoops, StartupStory, signal_vars, TaskType
<1>4. CASE \/ \E started \in 0..(now + 1) : RequestShutdown(started)
           \/ \E c \in Children : Spawn(c) \/ AbortDescendant(c) \/ \E r \in {"Ok", "Panic", "Cancelled"} : DescendantEnds(c, r)
           \/ CallbackFails \/ SignalStep \/ OwnerMove \/ AbortDescendants \/ Deliver \/ OwnerDropped \/ Tick
           \/ UNCHANGED svars \/ (\E l \in Loops : CollectLoop(l)) \/ \E d \in Descendants : CollectDescendant(d)
  <2>1. UNCHANGED <<published, startup, loop>>
    BY <1>4 DEF RequestShutdown, Spawn, DescendantEnds, AbortDescendant, CallbackFails, SignalStep, SignalTriggers,
                SignalStops, SignalDestroyed, OwnerMove, OwnerSeesStop, SettleLoops, SettleRegistry, PhaseSubscribes,
                PhaseReads, PhaseWakes, PhaseElapsedLoops, PhaseElapsedRegistry, Harvest, OwnerOnly, AbortDescendants,
                Deliver, OwnerDropped, Tick, CollectLoop, CollectDescendant, signal_vars, task_vars, svars
  <2> QED BY <2>1 DEF StartupStory
<1> QED BY <1>1, <1>2, <1>3, <1>4, SettlementActions DEF TaskAction

(* What a report says of itself: it succeeds exactly when no failure can   *)
(* be named, whatever the tasks did.                                       *)
LEMMA SettlementEvidence ==
  ASSUME NEW r
  PROVE  SettlementFailures(r) = {} <=>
           r.settlement = "Settled" /\ ~r.deadline_error /\ ~r.signal_error /\ ~r.callbacks /\ ~r.prior
BY DEF SettlementFailures, SignalFailures, Failure

LEMMA TriggeringEvidence ==
  ASSUME NEW r
  PROVE  TriggeringFailures(r) = {} <=> FailedLoops(r) = {} /\ FailedTasks(r) = {} /\ r.signal_panic = "none"
<1>1. TaskFailures(r) = {} <=> FailedLoops(r) = {} /\ FailedTasks(r) = {}
  BY DEF TaskFailures
<1>2. SignalPanics(r) = {} <=> r.signal_panic = "none"
  BY DEF SignalPanics, Failure
<1>3. FailedLoops(r) = {} /\ FailedTasks(r) = {} /\ r.signal_panic = "none" => CausingFailures(r) = {}
  BY DEF CausingFailures
<1> QED BY <1>1, <1>2, <1>3 DEF TriggeringFailures, OrElse

LEMMA NoFailureIsSuccess ==
  ASSUME NEW r
  PROVE  /\ Failures(r) = {} <=> IsSuccess(r)
         /\ IsSuccess(r) => PermitsCleanup(r)
<1>1. SignalFailures(r) # {} => SettlementFailures(r) # {}
  BY SettlementEvidence DEF SignalFailures
<1>2. Failures(r) = {} <=> SettlementFailures(r) = {} /\ TriggeringFailures(r) = {}
  BY <1>1 DEF Failures, OrElse
<1>3. (FailedLoops(r) = {} <=> \A l \in DOMAIN r.loops : r.loops[l].result = "Shutdown")
      /\ (FailedTasks(r) = {} <=> \A d \in DOMAIN r.descendants : ~r.descendants[d].error)
  BY DEF FailedLoops, FailedTasks
<1> QED BY <1>2, <1>3, SettlementEvidence, TriggeringEvidence DEF IsSuccess, PermitsCleanup

(* What a report says stays true: what started the stop is the failure it  *)
(* names, and one that says everything was joined is the final state.      *)
NamesTheCause(r) ==
  /\ r.cause.kind \in {"LoopFailure", "DescendantFailure"} => \A f \in Failures(r) : f.task = r.cause.task
  /\ r.cause.kind = "SignalFailed" => \A f \in Failures(r) : f.kind = "Signal"

TellsTheEnd(r) ==
  r.settlement \in {"Settled", "GracefulTimeout"} =>
    /\ Frozen
    /\ \A l \in Loops : l \in DOMAIN r.loops /\ r.loops[l].result = loop[l].result
    /\ \A d \in recorded : d \in DOMAIN r.descendants /\ (r.descendants[d].error <=> Failed(d) /\ ~OwnerCancelled(d))
    /\ r.prior <=> prior

ReportStory ==
  report # None => owner.pc = "done" /\ NamesTheCause(report) /\ TellsTheEnd(report)

LEMMA RecordOfAFailure ==
  ASSUME NEW d
  PROVE  TaskRecord(d).error <=> Failed(d) /\ ~OwnerCancelled(d)
BY Zenon DEF TaskRecord

(* A report written now names what started the stop.                       *)
LEMMA ReportNamesTheCause ==
  ASSUME CauseStory, request # None, NEW settlement, NEW unjoined
  PROVE  NamesTheCause(Report(settlement, unjoined))
<1> DEFINE r == Report(settlement, unjoined)
           c == request.cause
<1> SUFFICES NamesTheCause(r)
  OBVIOUS
<1>1. /\ r.cause = c /\ r.signal_error = sig.error /\ r.signal_panic = sig.panic
      /\ r.loops = [l \in joined |-> LoopRecord(l)]
      /\ r.descendants = [d \in recorded |-> TaskRecord(d)]
  BY DEF Report
<1> HIDE DEF r
<1>2. CASE c.kind = "LoopFailure"
  <2>1. c.task \in FailedLoops(r)
    BY <1>1, <1>2 DEF CauseStory, FailedLoops, LoopFailed, LoopRecord
  <2>2. CausingFailures(r) = Failure("Loop", c.task)
    BY <1>1, <1>2, <2>1 DEF CausingFailures
  <2>3. Failures(r) = Failure("Loop", c.task)
    BY <1>1, <1>2, <2>2 DEF Failures, TriggeringFailures, OrElse, Failure
  <2> QED BY <1>1, <1>2, <2>3 DEF NamesTheCause, Failure
<1>3. CASE c.kind = "DescendantFailure"
  <2>1. c.task \in FailedTasks(r) \/ (c.task = Signal /\ sig.panic \in {"poll", "poll_and_destruction"})
    <3>0. \A d \in recorded : r.descendants[d] = TaskRecord(d)
      BY <1>1
    <3>1. \A d \in recorded : Failed(d) /\ ~OwnerCancelled(d) => r.descendants[d].error
      BY <3>0, RecordOfAFailure
    <3> QED BY <1>1, <1>3, <3>1 DEF CauseStory, FailedTasks
  <2>2. CausingFailures(r) = Failure("Descendant", c.task) \/ CausingFailures(r) = Failure("SignalPanicked", c.task)
    BY <1>1, <1>3, <2>1 DEF CausingFailures
  <2>3. Failures(r) = CausingFailures(r)
    BY <1>1, <1>3, <2>2 DEF Failures, TriggeringFailures, OrElse, Failure
  <2> QED BY <1>1, <1>3, <2>2, <2>3 DEF NamesTheCause, Failure
<1>4. CASE c.kind = "SignalFailed"
  <2>1. SignalFailures(r) = Failure("Signal", Signal)
    BY <1>1, <1>4 DEF CauseStory, SignalFailures
  <2>2. Failures(r) = Failure("Signal", Signal)
    BY <1>1, <1>4, <2>1 DEF Failures, OrElse, Failure
  <2> QED BY <1>1, <1>4, <2>2 DEF NamesTheCause, Failure
<1> QED BY <1>1, <1>2, <1>3, <1>4 DEF NamesTheCause

(* One that says everything was joined says how it ended.                  *)
LEMMA ReportTellsTheEnd ==
  ASSUME joined \subseteq Loops, NEW settlement, NEW unjoined,
         settlement \in {"Settled", "GracefulTimeout"} => Frozen
  PROVE  TellsTheEnd(Report(settlement, unjoined))
<1> DEFINE r == Report(settlement, unjoined)
<1>1. /\ r.settlement = settlement /\ r.prior = prior
      /\ r.loops = [l \in joined |-> LoopRecord(l)]
      /\ r.descendants = [d \in recorded |-> TaskRecord(d)]
  BY DEF Report
<1> HIDE DEF r
<1>2. \A d \in recorded : d \in DOMAIN r.descendants /\ (r.descendants[d].error <=> Failed(d) /\ ~OwnerCancelled(d))
  BY <1>1, RecordOfAFailure
<1>3. \A l \in joined : l \in DOMAIN r.loops /\ r.loops[l].result = loop[l].result
  BY <1>1 DEF LoopRecord
<1>4. TellsTheEnd(r)
  BY <1>1, <1>2, <1>3 DEF TellsTheEnd, Frozen
<1> QED BY <1>4 DEF r

LEMMA TellsTheEndStays ==
  ASSUME SettlementTyped, RegistryStory, SettlementNext, NEW r, TellsTheEnd(r)
  PROVE  TellsTheEnd(r)'
BY FrozenStays DEF TellsTheEnd, Failed, OwnerCancelled

LEMMA ReportStep ==
  ASSUME SettlementTyped, RegistryStory, CauseStory, OwnerStory, ReportStory, SettlementNext
  PROVE  ReportStory'
<1>0. joined \subseteq Loops /\ owner \in OwnerType
  BY DEF SettlementTyped, TasksTyped, OwnerTyped
<1>1. CASE Deliver
  <2> DEFINE unjoined == InRegistry \cup (Loops \ joined)
             s == SettlementOf(owner.graceful, unjoined)
  <2>1. request # None
    BY <1>1 DEF Deliver, SettlementTyped, OwnerTyped
  <2>2. s \in {"Settled", "GracefulTimeout"} => Frozen
    <3>1. CASE owner.graceful
      BY <1>1, <3>1 DEF Deliver, OwnerStory
    <3>2. CASE ~owner.graceful
      BY <1>0, <3>2 DEF SettlementOf, Frozen
    <3> QED BY <3>1, <3>2
  <2>3. report' = Report(s, unjoined) /\ owner'.pc = "done"
    BY <1>0, <1>1 DEF Deliver, OwnerGoto, OwnerType
  <2> HIDE DEF s, unjoined
  <2>4. NamesTheCause(report') /\ TellsTheEnd(Report(s, unjoined))
    BY <1>0, <2>1, <2>2, <2>3, ReportNamesTheCause, ReportTellsTheEnd
  <2>5. TellsTheEnd(report)'
    <3> DEFINE r == report'
    <3>1. TellsTheEnd(r)
      BY <2>3, <2>4
    <3>2. UNCHANGED <<loop, desc, joined, collected, recorded, prior, kind>>
      BY <1>1 DEF Deliver, task_vars, registry_vars
    <3> QED BY <3>1, <3>2 DEF TellsTheEnd, Frozen, InRegistry, Failed, OwnerCancelled
  <2> QED BY <2>3, <2>4, <2>5 DEF ReportStory
<1>2. CASE OwnerInterrupted
  <2> DEFINE unjoined == InRegistry \cup (Loops \ joined)
  <2>1. report' = Report("Interrupted", unjoined) /\ owner'.pc = "done" /\ request # None
    BY <1>0, <1>2 DEF OwnerInterrupted, OwnerWakes, OwnerType
  <2> HIDE DEF unjoined
  <2>2. NamesTheCause(report')
    BY <2>1, ReportNamesTheCause
  <2>3. TellsTheEnd(report)'
    BY <2>1 DEF TellsTheEnd, Report
  <2> QED BY <2>1, <2>2, <2>3 DEF ReportStory
<1>3. ASSUME UNCHANGED report, report # None, owner' = owner PROVE ReportStory'
  <2>1. TellsTheEnd(report)'
    BY <1>3, TellsTheEndStays DEF ReportStory, TellsTheEnd
  <2> QED BY <1>3, <2>1 DEF ReportStory
<1>4. CASE ~Deliver /\ ~OwnerInterrupted
  <2>1. UNCHANGED report
    BY <1>4, SettlementActions
       DEF RequestShutdown, Publish, TaskAction, LoopStarts, LoopEnds, Spawn, DescendantEnds, AbortDescendant,
           CallbackFails, SignalStep, SignalTriggers, SignalStops, SignalDestroyed, CollectLoop, CollectDescendant,
           OwnerMove, OwnerSeesStop, SettleLoops, SettleRegistry, PhaseSubscribes, PhaseReads, PhaseWakes,
           PhaseElapsedLoops, PhaseElapsedRegistry, Harvest, OwnerOnly, AbortDescendants, AbortLoops,
           OwnerDropped, Tick, owner_vars, svars
  <2>2. report # None => owner' = owner
    BY <1>4, SettlementActions
       DEF ReportStory, RequestShutdown, Publish, TaskAction, LoopStarts, LoopEnds, Spawn, DescendantEnds,
           AbortDescendant, CallbackFails, SignalStep, SignalTriggers, SignalStops, SignalDestroyed, CollectLoop,
           CollectDescendant, OwnerMove, OwnerSeesStop, SettleLoops, SettleRegistry, PhaseSubscribes, PhaseReads,
           PhaseWakes, PhaseElapsedLoops, PhaseElapsedRegistry, Harvest, AbortDescendants, AbortLoops,
           OwnerDropped, Tick, owner_vars, svars
  <2> QED BY <1>3, <2>1, <2>2 DEF ReportStory
<1> QED BY <1>1, <1>2, <1>4

(* The settlement's inductive invariant.                                   *)
SettlementInv ==
  SettlementTyped /\ RegistryStory /\ CauseStory /\ OwnerStory /\ StartupStory /\ ReportStory

LEMMA SettlementInitInv == SettlementInit => SettlementInv
<1> SUFFICES ASSUME SettlementInit PROVE SettlementInv
  OBVIOUS
<1>1. RegistryStory
  BY DEF SettlementInit, RegistryStory, DescInit, Descendants
<1>2. CauseStory /\ OwnerStory /\ ReportStory
  BY DEF SettlementInit, CauseStory, OwnerStory, WaitsForTheTightestDeadline, ReportStory
<1>3. StartupStory
  BY DEF SettlementInit, StartupStory, StartupInit, NewTask
<1> QED BY <1>1, <1>2, <1>3, SettlementInitTyped DEF SettlementInv

LEMMA SettlementNextInv == SettlementInv /\ [SettlementNext]_svars => SettlementInv'
<1> SUFFICES ASSUME SettlementInv, [SettlementNext]_svars PROVE SettlementInv'
  OBVIOUS
<1>1. CASE SettlementNext
  BY <1>1, SettlementNextTyped, RegistryStep, CauseStep, OwnerStoryStep, StartupStep, ReportStep DEF SettlementInv
<1>2. CASE UNCHANGED svars
  <2>1. SettlementTyped'
    BY <1>2, SettlementNextTyped DEF SettlementInv
  <2>2. RegistryStory' /\ CauseStory'
    BY <1>2 DEF SettlementInv, svars, RegistryStory, CauseStory, Failed, LoopFailed, OwnerCancelled
  <2>3. OwnerStory' /\ StartupStory'
    BY <1>2 DEF SettlementInv, svars, OwnerStory, Frozen, InRegistry, WaitsForTheTightestDeadline, Allowance,
                StartupStory
  <2>4. ReportStory'
    BY <1>2 DEF SettlementInv, svars, ReportStory, TellsTheEnd, Frozen, InRegistry, Failed, OwnerCancelled
  <2> QED BY <2>1, <2>2, <2>3, <2>4 DEF SettlementInv
<1> QED BY <1>1, <1>2

LEMMA PermitsSuffice ==
  ASSUME SettlementInv
  PROVE  PermitMeansStopped
<1> SUFFICES ASSUME report # None, PermitsCleanup(report)
    PROVE  /\ \A l \in Loops : loop[l].st = "done" /\ loop[l].result \notin {"Panic", "Cancelled"}
           /\ \A d \in Descendants : Stopped(desc[d])
           /\ \A d \in Descendants : desc[d].st = "done" => desc[d].result = "Ok" \/ OwnerCancelled(d)
  BY DEF PermitMeansStopped
<1>1. TellsTheEnd(report) /\ Frozen
  BY DEF SettlementInv, ReportStory, PermitsCleanup, TellsTheEnd
<1>2. \A l \in Loops : loop[l].st = "done" /\ loop[l].result \notin {"Panic", "Cancelled"}
  BY <1>1 DEF SettlementInv, RegistryStory, Frozen, TellsTheEnd, PermitsCleanup
<1>3. ASSUME NEW d \in Descendants
      PROVE  /\ Stopped(desc[d])
             /\ desc[d].st = "done" => desc[d].result = "Ok" \/ OwnerCancelled(d)
  <2>1. desc[d].st = "unborn" \/ d \in collected
    BY <1>1 DEF Frozen, InRegistry
  <2>2. ~(prior \/ (d \in recorded /\ Failed(d) /\ ~OwnerCancelled(d)))
    BY <1>1 DEF TellsTheEnd, PermitsCleanup
  <2> QED BY <2>1, <2>2 DEF SettlementInv, RegistryStory, Stopped, Failed
<1> QED BY <1>2, <1>3

(* The settlement, with any loops, descendants, signal and budget: every   *)
(* variable keeps its type; a report that permits cleanup means that       *)
(* nothing runs and nothing was cut short, one that does not names a       *)
(* failure, and what started the stop is the failure that is named.        *)
THEOREM ReportsCorrect == SettlementSpec => []ReportsTellTheTruth
<1>1. SettlementInv => ReportsTellTheTruth
  <2> SUFFICES ASSUME SettlementInv PROVE ReportsTellTheTruth
    OBVIOUS
  <2>1. SettlementTypeOK
    BY TypedSuffices DEF SettlementInv
  <2>2. ReportIsConsistent
    BY NoFailureIsSuccess DEF ReportIsConsistent
  <2>3. FailureNamesTheCause
    BY DEF SettlementInv, ReportStory, NamesTheCause, FailureNamesTheCause
  <2> QED BY <2>1, <2>2, <2>3, PermitsSuffice DEF ReportsTellTheTruth
<1>2. SettlementSpec => []SettlementInv
  BY SettlementInitInv, SettlementNextInv, PTL DEF SettlementSpec
<1> QED BY <1>1, <1>2, PTL

(* Stop requests of several sources: the first cause stays, the deadline   *)
(* only comes closer and is the one the owner sleeps on unless a wake-up   *)
(* is on its way, and Initialized is never said of a loop that has ended.  *)
THEOREM StopsTighten == SettlementSpec => StopsOnlyTighten
<1>1. SettlementSpec => []SettlementInv
  BY SettlementInitInv, SettlementNextInv, PTL DEF SettlementSpec
<1>2. SettlementInv => WaitsForTheTightestDeadline /\ InitializedMeansRunning
  BY DEF SettlementInv, OwnerStory, StartupStory, InitializedMeansRunning
<1>3. SettlementInv /\ [SettlementNext]_svars =>
        [/\ request # None => /\ request'.cause = request.cause
                              /\ request'.at <= request.at
         /\ startup.state = "Stopped" => startup'.state = "Stopped"]_svars
  <2> SUFFICES ASSUME SettlementInv, SettlementNext
      PROVE  /\ request # None => request'.cause = request.cause /\ request'.at <= request.at
             /\ startup.state = "Stopped" => startup'.state = "Stopped"
    OBVIOUS
  <2>1. request # None => request'.cause = request.cause /\ request'.at <= request.at
    <3>1. CASE UNCHANGED request
      BY <3>1 DEF SettlementInv, SettlementTyped, ClockTyped, RequestType
    <3> QED BY <3>1, RequestChanges DEF SettlementInv
  <2> QED BY <2>1, StartupStep DEF SettlementInv
<1> QED BY <1>1, <1>2, <1>3, PTL DEF SettlementSpec, StopsOnlyTighten, StopOnlyTightens

=============================================================================
