------------------------------ MODULE AtomicRun ------------------------------
(***************************************************************************)
(* What the transactions of a workflow run promise to those who look at    *)
(* its steps: each of them happens at once.  A step starts, is given back  *)
(* or ends, steps are appended, or the run is canceled; what an end or an  *)
(* append makes possible is done with it, and nothing else changes.  There *)
(* are no counters, locks, queues or jobs.                                 *)
(***************************************************************************)

CONSTANTS
  Steps,       \* ids of the steps
  External,    \* steps that are completed from outside
  Edges,       \* dependencies, <<prerequisite, dependent>>
  OnSuccess,   \* dependencies with release mode ON_SUCCESS
  Appended,    \* steps of the append request
  Window       \* its append window step

VARIABLES
  status,      \* of each step
  run          \* status of the run

avars == <<status, run>>

Over == {"SUCCEEDED", "FAILED", "CANCELED"}
OpenRun == {"RUNNING", "WAITING_FOR_EXTERNAL"}

Prereqs(d) == {p \in Steps : <<p, d>> \in Edges}
ReleasedAs(d) == IF d \in External THEN "WAITING_FOR_EXTERNAL" ELSE "ENQUEUED"

RunStatus ==
  LET with(set) == \E s \in Steps : status[s] \in set IN
  IF with({"BLOCKED", "ENQUEUED", "RUNNING"}) THEN "RUNNING"
  ELSE IF with({"WAITING_FOR_EXTERNAL"}) THEN "WAITING_FOR_EXTERNAL"
  ELSE IF with({"FAILED", "CANCELED"}) THEN "COMPLETED_WITH_ERRORS"
  ELSE "SUCCEEDED"

AtomicInit ==
  /\ status = [s \in Steps |-> IF s \in Appended THEN "ABSENT"
                               ELSE IF Prereqs(s) # {} THEN "BLOCKED" ELSE ReleasedAs(s)]
  /\ run = RunStatus

(* What becomes of a blocked step whose prerequisites are over.            *)
Outcome(d, after) ==
  IF \E p \in Prereqs(d) : <<p, d>> \in OnSuccess /\ after[p] # "SUCCEEDED" THEN "CANCELED" ELSE ReleasedAs(d)

(* The steps are as before, and every blocked step whose prerequisites are *)
(* over is released or canceled, those canceled here included.             *)
Settles(before) ==
  /\ status' = [d \in Steps |-> IF before[d] = "BLOCKED" /\ \A p \in Prereqs(d) : status'[p] \in Over
                                THEN Outcome(d, status') ELSE before[d]]
  /\ run' = RunStatus'

Start(s) == status[s] = "ENQUEUED" /\ status' = [status EXCEPT ![s] = "RUNNING"] /\ UNCHANGED run
GiveBack(s) == status[s] = "RUNNING" /\ status' = [status EXCEPT ![s] = "ENQUEUED"] /\ UNCHANGED run

End(s, outcome) ==
  /\ status[s] \in {"RUNNING", "WAITING_FOR_EXTERNAL"}
  /\ Settles([status EXCEPT ![s] = outcome])

AppendSteps ==
  /\ run \in OpenRun /\ status[Window] = "WAITING_FOR_EXTERNAL"
  /\ \A s \in Appended : status[s] = "ABSENT"
  /\ Settles([s \in Steps |-> IF s \in Appended THEN "BLOCKED" ELSE status[s]])

CancelRun ==
  /\ run \in OpenRun
  /\ run' = "CANCELED"
  /\ status' = [s \in Steps |-> IF status[s] \in Over \cup {"ABSENT"} THEN status[s] ELSE "CANCELED"]

AtomicNext ==
  \/ \E s \in Steps : Start(s) \/ GiveBack(s) \/ \E outcome \in {"SUCCEEDED", "FAILED"} : End(s, outcome)
  \/ AppendSteps \/ CancelRun

AtomicSpec == AtomicInit /\ [][AtomicNext]_avars
=============================================================================
