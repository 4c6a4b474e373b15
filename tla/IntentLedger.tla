---------------------------- MODULE IntentLedger ----------------------------
(***************************************************************************)
(* What durable enqueue intents promise, whatever transactions implement   *)
(* it: for every idempotency identity (job type, organization, key) a      *)
(* committed intent row, a committed keyed job row, and the ways they may  *)
(* change together.                                                        *)
(***************************************************************************)
EXTENDS Naturals

CONSTANTS
  Keys,           \* idempotency identities
  Requests,       \* canonical request snapshots
  Malformed,      \* requests whose persisted columns a promoter cannot decode
  MaxGen,         \* bound: jobs ever created per key
  NoRow           \* no such row

ASSUME LedgerAssumption ==
  /\ Malformed \subseteq Requests
  /\ MaxGen \in Nat \ {0}
  /\ NoRow \notin [request : Requests, gen : 1..MaxGen]
  /\ NoRow \notin [request : Requests, status : {"PENDING", "PROMOTED", "CONFLICTED"},
                   job : 0..MaxGen]

VARIABLES
  intent,         \* committed rows of job_enqueue_intents
  job             \* committed keyed rows of job_queue

lvars == <<intent, job>>

Statuses == {"PENDING", "PROMOTED", "CONFLICTED"}
IntentRow == [request : Requests, status : Statuses, job : 0..MaxGen]
JobRow == [request : Requests, gen : 1..MaxGen]

LedgerTypeOK ==
  /\ intent \in [Keys -> IntentRow \cup {NoRow}]
  /\ job \in [Keys -> JobRow \cup {NoRow}]

LedgerInit ==
  /\ intent = [k \in Keys |-> NoRow]
  /\ job = [k \in Keys |-> NoRow]

-----------------------------------------------------------------------------
(* Changes of the two rows of a key, as relations between old and new rows. *)

JobKept(j, new) == new = j
JobCreated(j, new, r) == j = NoRow /\ new \in JobRow /\ new.request = r
JobRemoved(j, new) == j \in JobRow /\ new = NoRow

(* A record, with or without the enqueue of the same request beside it.    *)
Recorded(i, newi, j, newj) ==
  /\ i = NoRow
  /\ \E r \in Requests :
       /\ newi = [request |-> r, status |-> "PENDING", job |-> 0]
       /\ JobKept(j, newj) \/ JobCreated(j, newj, r)

Enqueued(i, newi, j, newj) ==
  /\ newi = i
  /\ \E r \in Requests : JobCreated(j, newj, r)

(* The intent names a job of its own request that exists from then on.     *)
Promoted(i, newi, j, newj) ==
  /\ i \in IntentRow /\ i.status = "PENDING"
  /\ JobKept(j, newj) \/ JobCreated(j, newj, i.request)
  /\ newj \in JobRow /\ newj.request = i.request
  /\ newi = [i EXCEPT !.status = "PROMOTED", !.job = newj.gen]

(* Only for a request that cannot be decoded, or whose key belongs to a    *)
(* job of another request.                                                 *)
Conflicted(i, newi, j, newj) ==
  /\ i \in IntentRow /\ i.status = "PENDING"
  /\ JobKept(j, newj)
  /\ i.request \in Malformed \/ (j \in JobRow /\ j.request # i.request)
  /\ newi = [i EXCEPT !.status = "CONFLICTED"]

(* Queue retention removes a job together with the intent that names it.   *)
Retained(i, newi, j, newj) ==
  /\ JobRemoved(j, newj)
  /\ IF i \in IntentRow /\ i.status = "PROMOTED" THEN i.job = j.gen /\ newi = NoRow
                                                 ELSE newi = i

(* Retention by age removes only the intent.                               *)
Expired(i, newi, j, newj) ==
  /\ i \in IntentRow /\ i.status = "PROMOTED"
  /\ newi = NoRow
  /\ JobKept(j, newj)

KeyStep(i, newi, j, newj) ==
  \/ newi = i /\ newj = j
  \/ Recorded(i, newi, j, newj)
  \/ Enqueued(i, newi, j, newj)
  \/ Promoted(i, newi, j, newj)
  \/ Conflicted(i, newi, j, newj)
  \/ Retained(i, newi, j, newj)
  \/ Expired(i, newi, j, newj)

(* A transaction may change the rows of several keys.                      *)
LedgerNext ==
  /\ intent' \in [Keys -> IntentRow \cup {NoRow}]
  /\ job' \in [Keys -> JobRow \cup {NoRow}]
  /\ \A k \in Keys : KeyStep(intent[k], intent'[k], job[k], job'[k])

LedgerSpec == LedgerInit /\ [][LedgerNext]_lvars

-----------------------------------------------------------------------------
(* fk_job_enqueue_intents_promoted_job and the comparison of snapshots: a  *)
(* promoted intent names an existing job of its key, and that job was      *)
(* created from the same request.                                          *)
PromotedIntentsHaveTheirJob ==
  \A k \in Keys : (intent[k] # NoRow /\ intent[k].status = "PROMOTED") =>
    /\ job[k] # NoRow
    /\ job[k].gen = intent[k].job
    /\ job[k].request = intent[k].request
=============================================================================
