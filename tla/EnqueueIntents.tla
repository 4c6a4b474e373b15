--------------------------- MODULE EnqueueIntents ---------------------------
(***************************************************************************)
(* Recording, promotion and retention of durable enqueue intents, and      *)
(* keyed enqueue beside them, statement by statement, under READ COMMITTED *)
(* with PostgreSQL's row locks and the advisory retention fence.           *)
(*                                                                         *)
(* A transaction keeps its writes to itself and publishes them at its      *)
(* commit.  A statement that has to wait for another transaction is not    *)
(* enabled; lock timeouts, statement errors, deadlock victims, shutdown    *)
(* and lost connections are rollbacks, which are possible at any point.    *)
(***************************************************************************)
EXTENDS IntentLedger, FiniteSets

CONSTANTS
  Clients,        \* application transactions that record or enqueue
  Promoters,      \* promotion passes of intent promoter loops
  Retainers,      \* queue retention transactions
  Calls,          \* what a client transaction does
  BatchLimit      \* min(requested limit, PROMOTION_BATCH_LIMIT_MAX)

(* A call names its key and request, the statements it makes, and the lock *)
(* it takes on an existing job.                                            *)
Call == [key : Keys, request : Requests, ops : {"record", "enqueue", "record_enqueue"},
         lock : {"KeyShare", "NoKeyUpdate"}]

ASSUME IntentsAssumption ==
  /\ Calls \subseteq Call
  /\ BatchLimit \in Nat \ {0}
  /\ Clients \cap Promoters = {} /\ Retainers \cap (Clients \cup Promoters) = {}

VARIABLES
  due,            \* next_promotion_at <= now()
  enabled,        \* is_enabled of the job definition
  gens,           \* jobs created per key
  txn,            \* the transaction of each actor
  locks           \* row locks and the advisory fence

ivars == <<intent, job, due, enabled, gens, txn, locks>>

Txs == Clients \cup Promoters \cup Retainers

NoCall == [key |-> NoRow, request |-> NoRow, ops |-> "none", lock |-> "NoKeyUpdate"]

(* iw and jw are the unpublished intent and job rows of the transaction.   *)
Closed == [pc |-> "closed", call |-> NoCall, try |-> 0, iw |-> <<>>, jw |-> <<>>,
           todo |-> {}, ids |-> {}, deferred |-> {}]

IntentSeen(t, k) == IF k \in DOMAIN txn[t].iw THEN txn[t].iw[k] ELSE intent[k]
JobSeen(t, k) == IF k \in DOMAIN txn[t].jw THEN txn[t].jw[k] ELSE job[k]

Lock(t, table, k, mode) == [tx |-> t, table |-> table, key |-> k, mode |-> mode]

(* PostgreSQL's conflicts of the row and advisory lock modes in use.       *)
Excludes(mode) ==
  CASE mode = "KeyShare"    -> {"Update"}
    [] mode = "NoKeyUpdate" -> {"NoKeyUpdate", "Update"}
    [] mode = "Update"      -> {"KeyShare", "NoKeyUpdate", "Update"}
    [] mode = "Shared"      -> {"Exclusive"}
    [] mode = "Exclusive"   -> {"Shared", "Exclusive"}

LockHolders(t, table, k, mode) ==
  {l.tx : l \in {l \in locks : /\ l.tx # t /\ l.table = table /\ l.key = k
                               /\ l.mode \in Excludes(mode)}}

(* INSERT ... ON CONFLICT waits for the transactions that have written a   *)
(* row of the key.                                                         *)
IntentWriters(t, k) == {u \in Txs \ {t} : k \in DOMAIN txn[u].iw}
JobWriters(t, k) == {u \in Txs \ {t} : k \in DOMAIN txn[u].jw}

IntentsInit ==
  /\ LedgerInit
  /\ due = [k \in Keys |-> TRUE]
  /\ enabled \in BOOLEAN
  /\ gens = [k \in Keys |-> 0]
  /\ txn = [t \in Txs |-> Closed]
  /\ locks = {}

Written(rows, k, row) == [i \in DOMAIN rows \cup {k} |-> IF i = k THEN row ELSE rows[i]]

Goto(t, pc) == txn' = [txn EXCEPT ![t].pc = pc]
KeyOf(t) == txn[t].call.key

-----------------------------------------------------------------------------
(* Ends of transactions.                                                   *)

(* Locks go with the transaction, its writes are published or dropped.     *)
Close(t) ==
  /\ txn' = [txn EXCEPT ![t] = Closed]
  /\ locks' = {l \in locks : l.tx # t}

Commit(t) ==
  /\ txn[t].pc = "done"
  /\ intent' = [k \in Keys |-> IntentSeen(t, k)]
  /\ job' = [k \in Keys |-> JobSeen(t, k)]
  /\ due' = [k \in Keys |-> due[k] /\ k \notin txn[t].deferred]
  /\ gens' = [k \in Keys |-> IF JobSeen(t, k) = NoRow THEN gens[k] ELSE JobSeen(t, k).gen]
  /\ Close(t)
  /\ UNCHANGED enabled

Rollback(t) ==
  /\ txn[t].pc # "closed"
  /\ Close(t)
  /\ UNCHANGED <<intent, job, due, enabled, gens>>

-----------------------------------------------------------------------------
(* record_job_enqueue_intent_read_committed_tx.                            *)

Begin(c, call) ==
  /\ txn[c].pc = "closed"
  /\ txn' = [txn EXCEPT ![c].call = call,
       ![c].pc = IF call.ops = "enqueue" THEN "insert_job" ELSE "insert_intent"]
  /\ UNCHANGED <<intent, job, due, enabled, gens, locks>>

AfterRecord(c) == IF txn[c].call.ops = "record" THEN "done" ELSE "insert_job"

(* insert_intent_if_absent.                                                *)
InsertIntent(c) ==
  LET k == KeyOf(c) IN
  /\ txn[c].pc = "insert_intent"
  /\ IntentWriters(c, k) = {}
  /\ IF intent[k] = NoRow
     THEN txn' = [txn EXCEPT ![c].pc = AfterRecord(c),
            ![c].iw = Written(@, k, [request |-> txn[c].call.request, status |-> "PENDING", job |-> 0])]
     ELSE Goto(c, "load_intent")
  /\ UNCHANGED <<intent, job, due, enabled, gens, locks>>

(* load_conflicting_intent_outcome: the row may be gone by now, and then   *)
(* the insert is tried once more.  A missing row in the second try and a   *)
(* different request are errors, that is rollbacks.                        *)
LoadIntent(c) ==
  LET k == KeyOf(c) IN
  /\ txn[c].pc = "load_intent"
  /\ LockHolders(c, "intent", k, "KeyShare") = {}
  /\ \/ /\ intent[k] = NoRow /\ txn[c].try = 0
        /\ txn' = [txn EXCEPT ![c].try = 1, ![c].pc = "insert_intent"]
        /\ UNCHANGED locks
     \/ /\ intent[k] # NoRow /\ intent[k].request = txn[c].call.request
        /\ locks' = locks \cup {Lock(c, "intent", k, "KeyShare")}
        /\ Goto(c, AfterRecord(c))
  /\ UNCHANGED <<intent, job, due, enabled, gens>>

-----------------------------------------------------------------------------
(* enqueue_job_with_existing_lock_tx_inner, of clients and promoters.      *)

(* The definition is share-locked while the row is inserted; without an    *)
(* enabled definition nothing is inserted and nothing waited for.          *)
InsertJob(t) ==
  LET k == KeyOf(t) IN
  /\ txn[t].pc = "insert_job"
  /\ enabled => JobWriters(t, k) = {}
  /\ IF enabled /\ job[k] = NoRow
     THEN /\ gens[k] < MaxGen
          /\ locks' = locks \cup {Lock(t, "definition", k, "Share")}
          /\ txn' = [txn EXCEPT ![t].pc = "enqueued",
               ![t].jw = Written(@, k, [request |-> txn[t].call.request, gen |-> gens[k] + 1])]
     ELSE /\ Goto(t, "load_job")
          /\ UNCHANGED locks
  /\ UNCHANGED <<intent, job, due, enabled, gens>>

(* Mutant: an existing job of the key is taken whatever its request.       *)
MatchesAny(t, row) == row # NoRow

(* validate_existing_idempotent_job.                                       *)
Matches(t, row) == row # NoRow /\ row.request = txn[t].call.request

(* resolve_existing_idempotent_job_tx finds the job of an equal request.   *)
LoadJob(t) ==
  LET k == KeyOf(t) IN
  /\ txn[t].pc = "load_job"
  /\ LockHolders(t, "job", k, txn[t].call.lock) = {}
  /\ Matches(t, job[k])
  /\ locks' = locks \cup {Lock(t, "job", k, txn[t].call.lock)}
  /\ Goto(t, "enqueued")
  /\ UNCHANGED <<intent, job, due, enabled, gens>>

(* The client gets its outcome; it may commit.                             *)
Enqueue(c) ==
  /\ txn[c].pc = "enqueued"
  /\ Goto(c, "done")
  /\ UNCHANGED <<intent, job, due, enabled, gens, locks>>

ClientStep(c) ==
  \/ \E call \in Calls : Begin(c, call)
  \/ InsertIntent(c) \/ LoadIntent(c)
  \/ InsertJob(c) \/ LoadJob(c) \/ Enqueue(c)
  \/ Commit(c) \/ Rollback(c)

-----------------------------------------------------------------------------
(* promote_job_enqueue_intents_for_types.                                  *)

(* Pending, due and enabled: of the pre-check and of the claiming query.   *)
Eligible(k) ==
  /\ intent[k] # NoRow /\ intent[k].status = "PENDING"
  /\ due[k] /\ enabled

(* has_eligible_job_enqueue_intents: an idle pass opens no transaction.    *)
StartPass(p) ==
  /\ txn[p].pc = "closed"
  /\ \E k \in Keys : Eligible(k)
  /\ Goto(p, "fence")
  /\ UNCHANGED <<intent, job, due, enabled, gens, locks>>

(* prepare_job_enqueue_intent_promotion_critical_section_tx.               *)
FenceShared(p) ==
  /\ txn[p].pc = "fence"
  /\ LockHolders(p, "fence", NoRow, "Shared") = {}
  /\ locks' = locks \cup {Lock(p, "fence", NoRow, "Shared")}
  /\ Goto(p, "claim")
  /\ UNCHANGED <<intent, job, due, enabled, gens>>

(* FOR NO KEY UPDATE SKIP LOCKED LIMIT: as many as there are.              *)
ClaimIntents(p) ==
  LET free == {k \in Keys : Eligible(k) /\ LockHolders(p, "intent", k, "NoKeyUpdate") = {}} IN
  /\ txn[p].pc = "claim"
  /\ \E batch \in SUBSET free :
       /\ Cardinality(batch) = BatchLimit \/ (batch = free /\ Cardinality(free) < BatchLimit)
       /\ txn' = [txn EXCEPT ![p].todo = batch, ![p].pc = "row"]
       /\ locks' = locks \cup {Lock(p, "intent", k, "NoKeyUpdate") : k \in batch}
  /\ UNCHANGED <<intent, job, due, enabled, gens>>

PromotionCall(k) ==
  [key |-> k, request |-> intent[k].request, ops |-> "promote", lock |-> "NoKeyUpdate"]

(* The row's own transition, and the next row.                             *)
MarkIntent(p, k, row) ==
  txn' = [txn EXCEPT ![p].iw = Written(@, k, row), ![p].todo = @ \ {k}, ![p].pc = "row"]

(* Mutant: a row that does not decode is passed over and stays pending.    *)
SkipMalformed(p) ==
  /\ txn[p].pc = "row"
  /\ \/ /\ txn[p].todo = {}
        /\ Goto(p, "done")
     \/ \E k \in txn[p].todo :
          IF intent[k].request \in Malformed
          THEN txn' = [txn EXCEPT ![p].todo = @ \ {k}]
          ELSE txn' = [txn EXCEPT ![p].call = PromotionCall(k), ![p].pc = "insert_job"]
  /\ UNCHANGED <<intent, job, due, enabled, gens, locks>>

(* promote_intent_with_savepoint: a row that decodes is enqueued, one that *)
(* does not is terminal.                                                   *)
NextRow(p) ==
  /\ txn[p].pc = "row"
  /\ \/ /\ txn[p].todo = {}
        /\ Goto(p, "done")
     \/ \E k \in txn[p].todo :
          IF intent[k].request \in Malformed
          THEN MarkIntent(p, k, [intent[k] EXCEPT !.status = "CONFLICTED"])
          ELSE txn' = [txn EXCEPT ![p].call = PromotionCall(k), ![p].pc = "insert_job"]
  /\ UNCHANGED <<intent, job, due, enabled, gens, locks>>

(* Mutant: a failed row is marked without returning to its savepoint.      *)
NoSavepoint(p) == txn[p].jw

(* The writes that are left after ROLLBACK TO SAVEPOINT.                   *)
SavepointWrites(p) == [k \in DOMAIN txn[p].jw \ {KeyOf(p)} |-> txn[p].jw[k]]

(* Locks taken since the savepoint are given back.                         *)
SavepointLocks(p) ==
  {l \in locks : ~(l.tx = p /\ l.key = KeyOf(p) /\ l.table \in {"job", "definition"})}

(* mark_intent_promoted_tx.                                                *)
MarkPromoted(p) ==
  LET k == KeyOf(p) IN
  /\ txn[p].pc = "enqueued"
  /\ MarkIntent(p, k, [intent[k] EXCEPT !.status = "PROMOTED", !.job = JobSeen(p, k).gen])
  /\ UNCHANGED <<intent, job, due, enabled, gens, locks>>

(* IntentEnqueueResolution::Conflict: the key's job has another request.   *)
MarkConflicted(p) ==
  LET k == KeyOf(p) IN
  /\ txn[p].pc = "load_job"
  /\ LockHolders(p, "job", k, "NoKeyUpdate") = {}
  /\ job[k] # NoRow /\ ~Matches(p, job[k])
  /\ locks' = locks \cup {Lock(p, "job", k, "NoKeyUpdate")}
  /\ MarkIntent(p, k, [intent[k] EXCEPT !.status = "CONFLICTED"])
  /\ UNCHANGED <<intent, job, due, enabled, gens>>

(* IntentEnqueueResolution::DefinitionUnavailable: the row is left alone.  *)
DefinitionUnavailable(p) ==
  /\ txn[p].pc = "load_job"
  /\ job[KeyOf(p)] = NoRow /\ ~enabled
  /\ txn' = [txn EXCEPT ![p].todo = @ \ {KeyOf(p)}, ![p].pc = "row"]
  /\ UNCHANGED <<intent, job, due, enabled, gens, locks>>

(* classified_intent_promotion_failure: any other query error of the row,  *)
(* lock timeouts included, defers it and keeps the rest of the batch.      *)
DeferRow(p) ==
  LET k == KeyOf(p) IN
  /\ txn[p].pc \in {"insert_job", "load_job", "enqueued"}
  /\ txn' = [txn EXCEPT ![p].jw = SavepointWrites(p), ![p].deferred = @ \cup {k},
       ![p].todo = @ \ {k}, ![p].iw = Written(@, k, intent[k]), ![p].pc = "row"]
  /\ locks' = SavepointLocks(p)
  /\ UNCHANGED <<intent, job, due, enabled, gens>>

PassStep(p) ==
  \/ StartPass(p) \/ FenceShared(p) \/ ClaimIntents(p) \/ NextRow(p)
  \/ InsertJob(p) \/ LoadJob(p)
  \/ MarkPromoted(p) \/ MarkConflicted(p) \/ DefinitionUnavailable(p) \/ DeferRow(p)
  \/ Commit(p)

PromoterStep(p) == PassStep(p) \/ Rollback(p)

-----------------------------------------------------------------------------
(* delete_promoted_job_enqueue_intents_for_jobs_tx and the application's   *)
(* queue delete in the same transaction.                                   *)

(* Candidates are selected without row locks.                              *)
SelectJobs(r) ==
  /\ txn[r].pc = "closed"
  /\ \E K \in (SUBSET {k \in Keys : job[k] # NoRow}) \ {{}} :
       txn' = [txn EXCEPT ![r].ids = {<<k, job[k].gen>> : k \in K}, ![r].pc = "fence"]
  /\ UNCHANGED <<intent, job, due, enabled, gens, locks>>

(* Mutant: the queue rows are locked before the intents.                   *)
FenceThenJobs(r) ==
  /\ txn[r].pc = "fence"
  /\ LockHolders(r, "fence", NoRow, "Exclusive") = {}
  /\ \A k \in Keys : \A g \in 1..MaxGen : <<k, g>> \in txn[r].ids =>
       LockHolders(r, "job", k, "Update") = {}
  /\ locks' = locks \cup {Lock(r, "fence", NoRow, "Exclusive")}
       \cup {Lock(r, "job", id[1], "Update") : id \in txn[r].ids}
  /\ Goto(r, "delete_intents")
  /\ UNCHANGED <<intent, job, due, enabled, gens>>

(* lock_job_enqueue_intent_retention_exclusive_tx.                         *)
FenceExclusive(r) ==
  /\ txn[r].pc = "fence"
  /\ LockHolders(r, "fence", NoRow, "Exclusive") = {}
  /\ locks' = locks \cup {Lock(r, "fence", NoRow, "Exclusive")}
  /\ Goto(r, "delete_intents")
  /\ UNCHANGED <<intent, job, due, enabled, gens>>

(* The promoted intents that name one of the jobs, to the transaction.     *)
Linked(r) ==
  {k \in Keys : /\ IntentSeen(r, k) # NoRow
                /\ IntentSeen(r, k).status = "PROMOTED"
                /\ <<k, IntentSeen(r, k).job>> \in txn[r].ids}

(* The DELETE locks its rows one after another.                            *)
DeleteIntent(r) ==
  /\ txn[r].pc = "delete_intents"
  /\ \/ /\ Linked(r) = {}
        /\ txn' = [txn EXCEPT ![r].todo = {k \in Keys : \E g \in 1..MaxGen : <<k, g>> \in txn[r].ids},
                              ![r].pc = "lock_jobs"]
        /\ UNCHANGED locks
     \/ \E k \in Linked(r) :
          /\ LockHolders(r, "intent", k, "Update") = {}
          /\ locks' = locks \cup {Lock(r, "intent", k, "Update")}
          /\ txn' = [txn EXCEPT ![r].iw = Written(@, k, NoRow)]
  /\ UNCHANGED <<intent, job, due, enabled, gens>>

(* lock_retained_jobs_tx.                                                  *)
LockJob(r) ==
  /\ txn[r].pc = "lock_jobs"
  /\ \/ /\ txn[r].todo = {}
        /\ Goto(r, "delete_jobs")
        /\ UNCHANGED locks
     \/ \E k \in txn[r].todo :
          /\ LockHolders(r, "job", k, "Update") = {}
          /\ locks' = locks \cup {Lock(r, "job", k, "Update")}
          /\ txn' = [txn EXCEPT ![r].todo = @ \ {k}]
  /\ UNCHANGED <<intent, job, due, enabled, gens>>

(* ON DELETE RESTRICT refuses a job that an intent still names.            *)
DeleteJobs(r) ==
  /\ txn[r].pc = "delete_jobs"
  /\ Linked(r) = {}
  /\ txn' = [txn EXCEPT ![r].pc = "done",
       ![r].jw = [k \in {k \in Keys : job[k] # NoRow /\ <<k, job[k].gen>> \in txn[r].ids} |-> NoRow]]
  /\ UNCHANGED <<intent, job, due, enabled, gens, locks>>

RetainerStep(r) ==
  \/ SelectJobs(r) \/ FenceExclusive(r) \/ DeleteIntent(r) \/ LockJob(r) \/ DeleteJobs(r)
  \/ Commit(r) \/ Rollback(r)

(* delete_promoted_job_enqueue_intents_before: one statement, SKIP LOCKED. *)
DeleteBefore ==
  /\ \E K \in (SUBSET {k \in Keys : /\ intent[k] # NoRow /\ intent[k].status = "PROMOTED"
                                    /\ \A l \in locks : ~(l.table = "intent" /\ l.key = k)}) \ {{}} :
       intent' = [k \in Keys |-> IF k \in K THEN NoRow ELSE intent[k]]
  /\ UNCHANGED <<job, due, enabled, gens, txn, locks>>

-----------------------------------------------------------------------------
(* A definition is enabled or disabled when no enqueue holds it.           *)
SetEnabled ==
  /\ \A l \in locks : l.table # "definition"
  /\ enabled' = ~enabled
  /\ UNCHANGED <<intent, job, due, gens, txn, locks>>

(* The backoff of a deferred intent ends.                                  *)
BecomesDue(k) ==
  /\ ~due[k]
  /\ due' = [due EXCEPT ![k] = TRUE]
  /\ UNCHANGED <<intent, job, enabled, gens, txn, locks>>

IntentsNext ==
  \/ \E c \in Clients : ClientStep(c)
  \/ \E p \in Promoters : PromoterStep(p)
  \/ \E r \in Retainers : RetainerStep(r)
  \/ DeleteBefore
  \/ SetEnabled
  \/ \E k \in Keys : BecomesDue(k)

IntentsSpec == IntentsInit /\ [][IntentsNext]_ivars

(* A promoter loop runs pass after pass, backoffs end, and so does every   *)
(* transaction of a client.                                                *)
IntentsFairSpec ==
  /\ IntentsSpec
  /\ \A c \in Clients : WF_ivars(Commit(c) \/ Rollback(c))
  /\ \A k \in Keys : WF_ivars(BecomesDue(k))
  /\ \A p \in Promoters : WF_ivars(PassStep(p))

-----------------------------------------------------------------------------
(* Properties.                                                             *)

TxnRecord ==
  [pc : {"closed", "insert_intent", "load_intent", "insert_job", "load_job", "enqueued", "done",
         "fence", "claim", "row", "delete_intents", "lock_jobs", "delete_jobs"},
   call : Call \cup {NoCall} \cup [key : Keys, request : Requests, ops : {"promote"},
                                   lock : {"NoKeyUpdate"}],
   try : 0..1,
   iw : UNION {[K -> IntentRow \cup {NoRow}] : K \in SUBSET Keys},
   jw : UNION {[K -> JobRow \cup {NoRow}] : K \in SUBSET Keys},
   todo : SUBSET Keys, ids : SUBSET (Keys \X (1..MaxGen)), deferred : SUBSET Keys]

(* Rows, transactions and locks keep their types.                          *)
IntentsTypeOK ==
  /\ LedgerTypeOK
  /\ due \in [Keys -> BOOLEAN] /\ enabled \in BOOLEAN /\ gens \in [Keys -> 0..MaxGen]
  /\ txn \in [Txs -> TxnRecord]
  /\ \A l \in locks : l.tx \in Txs

(* The ledger of the committed rows; what transactions hold unpublished,   *)
(* their locks and the promotion clock have no counterpart in it.          *)
Ledger == INSTANCE IntentLedger WITH intent <- intent, job <- job

(* The statements implement the ledger: whatever interleaves, a commit     *)
(* takes every key through one of the ledger's changes, and no other step  *)
(* of a transaction changes it.                                            *)
ImplementsLedger == Ledger!LedgerSpec

(* A batch keeps no half of a row: a job that a pass has written belongs   *)
(* to the intent it marked promoted with it, whichever other row failed.   *)
BatchRowsAreWhole ==
  \A p \in Promoters : txn[p].pc \in {"row", "done"} =>
    \A k \in DOMAIN txn[p].jw :
      /\ k \in DOMAIN txn[p].iw
      /\ txn[p].iw[k].status = "PROMOTED" /\ txn[p].iw[k].job = txn[p].jw[k].gen

(* delete_promoted_job_enqueue_intents_for_jobs_tx, "The fence prevents a  *)
(* pending intent from becoming linked between the intent cleanup and the  *)
(* caller's queue delete": RESTRICT never refuses the delete.              *)
RetentionIsNotRefused ==
  \A r \in Retainers : txn[r].pc \in {"lock_jobs", "delete_jobs"} => Linked(r) = {}

(* record_job_enqueue_intent_tx, "A shared key lock protects an existing   *)
(* intent from deletion for the rest of the caller transaction": a client  *)
(* never commits on an intent that is gone.                                *)
RecordedIntentsStay ==
  \A c \in Clients :
    (/\ txn[c].call.ops \in {"record", "record_enqueue"}
     /\ txn[c].pc \in {"insert_job", "load_job", "enqueued", "done"}) =>
      /\ IntentSeen(c, KeyOf(c)) # NoRow
      /\ IntentSeen(c, KeyOf(c)).request = txn[c].call.request

(* The transactions that t has to wait for before its next statement.      *)
WaitsFor(t) ==
  LET k == KeyOf(t) IN
  CASE txn[t].pc = "insert_intent" -> IntentWriters(t, k)
    [] txn[t].pc = "load_intent" -> LockHolders(t, "intent", k, "KeyShare")
    [] txn[t].pc = "insert_job" -> IF enabled THEN JobWriters(t, k) ELSE {}
    [] txn[t].pc = "load_job" -> LockHolders(t, "job", k, txn[t].call.lock)
    [] txn[t].pc = "fence" ->
         LockHolders(t, "fence", NoRow, IF t \in Retainers THEN "Exclusive" ELSE "Shared")
    [] txn[t].pc = "delete_intents" ->
         UNION {LockHolders(t, "intent", i, "Update") : i \in Linked(t)}
    [] txn[t].pc = "lock_jobs" ->
         UNION {LockHolders(t, "job", i, "Update") : i \in txn[t].todo}
    [] OTHER -> {}

(* No set of transactions waits for each other: recording before job locks *)
(* and intents before jobs is an order that all of them follow.            *)
NoWaitCycle ==
  ~ \E S \in (SUBSET Txs) \ {{}} : \A t \in S : WaitsFor(t) \cap S # {}

(* A pass fails: it is rolled back, or defers a row that it could promote. *)
Failure ==
  \E p \in Promoters :
    \/ Rollback(p) /\ ~Commit(p)
    \/ DeferRow(p) /\ ~(txn[p].pc = "load_job" /\ job[KeyOf(p)] = NoRow)

(* Once its type stays enabled and passes no longer fail, every pending    *)
(* intent is promoted, found in conflict or, after that, removed: earlier  *)
(* deferrals and passes that were rolled back, jobs of the application and *)
(* other promoters only delay it.                                          *)
PendingIntentsResolve ==
  (<>[]enabled /\ <>[][~Failure]_ivars) =>
    \A k \in Keys : (intent[k] # NoRow /\ intent[k].status = "PENDING") ~>
                      (intent[k] = NoRow \/ intent[k].status # "PENDING")

(* Intents and jobs agree: a promoted intent names a job made from its     *)
(* request, a batch of a promotion pass keeps no half of a row that        *)
(* failed, retention is never refused by an intent it has just unlinked,   *)
(* and an intent that a client recorded stays until the client commits.    *)
IntentsAreSound ==
  /\ IntentsTypeOK
  /\ PromotedIntentsHaveTheirJob
  /\ BatchRowsAreWhole
  /\ RetentionIsNotRefused
  /\ RecordedIntentsStay
=============================================================================
