----------------------- MODULE IntentsSchedulesProofs -----------------------
(***************************************************************************)
(* Proofs about the transactions of durable enqueue intents, that they     *)
(* implement the ledger and never wait in a circle, and about those of     *)
(* schedules and definitions.                                              *)
(***************************************************************************)
EXTENDS EnqueueIntents, Schedules, WellFoundedInduction, TLAPS

-----------------------------------------------------------------------------
(* Records of transactions.                                                *)

TxnShape(x) ==
  x = [pc |-> x.pc, call |-> x.call, try |-> x.try, iw |-> x.iw, jw |-> x.jw,
       todo |-> x.todo, ids |-> x.ids, deferred |-> x.deferred]

Promotions == [key : Keys, request : Requests, ops : {"promote"}, lock : {"NoKeyUpdate"}]
IntentWrites == UNION {[K -> IntentRow \cup {NoRow}] : K \in SUBSET Keys}
JobWrites == UNION {[K -> JobRow \cup {NoRow}] : K \in SUBSET Keys}

TxnTyped(x) ==
  /\ TxnShape(x)
  /\ x.call \in Call \cup {NoCall} \cup Promotions
  /\ x.try \in 0..1 /\ x.iw \in IntentWrites /\ x.jw \in JobWrites
  /\ x.todo \subseteq Keys /\ x.ids \subseteq Keys \X (1..MaxGen) /\ x.deferred \subseteq Keys

Holds(t, table, k, mode) == Lock(t, table, k, mode) \in locks
OwnLocks(t) == {l \in locks : l.tx = t}
NoLocks(t) == \A l \in locks : l.tx # t

Modes(table) ==
  IF table = "fence" THEN {"Shared", "Exclusive"}
  ELSE IF table = "definition" THEN {"Share"} ELSE {"KeyShare", "NoKeyUpdate", "Update"}

(* Rows, and the count of the jobs of a key.                               *)
RowsSound ==
  /\ LedgerTypeOK
  /\ due \in [Keys -> BOOLEAN] /\ enabled \in BOOLEAN /\ gens \in [Keys -> 0..MaxGen]
  /\ \A k \in Keys : job[k] # NoRow => job[k].gen = gens[k]
  /\ PromotedIntentsHaveTheirJob

TxnsTyped == DOMAIN txn = Txs /\ \A t \in Txs : TxnTyped(txn[t])

(* No lock is granted beside one that excludes it.                         *)
LocksSound ==
  /\ \A l \in locks : /\ l = Lock(l.tx, l.table, l.key, l.mode)
                      /\ l.tx \in Txs /\ l.table \in {"intent", "job", "fence", "definition"}
                      /\ l.mode \in Modes(l.table)
  /\ \A l, m \in locks : (/\ l.tx # m.tx /\ l.table = m.table /\ l.key = m.key
                          /\ l.table # "definition") => l.mode \notin Excludes(m.mode)

(* Two transactions that insert have not written one key.                  *)
WritersApart ==
  /\ \A t, u \in Clients \cup Promoters : t # u => DOMAIN txn[t].jw \cap DOMAIN txn[u].jw = {}
  /\ \A t, u \in Clients : t # u => DOMAIN txn[t].iw \cap DOMAIN txn[u].iw = {}

(* What a client has written and locked, by the statement it is at.        *)
ClientStory(c) ==
  LET x == txn[c]
      k == x.call.key
  IN  /\ x.pc \in {"closed", "insert_intent", "load_intent", "insert_job", "load_job", "enqueued", "done"}
      /\ x.pc = "closed" => x = Closed
      /\ x.pc # "closed" => x.call \in Calls
      /\ x.pc \in {"closed", "insert_intent", "load_intent"} =>
           DOMAIN x.iw = {} /\ DOMAIN x.jw = {} /\ NoLocks(c)
      /\ DOMAIN x.iw \subseteq {k} /\ DOMAIN x.jw \subseteq {k}
      /\ k \in DOMAIN x.iw =>
           /\ intent[k] = NoRow
           /\ x.iw[k] = [request |-> x.call.request, status |-> "PENDING", job |-> 0]
      /\ k \in DOMAIN x.jw =>
           /\ x.pc \in {"enqueued", "done"} /\ job[k] = NoRow /\ gens[k] < MaxGen
           /\ x.jw[k] = [request |-> x.call.request, gen |-> gens[k] + 1]
      /\ x.pc \in {"insert_job", "load_job", "enqueued", "done"} /\ x.call.ops # "enqueue" =>
           \/ k \in DOMAIN x.iw
           \/ intent[k] # NoRow /\ intent[k].request = x.call.request /\ Holds(c, "intent", k, "KeyShare")
      /\ x.pc \in {"insert_job", "load_job"} => \A l \in locks : l.tx = c => l.table = "intent"

(* The job of a row that is to be promoted, as its pass sees it.           *)
HasJob(p, i) == JobSeen(p, i) # NoRow /\ JobSeen(p, i).request = intent[i].request

Resolved(p, i) ==
  LET x == txn[p]
  IN  \/ x.iw[i] = intent[i] /\ i \notin DOMAIN x.jw
      \/ /\ x.iw[i] = [intent[i] EXCEPT !.status = "CONFLICTED"] /\ i \notin DOMAIN x.jw
         /\ intent[i].request \in Malformed \/ (job[i] # NoRow /\ job[i].request # intent[i].request)
      \/ /\ x.iw[i] = [intent[i] EXCEPT !.status = "PROMOTED", !.job = JobSeen(p, i).gen]
         /\ HasJob(p, i)

(* What a pass has claimed is pending and locked, and each row it has      *)
(* dealt with is deferred, in conflict, or promoted with its job.          *)
PromoterStory(p) ==
  LET x == txn[p]
      k == x.call.key
  IN  /\ x.pc \in {"closed", "fence", "claim", "row", "insert_job", "load_job", "enqueued", "done"}
      /\ x.pc = "closed" => x = Closed
      /\ x.pc \in {"closed", "fence"} => NoLocks(p)
      /\ x.pc \in {"closed", "fence", "claim"} => x.todo = {} /\ DOMAIN x.iw = {} /\ DOMAIN x.jw = {}
      /\ x.pc \notin {"closed", "fence"} => Holds(p, "fence", NoRow, "Shared")
      /\ x.todo \cap DOMAIN x.iw = {}
      /\ \A i \in x.todo \cup DOMAIN x.iw :
           intent[i] # NoRow /\ intent[i].status = "PENDING" /\ Holds(p, "intent", i, "NoKeyUpdate")
      /\ x.pc \in {"insert_job", "load_job", "enqueued"} =>
           k \in x.todo /\ x.call = PromotionCall(k)
      /\ \A i \in DOMAIN x.jw :
           /\ job[i] = NoRow /\ gens[i] < MaxGen
           /\ x.jw[i] = [request |-> intent[i].request, gen |-> gens[i] + 1]
           /\ \/ i \in DOMAIN x.iw
              \/ i = k /\ x.pc = "enqueued"
      /\ x.pc = "enqueued" => HasJob(p, k)
      /\ \A i \in DOMAIN x.iw : Resolved(p, i)
      /\ \A l \in locks : l.tx = p /\ l.table = "job" => Holds(p, "intent", l.key, "NoKeyUpdate")

(* A retention transaction past its fence has unlinked what it deletes.    *)
RetainerStory(r) ==
  LET x == txn[r]
  IN  /\ x.pc \in {"closed", "fence", "delete_intents", "lock_jobs", "delete_jobs", "done"}
      /\ x.pc = "closed" => x = Closed
      /\ x.pc \in {"closed", "fence"} => NoLocks(r) /\ DOMAIN x.iw = {}
      /\ x.pc # "done" => DOMAIN x.jw = {}
      /\ x.pc \notin {"closed", "fence"} => Holds(r, "fence", NoRow, "Exclusive")
      /\ \A i \in DOMAIN x.iw :
           /\ x.iw[i] = NoRow /\ intent[i] # NoRow /\ intent[i].status = "PROMOTED"
           /\ Holds(r, "intent", i, "Update")
      /\ x.pc \in {"lock_jobs", "delete_jobs", "done"} =>
           \A i \in Keys : (/\ intent[i] # NoRow /\ intent[i].status = "PROMOTED"
                            /\ <<i, intent[i].job>> \in x.ids) => i \in DOMAIN x.iw
      /\ \A i \in DOMAIN x.jw : x.jw[i] = NoRow /\ job[i] # NoRow /\ <<i, job[i].gen>> \in x.ids
      /\ x.pc = "delete_intents" => \A l \in locks : l.tx = r => l.table # "job"

IntentsInv ==
  /\ RowsSound /\ TxnsTyped /\ LocksSound /\ WritersApart
  /\ \A c \in Clients : ClientStory(c)
  /\ \A p \in Promoters : PromoterStory(p)
  /\ \A r \in Retainers : RetainerStory(r)

-----------------------------------------------------------------------------
(* Facts about writes and locks.                                           *)

LEMMA RowFacts ==
  /\ NoRow \notin JobRow /\ NoRow \notin IntentRow
  /\ MaxGen \in Nat \ {0}
BY LedgerAssumption DEF JobRow, IntentRow, Statuses

(* A write replaces the row of its key and leaves the others.              *)
LEMMA WrittenRows ==
  \A f, k, row :
    /\ DOMAIN Written(f, k, row) = DOMAIN f \cup {k}
    /\ Written(f, k, row)[k] = row
    /\ \A i \in DOMAIN f : i # k => Written(f, k, row)[i] = f[i]
BY DEF Written

LEMMA WrittenIntents ==
  ASSUME NEW f \in IntentWrites, NEW k \in Keys, NEW row \in IntentRow \cup {NoRow}
  PROVE  Written(f, k, row) \in IntentWrites
<1>1. PICK K \in SUBSET Keys : f \in [K -> IntentRow \cup {NoRow}]
  BY DEF IntentWrites
<1>2. Written(f, k, row) \in [K \cup {k} -> IntentRow \cup {NoRow}]
  BY <1>1 DEF Written
<1> QED BY <1>2 DEF IntentWrites

LEMMA WrittenJobs ==
  ASSUME NEW f \in JobWrites, NEW k \in Keys, NEW row \in JobRow \cup {NoRow}
  PROVE  Written(f, k, row) \in JobWrites
<1>1. PICK K \in SUBSET Keys : f \in [K -> JobRow \cup {NoRow}]
  BY DEF JobWrites
<1>2. Written(f, k, row) \in [K \cup {k} -> JobRow \cup {NoRow}]
  BY <1>1 DEF Written
<1> QED BY <1>2 DEF JobWrites

LEMMA WritesTyped ==
  /\ \A f \in IntentWrites : DOMAIN f \subseteq Keys /\ \A i \in DOMAIN f : f[i] \in IntentRow \cup {NoRow}
  /\ \A f \in JobWrites : DOMAIN f \subseteq Keys /\ \A i \in DOMAIN f : f[i] \in JobRow \cup {NoRow}
BY DEF IntentWrites, JobWrites

LEMMA NothingWritten == <<>> \in IntentWrites /\ <<>> \in JobWrites /\ DOMAIN <<>> = {}
<1>1. \A T : <<>> \in [{} -> T]
  OBVIOUS
<1>2. {} \in SUBSET Keys
  OBVIOUS
<1> QED BY <1>1, <1>2 DEF IntentWrites, JobWrites

LocksOn(t, table, K, mode) == {Lock(t, table, k, mode) : k \in K}

(* Locks of one table and mode, that no other transaction stands against.  *)
LEMMA LocksGranted ==
  ASSUME LocksSound, NEW t \in Txs, NEW table \in {"intent", "job", "fence"}, NEW mode \in Modes(table),
         NEW K \in SUBSET (Keys \cup {NoRow}), \A k \in K : LockHolders(t, table, k, mode) = {},
         locks' = locks \cup LocksOn(t, table, K, mode)
  PROVE  LocksSound'
<1>1. ASSUME NEW l \in locks'
      PROVE  \/ l \in locks
             \/ /\ l = Lock(t, table, l.key, mode) /\ l.key \in K
                /\ l.tx = t /\ l.table = table /\ l.mode = mode
  BY DEF Lock, LocksOn
<1>2. ASSUME NEW l \in locks'
      PROVE  /\ l = Lock(l.tx, l.table, l.key, l.mode)
             /\ l.tx \in Txs /\ l.table \in {"intent", "job", "fence", "definition"}
             /\ l.mode \in Modes(l.table)
  BY <1>1 DEF LocksSound
<1>3. \A a, b \in {"KeyShare", "NoKeyUpdate", "Update", "Shared", "Exclusive"} :
        a \in Excludes(b) <=> b \in Excludes(a)
  BY DEF Excludes
<1>4. ASSUME NEW l \in locks, l.tx # t, l.table = table, l.key \in K
      PROVE  l.mode \notin Excludes(mode) /\ mode \notin Excludes(l.mode)
  <2>1. l.mode \notin Excludes(mode)
    BY <1>4 DEF LockHolders
  <2>2. l.mode \in Modes(table)
    BY <1>4 DEF LocksSound
  <2>3. /\ l.mode \in {"KeyShare", "NoKeyUpdate", "Update", "Shared", "Exclusive"}
        /\ mode \in {"KeyShare", "NoKeyUpdate", "Update", "Shared", "Exclusive"}
    BY <2>2 DEF Modes
  <2> QED BY <1>3, <2>1, <2>3
<1>5. ASSUME NEW l \in locks', NEW m \in locks', l.tx # m.tx, l.table = m.table, l.key = m.key,
             l.table # "definition"
      PROVE  l.mode \notin Excludes(m.mode)
  <2>1. CASE l \in locks /\ m \in locks
    BY <1>5, <2>1 DEF LocksSound
  <2>2. CASE l \in locks /\ m \notin locks
    BY <1>1, <1>4, <1>5, <2>2
  <2>3. CASE l \notin locks /\ m \in locks
    BY <1>1, <1>4, <1>5, <2>3
  <2>4. CASE l \notin locks /\ m \notin locks
    BY <1>1, <1>5, <2>4
  <2> QED BY <2>1, <2>2, <2>3, <2>4
<1> QED BY <1>2, <1>5 DEF LocksSound

LEMMA LockGranted ==
  ASSUME LocksSound, NEW t \in Txs, NEW table \in {"intent", "job", "fence"}, NEW mode \in Modes(table),
         NEW k \in Keys \cup {NoRow}, LockHolders(t, table, k, mode) = {},
         locks' = locks \cup {Lock(t, table, k, mode)}
  PROVE  LocksSound'
<1>1. locks' = locks \cup LocksOn(t, table, {k}, mode)
  BY DEF LocksOn
<1>2. \A i \in {k} : LockHolders(t, table, i, mode) = {}
  OBVIOUS
<1>3. {k} \in SUBSET (Keys \cup {NoRow})
  OBVIOUS
<1> QED BY <1>1, <1>2, <1>3, LocksGranted

LEMMA LocksReleased ==
  ASSUME LocksSound, locks' \subseteq locks
  PROVE  LocksSound'
BY DEF LocksSound


-----------------------------------------------------------------------------
(* What one transaction does leaves the stories of the others as they are. *)

SameFor(u) == txn'[u] = txn[u] /\ OwnLocks(u)' = OwnLocks(u)

LEMMA OwnLocksKept ==
  ASSUME NEW u \in Txs, OwnLocks(u)' = OwnLocks(u)
  PROVE  \A l : (l \in locks' /\ l.tx = u) <=> (l \in locks /\ l.tx = u)
<1>1. \A l : l \in OwnLocks(u)' <=> l \in OwnLocks(u)
  OBVIOUS
<1> QED BY <1>1 DEF OwnLocks

LEMMA HoldsKept ==
  ASSUME NEW u \in Txs, OwnLocks(u)' = OwnLocks(u)
  PROVE  /\ \A table, k, mode : Holds(u, table, k, mode)' <=> Holds(u, table, k, mode)
         /\ NoLocks(u)' <=> NoLocks(u)
<1>1. \A l : (l \in locks' /\ l.tx = u) <=> (l \in locks /\ l.tx = u)
  BY OwnLocksKept
<1>2. ASSUME NEW table, NEW k, NEW mode
      PROVE  Holds(u, table, k, mode)' <=> Holds(u, table, k, mode)
  <2>1. Lock(u, table, k, mode).tx = u
    BY DEF Lock
  <2> QED BY <1>1, <2>1 DEF Holds
<1>3. NoLocks(u)' <=> NoLocks(u)
  BY <1>1 DEF NoLocks
<1> QED BY <1>2, <1>3

LEMMA ClientKept ==
  ASSUME NEW c \in Clients, ClientStory(c), SameFor(c), UNCHANGED <<intent, job, gens>>
  PROVE  ClientStory(c)'
<1>1. c \in Txs /\ OwnLocks(c)' = OwnLocks(c)
  BY DEF Txs, SameFor
<1>2. /\ \A table, k, mode : Holds(c, table, k, mode)' <=> Holds(c, table, k, mode)
      /\ NoLocks(c)' <=> NoLocks(c)
  BY <1>1, HoldsKept
<1>3. \A l : (l \in locks' /\ l.tx = c) <=> (l \in locks /\ l.tx = c)
  BY <1>1, OwnLocksKept
<1> QED BY <1>2, <1>3 DEF ClientStory, SameFor

LEMMA PromoterKept ==
  ASSUME NEW p \in Promoters, PromoterStory(p), SameFor(p), UNCHANGED <<intent, job, gens>>
  PROVE  PromoterStory(p)'
<1>1. p \in Txs /\ OwnLocks(p)' = OwnLocks(p)
  BY DEF Txs, SameFor
<1>2. /\ \A table, k, mode : Holds(p, table, k, mode)' <=> Holds(p, table, k, mode)
      /\ NoLocks(p)' <=> NoLocks(p)
  BY <1>1, HoldsKept
<1>3. \A l : (l \in locks' /\ l.tx = p) <=> (l \in locks /\ l.tx = p)
  BY <1>1, OwnLocksKept
<1>4. \A i : HasJob(p, i)' = HasJob(p, i) /\ Resolved(p, i)' = Resolved(p, i) /\ PromotionCall(i)' = PromotionCall(i)
  BY DEF HasJob, Resolved, PromotionCall, JobSeen, SameFor
<1> QED BY <1>2, <1>3, <1>4 DEF PromoterStory, SameFor

LEMMA RetainerKept ==
  ASSUME NEW r \in Retainers, RetainerStory(r), SameFor(r), UNCHANGED <<intent, job, gens>>
  PROVE  RetainerStory(r)'
<1>1. r \in Txs /\ OwnLocks(r)' = OwnLocks(r)
  BY DEF Txs, SameFor
<1>2. /\ \A table, k, mode : Holds(r, table, k, mode)' <=> Holds(r, table, k, mode)
      /\ NoLocks(r)' <=> NoLocks(r)
  BY <1>1, HoldsKept
<1>3. \A l : (l \in locks' /\ l.tx = r) <=> (l \in locks /\ l.tx = r)
  BY <1>1, OwnLocksKept
<1> QED BY <1>2, <1>3 DEF RetainerStory, SameFor

(* Which of the others a transaction's writes meet.                        *)
WritesApart(t) ==
  \A u \in Txs \ {t} :
    /\ DOMAIN txn'[t].jw \cap DOMAIN txn[u].jw \subseteq DOMAIN txn[t].jw
    /\ DOMAIN txn'[t].iw \cap DOMAIN txn[u].iw \subseteq DOMAIN txn[t].iw

LEMMA WritersStayApart ==
  ASSUME WritersApart, NEW t \in Txs, \A u \in Txs \ {t} : txn'[u] = txn[u], WritesApart(t)
  PROVE  WritersApart'
<1>1. ASSUME NEW u \in Clients \cup Promoters, NEW v \in Clients \cup Promoters, u # v
      PROVE  DOMAIN txn'[u].jw \cap DOMAIN txn'[v].jw = {}
  <2>1. u \in Txs /\ v \in Txs
    BY DEF Txs
  <2>2. DOMAIN txn[u].jw \cap DOMAIN txn[v].jw = {}
    BY <1>1 DEF WritersApart
  <2>3. CASE u = t
    BY <1>1, <2>1, <2>2, <2>3 DEF WritesApart
  <2>4. CASE v = t
    BY <1>1, <2>1, <2>2, <2>4 DEF WritesApart
  <2>5. CASE u # t /\ v # t
    BY <2>1, <2>2, <2>5
  <2> QED BY <2>3, <2>4, <2>5
<1>2. ASSUME NEW u \in Clients, NEW v \in Clients, u # v
      PROVE  DOMAIN txn'[u].iw \cap DOMAIN txn'[v].iw = {}
  <2>1. u \in Txs /\ v \in Txs
    BY DEF Txs
  <2>2. DOMAIN txn[u].iw \cap DOMAIN txn[v].iw = {}
    BY <1>2 DEF WritersApart
  <2>3. CASE u = t
    BY <1>2, <2>1, <2>2, <2>3 DEF WritesApart
  <2>4. CASE v = t
    BY <1>2, <2>1, <2>2, <2>4 DEF WritesApart
  <2>5. CASE u # t /\ v # t
    BY <2>1, <2>2, <2>5
  <2> QED BY <2>3, <2>4, <2>5
<1> QED BY <1>1, <1>2 DEF WritersApart

(* A statement that publishes nothing.                                     *)
LEMMA StatementInv ==
  ASSUME IntentsInv, NEW t \in Txs, UNCHANGED <<intent, job, due, enabled, gens>>,
         DOMAIN txn' = Txs, \A u \in Txs \ {t} : SameFor(u),
         TxnTyped(txn'[t]), LocksSound', WritesApart(t),
         t \in Clients => ClientStory(t)',
         t \in Promoters => PromoterStory(t)',
         t \in Retainers => RetainerStory(t)'
  PROVE  IntentsInv'
<1>1. RowsSound'
  BY DEF IntentsInv, RowsSound, LedgerTypeOK, PromotedIntentsHaveTheirJob
<1>2. TxnsTyped'
  <2> SUFFICES ASSUME NEW u \in Txs PROVE TxnTyped(txn'[u])
    BY DEF TxnsTyped
  <2> QED BY DEF IntentsInv, TxnsTyped, SameFor
<1>3. WritersApart'
  BY WritersStayApart DEF IntentsInv, SameFor
<1>4. \A c \in Clients : ClientStory(c)'
  BY ClientKept DEF IntentsInv, Txs
<1>5. \A p \in Promoters : PromoterStory(p)'
  BY PromoterKept DEF IntentsInv, Txs
<1>6. \A r \in Retainers : RetainerStory(r)'
  BY RetainerKept DEF IntentsInv, Txs
<1> QED BY <1>1, <1>2, <1>3, <1>4, <1>5, <1>6 DEF IntentsInv


(* The transactions but t, and their locks, are as before.                 *)
LEMMA OthersSame ==
  ASSUME NEW t \in Txs, \A u \in Txs \ {t} : txn'[u] = txn[u],
         \A l : l.tx # t => (l \in locks' <=> l \in locks)
  PROVE  \A u \in Txs \ {t} : SameFor(u)
<1> SUFFICES ASSUME NEW u \in Txs \ {t} PROVE OwnLocks(u)' = OwnLocks(u)
  BY DEF SameFor
<1> QED BY DEF OwnLocks

LEMMA LockAdded ==
  ASSUME NEW t, NEW table, NEW k, NEW mode, locks' = locks \cup {Lock(t, table, k, mode)}
  PROVE  /\ \A l : l.tx # t => (l \in locks' <=> l \in locks)
         /\ \A l \in locks' : l \in locks \/ (l.tx = t /\ l.table = table /\ l.key = k /\ l.mode = mode)
         /\ Lock(t, table, k, mode) \in locks'
BY DEF Lock

-----------------------------------------------------------------------------
(* Statements of clients.                                                  *)

Places == {"load_intent", "insert_job", "load_job", "enqueued", "done", "fence", "claim",
           "delete_intents", "delete_jobs"}

LEMMA GotoFields ==
  ASSUME IntentsInv, NEW t \in Txs, NEW pc \in Places, Goto(t, pc)
  PROVE  /\ DOMAIN txn' = Txs /\ \A u \in Txs \ {t} : txn'[u] = txn[u]
         /\ TxnShape(txn'[t]) /\ txn'[t].pc = pc /\ txn'[t].call = txn[t].call
         /\ txn'[t].try = txn[t].try /\ txn'[t].iw = txn[t].iw /\ txn'[t].jw = txn[t].jw
         /\ txn'[t].todo = txn[t].todo /\ txn'[t].ids = txn[t].ids
         /\ txn'[t].deferred = txn[t].deferred
<1>1. DOMAIN txn = Txs /\ TxnShape(txn[t])
  BY DEF IntentsInv, TxnsTyped, TxnTyped
<1>2. /\ txn'[t] = [txn[t] EXCEPT !.pc = pc]
      /\ DOMAIN txn' = Txs /\ \A u \in Txs \ {t} : txn'[u] = txn[u]
  BY Zenon, <1>1 DEF Goto
<1>3. /\ TxnShape(txn'[t]) /\ txn'[t].pc = pc /\ txn'[t].call = txn[t].call
      /\ txn'[t].try = txn[t].try /\ txn'[t].iw = txn[t].iw /\ txn'[t].jw = txn[t].jw
      /\ txn'[t].todo = txn[t].todo /\ txn'[t].ids = txn[t].ids
      /\ txn'[t].deferred = txn[t].deferred
  BY <1>1, <1>2 DEF TxnShape
<1> QED BY <1>2, <1>3

LEMMA BeginInv ==
  ASSUME IntentsInv, NEW c \in Clients, NEW call \in Calls, Begin(c, call)
  PROVE  IntentsInv'
<1> DEFINE pc == IF call.ops = "enqueue" THEN "insert_job" ELSE "insert_intent"
<1>1. c \in Txs /\ DOMAIN txn = Txs /\ TxnTyped(txn[c]) /\ TxnShape(txn[c])
  BY DEF IntentsInv, TxnsTyped, TxnTyped, Txs
<1>2. /\ txn'[c] = [txn[c] EXCEPT !.call = call, !.pc = pc]
      /\ DOMAIN txn' = Txs /\ \A u \in Txs \ {c} : txn'[u] = txn[u]
  BY Zenon, <1>1 DEF Begin
<1>3. pc \in {"insert_job", "insert_intent"} /\ (pc = "insert_job" => call.ops = "enqueue")
  OBVIOUS
<1> HIDE DEF pc
<1>4. /\ TxnShape(txn'[c]) /\ txn'[c].pc = pc /\ txn'[c].call = call
      /\ txn'[c].try = txn[c].try /\ txn'[c].iw = txn[c].iw /\ txn'[c].jw = txn[c].jw
      /\ txn'[c].todo = txn[c].todo /\ txn'[c].ids = txn[c].ids
      /\ txn'[c].deferred = txn[c].deferred
  BY <1>1, <1>2 DEF TxnShape
<1>5. /\ txn[c].pc = "closed" /\ UNCHANGED <<intent, job, due, enabled, gens, locks>>
      /\ DOMAIN txn[c].iw = {} /\ DOMAIN txn[c].jw = {} /\ NoLocks(c)
  BY DEF Begin, IntentsInv, ClientStory
<1>6. TxnTyped(txn'[c])
  BY <1>1, <1>4, IntentsAssumption DEF TxnTyped
<1>7. ClientStory(c)'
  <2>1. NoLocks(c)'
    BY <1>5 DEF NoLocks
  <2> QED BY <1>3, <1>4, <1>5, <2>1 DEF ClientStory, NoLocks
<1>8. LocksSound'
  BY <1>5, LocksReleased DEF IntentsInv
<1>9. \A u \in Txs \ {c} : SameFor(u)
  BY <1>1, <1>2, <1>5, OthersSame
<1>10. WritesApart(c)
  BY <1>4 DEF WritesApart
<1>11. c \notin Promoters /\ c \notin Retainers
  BY IntentsAssumption
<1> QED BY <1>1, <1>2, <1>5, <1>6, <1>7, <1>8, <1>9, <1>10, <1>11, StatementInv

LEMMA InsertIntentInv ==
  ASSUME IntentsInv, NEW c \in Clients, InsertIntent(c)
  PROVE  IntentsInv'
<1> DEFINE k == KeyOf(c)
           row == [request |-> txn[c].call.request, status |-> "PENDING", job |-> 0]
<1>1. /\ c \in Txs /\ DOMAIN txn = Txs /\ TxnTyped(txn[c]) /\ TxnShape(txn[c])
      /\ c \notin Promoters /\ c \notin Retainers /\ ClientStory(c)
  BY IntentsAssumption DEF IntentsInv, TxnsTyped, TxnTyped, Txs
<1>2. /\ txn[c].pc = "insert_intent" /\ UNCHANGED <<intent, job, due, enabled, gens, locks>>
      /\ DOMAIN txn[c].iw = {} /\ DOMAIN txn[c].jw = {} /\ NoLocks(c) /\ txn[c].call \in Calls
  BY <1>1 DEF InsertIntent, ClientStory
<1>3. k \in Keys /\ txn[c].call.request \in Requests /\ txn[c].call.key = k
      /\ txn[c].call.ops \in {"record", "enqueue", "record_enqueue"}
  BY <1>2, IntentsAssumption DEF Call, KeyOf
<1>4. NoLocks(c)' /\ LocksSound'
  BY <1>2, LocksReleased DEF NoLocks, IntentsInv
<1>5. CASE intent[k] = NoRow
  <2>1. /\ txn'[c] = [txn[c] EXCEPT !.pc = AfterRecord(c), !.iw = Written(@, k, row)]
        /\ DOMAIN txn' = Txs /\ \A u \in Txs \ {c} : txn'[u] = txn[u]
    BY Zenon, <1>1, <1>5 DEF InsertIntent
  <2>2. AfterRecord(c) \in {"done", "insert_job"}
    BY DEF AfterRecord
  <2>3. /\ TxnShape(txn'[c]) /\ txn'[c].pc = AfterRecord(c) /\ txn'[c].call = txn[c].call
        /\ txn'[c].try = txn[c].try /\ txn'[c].iw = Written(txn[c].iw, k, row) /\ txn'[c].jw = txn[c].jw
        /\ txn'[c].todo = txn[c].todo /\ txn'[c].ids = txn[c].ids
        /\ txn'[c].deferred = txn[c].deferred
    BY <1>1, <2>1 DEF TxnShape
  <2>4. row \in IntentRow
    BY <1>3, RowFacts DEF IntentRow, Statuses
  <2> HIDE DEF k, row
  <2>5. Written(txn[c].iw, k, row) \in IntentWrites
    BY <1>1, <1>3, <2>4, WrittenIntents DEF TxnTyped
  <2>6. TxnTyped(txn'[c])
    BY <1>1, <2>3, <2>5 DEF TxnTyped
  <2>7. DOMAIN txn'[c].iw = {k} /\ txn'[c].iw[k] = row
    <3>1. /\ DOMAIN Written(txn[c].iw, k, row) = DOMAIN txn[c].iw \cup {k}
          /\ Written(txn[c].iw, k, row)[k] = row
      BY DEF Written
    <3> QED BY <1>2, <2>3, <3>1
  <2>8. \A l \in locks' : l.tx # c
    BY <1>4 DEF NoLocks
  <2>9. ClientStory(c)'
    BY <1>2, <1>3, <1>5, <2>2, <2>3, <2>7, <2>8 DEF ClientStory, row
  <2>10. \A u \in Txs \ {c} : SameFor(u)
    BY <1>1, <1>2, <2>1, OthersSame
  <2>11. WritesApart(c)
    <3>1. \A u \in Txs \ {c} : k \notin DOMAIN txn[u].iw
      BY DEF InsertIntent, IntentWriters, k
    <3> QED BY <2>3, <2>7, <3>1 DEF WritesApart
  <2> QED BY <1>1, <1>2, <1>4, <2>1, <2>6, <2>9, <2>10, <2>11, StatementInv
<1>6. CASE intent[k] # NoRow
  <2>0. Goto(c, "load_intent")
    BY Zenon, <1>6 DEF InsertIntent
  <2>1. /\ DOMAIN txn' = Txs /\ \A u \in Txs \ {c} : txn'[u] = txn[u]
        /\ TxnShape(txn'[c]) /\ txn'[c].pc = "load_intent" /\ txn'[c].call = txn[c].call
        /\ txn'[c].try = txn[c].try /\ txn'[c].iw = txn[c].iw /\ txn'[c].jw = txn[c].jw
        /\ txn'[c].todo = txn[c].todo /\ txn'[c].ids = txn[c].ids
        /\ txn'[c].deferred = txn[c].deferred
    BY <1>1, <2>0, GotoFields DEF Places
  <2>2. TxnTyped(txn'[c]) /\ WritesApart(c)
    BY <1>1, <2>1 DEF TxnTyped, WritesApart
  <2>3. ClientStory(c)'
    BY <1>2, <1>3, <1>4, <2>1 DEF ClientStory, NoLocks
  <2>4. \A u \in Txs \ {c} : SameFor(u)
    BY <1>1, <1>2, <2>1, OthersSame
  <2> QED BY <1>1, <1>2, <1>4, <2>1, <2>2, <2>3, <2>4, StatementInv
<1> QED BY <1>5, <1>6


LEMMA LoadIntentInv ==
  ASSUME IntentsInv, NEW c \in Clients, LoadIntent(c)
  PROVE  IntentsInv'
<1> DEFINE k == KeyOf(c)
<1>1. /\ c \in Txs /\ DOMAIN txn = Txs /\ TxnTyped(txn[c]) /\ TxnShape(txn[c])
      /\ c \notin Promoters /\ c \notin Retainers /\ ClientStory(c)
  BY IntentsAssumption DEF IntentsInv, TxnsTyped, TxnTyped, Txs
<1>2. /\ txn[c].pc = "load_intent" /\ UNCHANGED <<intent, job, due, enabled, gens>>
      /\ DOMAIN txn[c].iw = {} /\ DOMAIN txn[c].jw = {} /\ NoLocks(c) /\ txn[c].call \in Calls
  BY <1>1 DEF LoadIntent, ClientStory
<1>3. k \in Keys /\ txn[c].call.key = k
      /\ txn[c].call.ops \in {"record", "enqueue", "record_enqueue"}
  BY <1>2, IntentsAssumption DEF Call, KeyOf
<1>4. CASE /\ txn' = [txn EXCEPT ![c].try = 1, ![c].pc = "insert_intent"] /\ UNCHANGED locks
  <2>1. /\ txn'[c] = [txn[c] EXCEPT !.try = 1, !.pc = "insert_intent"]
        /\ DOMAIN txn' = Txs /\ \A u \in Txs \ {c} : txn'[u] = txn[u]
    BY Zenon, <1>1, <1>4
  <2>2. /\ TxnShape(txn'[c]) /\ txn'[c].pc = "insert_intent" /\ txn'[c].call = txn[c].call
        /\ txn'[c].try = 1 /\ txn'[c].iw = txn[c].iw /\ txn'[c].jw = txn[c].jw
        /\ txn'[c].todo = txn[c].todo /\ txn'[c].ids = txn[c].ids
        /\ txn'[c].deferred = txn[c].deferred
    BY <1>1, <2>1 DEF TxnShape
  <2>3. TxnTyped(txn'[c]) /\ WritesApart(c)
    BY <1>1, <2>2 DEF TxnTyped, WritesApart
  <2>4. \A u \in Txs \ {c} : SameFor(u)
    BY <1>1, <1>4, <2>1, OthersSame
  <2>5. NoLocks(c)' /\ LocksSound'
    BY <1>2, <1>4, LocksReleased DEF NoLocks, IntentsInv
  <2>6. ClientStory(c)'
    BY <1>2, <1>3, <2>2, <2>5 DEF ClientStory, NoLocks
  <2> QED BY <1>1, <1>2, <2>1, <2>3, <2>4, <2>5, <2>6, StatementInv
<1>5. CASE /\ intent[k] # NoRow /\ intent[k].request = txn[c].call.request
           /\ locks' = locks \cup {Lock(c, "intent", k, "KeyShare")}
           /\ Goto(c, AfterRecord(c))
  <2>0. AfterRecord(c) \in {"insert_job", "done"}
    BY DEF AfterRecord
  <2>1. /\ DOMAIN txn' = Txs /\ \A u \in Txs \ {c} : txn'[u] = txn[u]
        /\ TxnShape(txn'[c]) /\ txn'[c].pc = AfterRecord(c) /\ txn'[c].call = txn[c].call
        /\ txn'[c].try = txn[c].try /\ txn'[c].iw = txn[c].iw /\ txn'[c].jw = txn[c].jw
        /\ txn'[c].todo = txn[c].todo /\ txn'[c].ids = txn[c].ids
        /\ txn'[c].deferred = txn[c].deferred
    BY <1>1, <1>5, <2>0, GotoFields DEF Places
  <2>2. TxnTyped(txn'[c]) /\ WritesApart(c)
    BY <1>1, <2>1 DEF TxnTyped, WritesApart
  <2> HIDE DEF k
  <2>3. /\ \A l : l.tx # c => (l \in locks' <=> l \in locks)
        /\ \A l \in locks' : l \in locks \/ (l.tx = c /\ l.table = "intent" /\ l.key = k /\ l.mode = "KeyShare")
        /\ Lock(c, "intent", k, "KeyShare") \in locks'
    BY <1>5 DEF Lock
  <2>4. \A u \in Txs \ {c} : SameFor(u)
    BY <1>1, <2>1, <2>3, OthersSame
  <2>5. LocksSound'
    <3>1. LockHolders(c, "intent", k, "KeyShare") = {} /\ "KeyShare" \in Modes("intent")
      BY DEF LoadIntent, k, Modes
    <3> QED BY <1>1, <1>3, <1>5, <3>1, LockGranted DEF IntentsInv
  <2>6. \A l \in locks' : l.tx = c => l.table = "intent"
    BY <1>2, <2>3 DEF NoLocks
  <2>7. ClientStory(c)'
    BY <1>2, <1>3, <1>5, <2>0, <2>1, <2>3, <2>6 DEF ClientStory, Holds
  <2> QED BY <1>1, <1>2, <2>1, <2>2, <2>4, <2>5, <2>7, StatementInv
<1> QED BY <1>4, <1>5 DEF LoadIntent

LEMMA EnqueueInv ==
  ASSUME IntentsInv, NEW c \in Clients, Enqueue(c)
  PROVE  IntentsInv'
<1>1. /\ c \in Txs /\ DOMAIN txn = Txs /\ TxnTyped(txn[c]) /\ TxnShape(txn[c])
      /\ c \notin Promoters /\ c \notin Retainers /\ ClientStory(c)
  BY IntentsAssumption DEF IntentsInv, TxnsTyped, TxnTyped, Txs
<1>2. /\ txn[c].pc = "enqueued" /\ UNCHANGED <<intent, job, due, enabled, gens, locks>> /\ Goto(c, "done")
  BY DEF Enqueue
<1>3. /\ DOMAIN txn' = Txs /\ \A u \in Txs \ {c} : txn'[u] = txn[u]
      /\ TxnShape(txn'[c]) /\ txn'[c].pc = "done" /\ txn'[c].call = txn[c].call
      /\ txn'[c].try = txn[c].try /\ txn'[c].iw = txn[c].iw /\ txn'[c].jw = txn[c].jw
      /\ txn'[c].todo = txn[c].todo /\ txn'[c].ids = txn[c].ids
      /\ txn'[c].deferred = txn[c].deferred
  BY <1>1, <1>2, GotoFields DEF Places
<1>4. TxnTyped(txn'[c]) /\ WritesApart(c)
  BY <1>1, <1>3 DEF TxnTyped, WritesApart
<1>5. \A u \in Txs \ {c} : SameFor(u)
  BY <1>1, <1>2, <1>3, OthersSame
<1>6. LocksSound'
  BY <1>2, LocksReleased DEF IntentsInv
<1>7. ClientStory(c)'
  BY <1>1, <1>2, <1>3 DEF ClientStory, Holds
<1> QED BY <1>1, <1>2, <1>3, <1>4, <1>5, <1>6, <1>7, StatementInv

-----------------------------------------------------------------------------
(* Keyed enqueue, of clients and promoters.                                *)

Enqueuing == {"insert_job", "load_job", "enqueued"}

(* What an enqueue is for, and what its transaction has written so far.    *)
LEMMA EnqueueFacts ==
  ASSUME IntentsInv, NEW t \in Clients \cup Promoters, txn[t].pc \in Enqueuing
  PROVE  /\ t \in Txs /\ t \notin Retainers /\ DOMAIN txn = Txs /\ TxnTyped(txn[t]) /\ TxnShape(txn[t])
         /\ t \in Clients => t \notin Promoters /\ ClientStory(t)
         /\ t \in Promoters => t \notin Clients /\ PromoterStory(t)
         /\ KeyOf(t) \in Keys /\ txn[t].call.key = KeyOf(t) /\ txn[t].call.request \in Requests
         /\ txn[t].call.lock \in {"KeyShare", "NoKeyUpdate"}
         /\ txn[t].pc # "enqueued" => KeyOf(t) \notin DOMAIN txn[t].jw
         /\ t \in Promoters => /\ KeyOf(t) \in txn[t].todo /\ KeyOf(t) \notin DOMAIN txn[t].iw
                               /\ txn[t].call.request = intent[KeyOf(t)].request
                               /\ txn[t].call.lock = "NoKeyUpdate"
                               /\ intent[KeyOf(t)] \in IntentRow /\ intent[KeyOf(t)].status = "PENDING"
<1>1. /\ t \in Txs /\ t \notin Retainers /\ DOMAIN txn = Txs /\ TxnTyped(txn[t]) /\ TxnShape(txn[t])
      /\ t \in Clients => t \notin Promoters /\ ClientStory(t)
      /\ t \in Promoters => t \notin Clients /\ PromoterStory(t)
  BY IntentsAssumption DEF IntentsInv, TxnsTyped, TxnTyped, Txs
<1>2. CASE t \in Clients
  <2>1. txn[t].call \in Calls
    BY <1>1, <1>2 DEF ClientStory, Enqueuing
  <2>2. /\ KeyOf(t) \in Keys /\ txn[t].call.key = KeyOf(t) /\ txn[t].call.request \in Requests
        /\ txn[t].call.lock \in {"KeyShare", "NoKeyUpdate"}
    BY <2>1, IntentsAssumption DEF Call, KeyOf
  <2>3. txn[t].pc # "enqueued" => KeyOf(t) \notin DOMAIN txn[t].jw
    BY <1>1, <1>2 DEF ClientStory, Enqueuing, KeyOf
  <2> QED BY <1>1, <1>2, <2>2, <2>3
<1>3. CASE t \in Promoters
  <2>1. KeyOf(t) \in txn[t].todo /\ txn[t].call = PromotionCall(KeyOf(t))
    BY <1>1, <1>3 DEF PromoterStory, Enqueuing, KeyOf
  <2>2. KeyOf(t) \notin DOMAIN txn[t].iw /\ intent[KeyOf(t)] # NoRow /\ intent[KeyOf(t)].status = "PENDING"
    BY <1>1, <1>3, <2>1 DEF PromoterStory
  <2>3. KeyOf(t) \in Keys
    BY <1>1, <2>1 DEF TxnTyped
  <2>4. intent[KeyOf(t)] \in IntentRow
    BY <2>2, <2>3 DEF IntentsInv, RowsSound, LedgerTypeOK
  <2>5. /\ txn[t].call.key = KeyOf(t) /\ txn[t].call.request = intent[KeyOf(t)].request
        /\ txn[t].call.lock = "NoKeyUpdate"
    BY <2>1 DEF PromotionCall
  <2>6. intent[KeyOf(t)].request \in Requests
    BY <2>4 DEF IntentRow
  <2>7. txn[t].pc # "enqueued" => KeyOf(t) \notin DOMAIN txn[t].jw
    BY <1>1, <1>3, <2>2 DEF PromoterStory
  <2> QED BY <1>1, <1>3, <2>1, <2>2, <2>3, <2>4, <2>5, <2>6, <2>7
<1> QED BY <1>2, <1>3

LEMMA InsertJobInv ==
  ASSUME IntentsInv, NEW t \in Clients \cup Promoters, InsertJob(t)
  PROVE  IntentsInv'
<1>k. PICK k : k = KeyOf(t)
  OBVIOUS
<1> DEFINE row == [request |-> txn[t].call.request, gen |-> gens[k] + 1]
<1>0. txn[t].pc = "insert_job" /\ UNCHANGED <<intent, job, due, enabled, gens>>
  BY DEF InsertJob
<1>1. /\ t \in Txs /\ t \notin Retainers /\ DOMAIN txn = Txs /\ TxnTyped(txn[t]) /\ TxnShape(txn[t])
      /\ t \in Clients => t \notin Promoters /\ ClientStory(t)
      /\ t \in Promoters => t \notin Clients /\ PromoterStory(t)
      /\ k \in Keys /\ txn[t].call.key = k /\ txn[t].call.request \in Requests
      /\ k \notin DOMAIN txn[t].jw
      /\ t \in Promoters => /\ k \in txn[t].todo /\ k \notin DOMAIN txn[t].iw
                            /\ txn[t].call.request = intent[k].request
  BY <1>k, <1>0, EnqueueFacts DEF Enqueuing
<1>2. CASE enabled /\ job[k] = NoRow
  <2>1. /\ txn'[t] = [txn[t] EXCEPT !.pc = "enqueued", !.jw = Written(@, k, row)]
        /\ DOMAIN txn' = Txs /\ \A u \in Txs \ {t} : txn'[u] = txn[u]
        /\ locks' = locks \cup {Lock(t, "definition", k, "Share")}
        /\ gens[k] < MaxGen
    BY Zenon, <1>k, <1>1, <1>2 DEF InsertJob
  <2>2. \A u \in Txs \ {t} : k \notin DOMAIN txn[u].jw
    BY <1>k, <1>2 DEF InsertJob, JobWriters
  <2>3. /\ TxnShape(txn'[t]) /\ txn'[t].pc = "enqueued" /\ txn'[t].call = txn[t].call
        /\ txn'[t].try = txn[t].try /\ txn'[t].iw = txn[t].iw /\ txn'[t].jw = Written(txn[t].jw, k, row)
        /\ txn'[t].todo = txn[t].todo /\ txn'[t].ids = txn[t].ids
        /\ txn'[t].deferred = txn[t].deferred
    BY <1>1, <2>1 DEF TxnShape
  <2>4. row \in JobRow
    <3>1. gens[k] \in 0..MaxGen
      BY <1>1 DEF IntentsInv, RowsSound
    <3> QED BY <1>1, <2>1, <3>1, RowFacts DEF JobRow
  <2>5. row.request = txn[t].call.request /\ row # NoRow
    BY <2>4, RowFacts
  <2>6. /\ DOMAIN txn'[t].jw = DOMAIN txn[t].jw \cup {k} /\ txn'[t].jw[k] = row
        /\ \A i \in DOMAIN txn[t].jw : txn'[t].jw[i] = txn[t].jw[i]
    <3>1. /\ DOMAIN Written(txn[t].jw, k, row) = DOMAIN txn[t].jw \cup {k}
          /\ Written(txn[t].jw, k, row)[k] = row
          /\ \A i \in DOMAIN txn[t].jw : i # k => Written(txn[t].jw, k, row)[i] = txn[t].jw[i]
      BY DEF Written
    <3> QED BY <1>1, <2>3, <3>1
  <2>7. Written(txn[t].jw, k, row) \in JobWrites
    <3> HIDE DEF row
    <3> QED BY <1>1, <2>4, WrittenJobs DEF TxnTyped
  <2>8. TxnTyped(txn'[t])
    <3> HIDE DEF row
    <3> QED BY <1>1, <2>3, <2>7 DEF TxnTyped
  <2>9. WritesApart(t)
    BY <2>2, <2>3, <2>6 DEF WritesApart
  <2>10. /\ \A l : l.tx # t => (l \in locks' <=> l \in locks)
         /\ \A l \in locks' : l \in locks \/ (l.tx = t /\ l.table = "definition" /\ l.key = k /\ l.mode = "Share"
                                              /\ l = Lock(l.tx, l.table, l.key, l.mode))
         /\ \A l \in locks : l \in locks'
    BY <2>1 DEF Lock
  <2>11. \A u \in Txs \ {t} : SameFor(u)
    BY <1>1, <2>1, <2>10, OthersSame
  <2>12. LocksSound'
    BY <1>1, <2>10 DEF IntentsInv, LocksSound, Modes
  <2>13. t \in Clients => ClientStory(t)'
    <3>1. (DOMAIN txn'[t].jw \subseteq {k} /\ k \in DOMAIN txn'[t].jw) \/ t \notin Clients
      BY <1>0, <1>1, <2>6 DEF ClientStory
    <3> QED BY <1>0, <1>1, <1>2, <2>1, <2>3, <2>6, <2>10, <3>1 DEF ClientStory, Holds
  <2>14. t \in Promoters => PromoterStory(t)'
    <3> SUFFICES ASSUME t \in Promoters PROVE PromoterStory(t)'
      OBVIOUS
    <3> HIDE DEF row
    <3>1. \A i : i # k => JobSeen(t, i)' = JobSeen(t, i)
      BY <1>0, <2>6 DEF JobSeen
    <3>2. JobSeen(t, k)' = row
      BY <2>6 DEF JobSeen
    <3>3. HasJob(t, k)'
      BY <1>0, <1>1, <2>5, <3>2 DEF HasJob
    <3>4. \A i \in DOMAIN txn'[t].iw : Resolved(t, i)'
      <4> SUFFICES ASSUME NEW i \in DOMAIN txn[t].iw PROVE Resolved(t, i)'
        BY <2>3
      <4>1. i # k /\ Resolved(t, i)
        BY <1>1 DEF PromoterStory
      <4>2. JobSeen(t, i)' = JobSeen(t, i) /\ (HasJob(t, i)' <=> HasJob(t, i))
        BY <1>0, <3>1, <4>1 DEF HasJob
      <4> QED BY <1>0, <2>3, <2>6, <4>1, <4>2 DEF Resolved
    <3>5. \A i \in DOMAIN txn'[t].jw :
           /\ job'[i] = NoRow /\ gens'[i] < MaxGen
           /\ txn'[t].jw[i] = [request |-> intent'[i].request, gen |-> gens'[i] + 1]
           /\ \/ i \in DOMAIN txn'[t].iw
              \/ i = k /\ txn'[t].pc = "enqueued"
      BY <1>0, <1>1, <1>2, <2>1, <2>3, <2>6 DEF PromoterStory, row
    <3>6. \A table, i, mode : Holds(t, table, i, mode) => Holds(t, table, i, mode)'
      BY <2>10 DEF Holds
    <3>7. \A l \in locks' : l.tx = t /\ l.table = "job" => Holds(t, "intent", l.key, "NoKeyUpdate")'
      BY <1>1, <2>10, <3>6 DEF PromoterStory
    <3>8. txn'[t].call = PromotionCall(k)'
      BY <1>0, <1>1, <2>3 DEF PromoterStory, PromotionCall
    <3> QED BY <1>0, <1>1, <2>3, <3>3, <3>4, <3>5, <3>6, <3>7, <3>8 DEF PromoterStory
  <2> QED BY <1>0, <1>1, <2>1, <2>8, <2>9, <2>11, <2>12, <2>13, <2>14, StatementInv
<1>3. CASE ~(enabled /\ job[k] = NoRow)
  <2>0. Goto(t, "load_job") /\ UNCHANGED locks
    BY Zenon, <1>k, <1>3 DEF InsertJob
  <2>1. /\ DOMAIN txn' = Txs /\ \A u \in Txs \ {t} : txn'[u] = txn[u]
        /\ TxnShape(txn'[t]) /\ txn'[t].pc = "load_job" /\ txn'[t].call = txn[t].call
        /\ txn'[t].try = txn[t].try /\ txn'[t].iw = txn[t].iw /\ txn'[t].jw = txn[t].jw
        /\ txn'[t].todo = txn[t].todo /\ txn'[t].ids = txn[t].ids
        /\ txn'[t].deferred = txn[t].deferred
    BY <1>1, <2>0, GotoFields DEF Places
  <2>2. TxnTyped(txn'[t]) /\ WritesApart(t)
    BY <1>1, <2>1 DEF TxnTyped, WritesApart
  <2>3. \A u \in Txs \ {t} : SameFor(u)
    BY <1>1, <2>0, <2>1, OthersSame
  <2>4. LocksSound'
    BY <2>0, LocksReleased DEF IntentsInv
  <2>5. t \in Clients => ClientStory(t)'
    BY <1>0, <1>1, <2>0, <2>1 DEF ClientStory, Holds
  <2>6. t \in Promoters => PromoterStory(t)'
    <3>1. \A i : /\ HasJob(t, i)' <=> HasJob(t, i)
                 /\ Resolved(t, i)' <=> Resolved(t, i)
                 /\ PromotionCall(i)' = PromotionCall(i)
      BY <1>0, <2>1 DEF HasJob, Resolved, PromotionCall, JobSeen
    <3> QED BY <1>0, <1>1, <2>0, <2>1, <3>1 DEF PromoterStory, Holds
  <2> QED BY <1>0, <1>1, <2>1, <2>2, <2>3, <2>4, <2>5, <2>6, StatementInv
<1> QED BY <1>2, <1>3

LEMMA LoadJobInv ==
  ASSUME IntentsInv, NEW t \in Clients \cup Promoters, LoadJob(t)
  PROVE  IntentsInv'
<1>k. PICK k : k = KeyOf(t)
  OBVIOUS
<1>m. PICK mode : mode = txn[t].call.lock
  OBVIOUS
<1>0. txn[t].pc = "load_job" /\ UNCHANGED <<intent, job, due, enabled, gens>>
  BY DEF LoadJob
<1>1. /\ t \in Txs /\ t \notin Retainers /\ DOMAIN txn = Txs /\ TxnTyped(txn[t]) /\ TxnShape(txn[t])
      /\ t \in Clients => t \notin Promoters /\ ClientStory(t)
      /\ t \in Promoters => t \notin Clients /\ PromoterStory(t)
      /\ k \in Keys /\ txn[t].call.key = k /\ mode \in {"KeyShare", "NoKeyUpdate"}
      /\ k \notin DOMAIN txn[t].jw
      /\ t \in Promoters => /\ k \in txn[t].todo /\ k \notin DOMAIN txn[t].iw
                            /\ txn[t].call.request = intent[k].request
  BY <1>k, <1>m, <1>0, EnqueueFacts DEF Enqueuing
<1>2. /\ Goto(t, "enqueued") /\ locks' = locks \cup {Lock(t, "job", k, mode)}
      /\ job[k] # NoRow /\ job[k].request = txn[t].call.request
      /\ LockHolders(t, "job", k, mode) = {}
  BY <1>k, <1>m DEF LoadJob, Matches
<1>3. /\ DOMAIN txn' = Txs /\ \A u \in Txs \ {t} : txn'[u] = txn[u]
      /\ TxnShape(txn'[t]) /\ txn'[t].pc = "enqueued" /\ txn'[t].call = txn[t].call
      /\ txn'[t].try = txn[t].try /\ txn'[t].iw = txn[t].iw /\ txn'[t].jw = txn[t].jw
      /\ txn'[t].todo = txn[t].todo /\ txn'[t].ids = txn[t].ids
      /\ txn'[t].deferred = txn[t].deferred
  BY <1>1, <1>2, GotoFields DEF Places
<1>4. TxnTyped(txn'[t]) /\ WritesApart(t)
  BY <1>1, <1>3 DEF TxnTyped, WritesApart
<1>5. /\ \A l : l.tx # t => (l \in locks' <=> l \in locks)
      /\ \A l \in locks' : l \in locks \/ (l.tx = t /\ l.table = "job" /\ l.key = k /\ l.mode = mode)
      /\ \A l \in locks : l \in locks'
  BY <1>2 DEF Lock
<1>6. \A u \in Txs \ {t} : SameFor(u)
  BY <1>1, <1>3, <1>5, OthersSame
<1>7. LocksSound'
  BY <1>1, <1>2, LockGranted DEF IntentsInv, Modes
<1>8. \A table, i, md : Holds(t, table, i, md) => Holds(t, table, i, md)'
  BY <1>5 DEF Holds
<1>9. t \in Clients => ClientStory(t)'
  BY <1>0, <1>1, <1>3, <1>8 DEF ClientStory
<1>10. t \in Promoters => PromoterStory(t)'
  <2> SUFFICES ASSUME t \in Promoters PROVE PromoterStory(t)'
    OBVIOUS
  <2>1. \A i : /\ HasJob(t, i)' <=> HasJob(t, i)
               /\ Resolved(t, i)' <=> Resolved(t, i)
               /\ PromotionCall(i)' = PromotionCall(i)
    BY <1>0, <1>3 DEF HasJob, Resolved, PromotionCall, JobSeen
  <2>2. HasJob(t, k)
    BY <1>1, <1>2 DEF HasJob, JobSeen
  <2>3. \A l \in locks' : l.tx = t /\ l.table = "job" => Holds(t, "intent", l.key, "NoKeyUpdate")'
    BY <1>1, <1>5, <1>8 DEF PromoterStory
  <2> QED BY <1>0, <1>1, <1>3, <1>8, <2>1, <2>2, <2>3 DEF PromoterStory
<1> QED BY <1>0, <1>1, <1>3, <1>4, <1>6, <1>7, <1>9, <1>10, StatementInv

-----------------------------------------------------------------------------
(* Statements of promotion passes.                                         *)

LEMMA PromoterFacts ==
  ASSUME IntentsInv, NEW p \in Promoters
  PROVE  /\ p \in Txs /\ p \notin Retainers /\ p \notin Clients /\ DOMAIN txn = Txs
         /\ TxnTyped(txn[p]) /\ TxnShape(txn[p]) /\ PromoterStory(p)
BY IntentsAssumption DEF IntentsInv, TxnsTyped, TxnTyped, Txs

LEMMA StartPassInv ==
  ASSUME IntentsInv, NEW p \in Promoters, StartPass(p)
  PROVE  IntentsInv'
<1>1. /\ p \in Txs /\ p \notin Retainers /\ p \notin Clients /\ DOMAIN txn = Txs
      /\ TxnTyped(txn[p]) /\ TxnShape(txn[p]) /\ PromoterStory(p)
  BY PromoterFacts
<1>2. /\ txn[p].pc = "closed" /\ UNCHANGED <<intent, job, due, enabled, gens, locks>> /\ Goto(p, "fence")
  BY DEF StartPass
<1>3. /\ DOMAIN txn' = Txs /\ \A u \in Txs \ {p} : txn'[u] = txn[u]
      /\ TxnShape(txn'[p]) /\ txn'[p].pc = "fence" /\ txn'[p].call = txn[p].call
      /\ txn'[p].try = txn[p].try /\ txn'[p].iw = txn[p].iw /\ txn'[p].jw = txn[p].jw
      /\ txn'[p].todo = txn[p].todo /\ txn'[p].ids = txn[p].ids
      /\ txn'[p].deferred = txn[p].deferred
  BY <1>1, <1>2, GotoFields DEF Places
<1>4. TxnTyped(txn'[p]) /\ WritesApart(p)
  BY <1>1, <1>3 DEF TxnTyped, WritesApart
<1>5. \A u \in Txs \ {p} : SameFor(u)
  BY <1>1, <1>2, <1>3, OthersSame
<1>6. LocksSound'
  BY <1>2, LocksReleased DEF IntentsInv
<1>7. NoLocks(p)'
  BY <1>1, <1>2 DEF PromoterStory, NoLocks
<1>8. PromoterStory(p)'
  BY <1>1, <1>2, <1>3, <1>7 DEF PromoterStory, NoLocks
<1> QED BY <1>1, <1>2, <1>3, <1>4, <1>5, <1>6, <1>8, StatementInv

LEMMA FenceSharedInv ==
  ASSUME IntentsInv, NEW p \in Promoters, FenceShared(p)
  PROVE  IntentsInv'
<1>1. /\ p \in Txs /\ p \notin Retainers /\ p \notin Clients /\ DOMAIN txn = Txs
      /\ TxnTyped(txn[p]) /\ TxnShape(txn[p]) /\ PromoterStory(p)
  BY PromoterFacts
<1>2. /\ txn[p].pc = "fence" /\ UNCHANGED <<intent, job, due, enabled, gens>> /\ Goto(p, "claim")
      /\ LockHolders(p, "fence", NoRow, "Shared") = {}
      /\ locks' = locks \cup {Lock(p, "fence", NoRow, "Shared")}
  BY DEF FenceShared
<1>3. /\ DOMAIN txn' = Txs /\ \A u \in Txs \ {p} : txn'[u] = txn[u]
      /\ TxnShape(txn'[p]) /\ txn'[p].pc = "claim" /\ txn'[p].call = txn[p].call
      /\ txn'[p].try = txn[p].try /\ txn'[p].iw = txn[p].iw /\ txn'[p].jw = txn[p].jw
      /\ txn'[p].todo = txn[p].todo /\ txn'[p].ids = txn[p].ids
      /\ txn'[p].deferred = txn[p].deferred
  BY <1>1, <1>2, GotoFields DEF Places
<1>4. TxnTyped(txn'[p]) /\ WritesApart(p)
  BY <1>1, <1>3 DEF TxnTyped, WritesApart
<1>5. /\ \A l : l.tx # p => (l \in locks' <=> l \in locks)
      /\ \A l \in locks' : l \in locks \/ (l.tx = p /\ l.table = "fence")
      /\ Lock(p, "fence", NoRow, "Shared") \in locks'
  BY <1>2 DEF Lock
<1>6. \A u \in Txs \ {p} : SameFor(u)
  BY <1>1, <1>3, <1>5, OthersSame
<1>7. LocksSound'
  <2>1. "Shared" \in Modes("fence")
    BY DEF Modes
  <2> QED BY <1>1, <1>2, <2>1, LockGranted DEF IntentsInv
<1>8. PromoterStory(p)'
  BY <1>1, <1>2, <1>3, <1>5 DEF PromoterStory, NoLocks, Holds
<1> QED BY <1>1, <1>2, <1>3, <1>4, <1>6, <1>7, <1>8, StatementInv

LEMMA ClaimIntentsInv ==
  ASSUME IntentsInv, NEW p \in Promoters, ClaimIntents(p)
  PROVE  IntentsInv'
<1>1. /\ p \in Txs /\ p \notin Retainers /\ p \notin Clients /\ DOMAIN txn = Txs
      /\ TxnTyped(txn[p]) /\ TxnShape(txn[p]) /\ PromoterStory(p)
  BY PromoterFacts
<1>2. PICK batch \in SUBSET {k \in Keys : Eligible(k) /\ LockHolders(p, "intent", k, "NoKeyUpdate") = {}} :
        /\ txn' = [txn EXCEPT ![p].todo = batch, ![p].pc = "row"]
        /\ locks' = locks \cup {Lock(p, "intent", k, "NoKeyUpdate") : k \in batch}
  BY DEF ClaimIntents
<1>3. txn[p].pc = "claim" /\ UNCHANGED <<intent, job, due, enabled, gens>>
  BY DEF ClaimIntents
<1>4. /\ txn'[p] = [txn[p] EXCEPT !.todo = batch, !.pc = "row"]
      /\ DOMAIN txn' = Txs /\ \A u \in Txs \ {p} : txn'[u] = txn[u]
  BY Zenon, <1>1, <1>2
<1>5. /\ TxnShape(txn'[p]) /\ txn'[p].pc = "row" /\ txn'[p].call = txn[p].call
      /\ txn'[p].try = txn[p].try /\ txn'[p].iw = txn[p].iw /\ txn'[p].jw = txn[p].jw
      /\ txn'[p].todo = batch /\ txn'[p].ids = txn[p].ids
      /\ txn'[p].deferred = txn[p].deferred
  BY <1>1, <1>4 DEF TxnShape
<1>6. /\ batch \subseteq Keys
      /\ \A k \in batch : /\ LockHolders(p, "intent", k, "NoKeyUpdate") = {}
                          /\ intent[k] # NoRow /\ intent[k].status = "PENDING"
  BY DEF Eligible
<1>7. TxnTyped(txn'[p]) /\ WritesApart(p)
  BY <1>1, <1>5, <1>6 DEF TxnTyped, WritesApart
<1>8. /\ \A l : l.tx # p => (l \in locks' <=> l \in locks)
      /\ \A l \in locks' : l \in locks \/ (l.tx = p /\ l.table = "intent")
      /\ \A l \in locks : l \in locks'
      /\ \A k \in batch : Lock(p, "intent", k, "NoKeyUpdate") \in locks'
  BY <1>2 DEF Lock
<1>9. \A u \in Txs \ {p} : SameFor(u)
  BY <1>1, <1>4, <1>8, OthersSame
<1>10. LocksSound'
  <2>1. "NoKeyUpdate" \in Modes("intent") /\ batch \in SUBSET (Keys \cup {NoRow})
    BY <1>6 DEF Modes
  <2>2. locks' = locks \cup LocksOn(p, "intent", batch, "NoKeyUpdate")
    BY <1>2 DEF LocksOn
  <2> QED BY <1>1, <1>6, <2>1, <2>2, LocksGranted DEF IntentsInv
<1>11. PromoterStory(p)'
  <2>1. \A table, i, mode : Holds(p, table, i, mode) => Holds(p, table, i, mode)'
    BY <1>8 DEF Holds
  <2>2. \A i \in batch : Holds(p, "intent", i, "NoKeyUpdate")'
    BY <1>8 DEF Holds
  <2>3. \A l \in locks' : l.tx = p /\ l.table = "job" => Holds(p, "intent", l.key, "NoKeyUpdate")'
    BY <1>1, <1>8, <2>1 DEF PromoterStory
  <2> QED BY <1>1, <1>3, <1>5, <1>6, <2>1, <2>2, <2>3 DEF PromoterStory
<1> QED BY <1>1, <1>3, <1>4, <1>7, <1>9, <1>10, <1>11, StatementInv

LEMMA MarkedRows ==
  ASSUME NEW x \in IntentRow, NEW s \in Statuses, NEW j \in 0..MaxGen
  PROVE  [x EXCEPT !.status = s] \in IntentRow /\ [x EXCEPT !.status = s, !.job = j] \in IntentRow
<1>1. x = [request |-> x.request, status |-> x.status, job |-> x.job]
      /\ x.request \in Requests /\ x.job \in 0..MaxGen
  BY DEF IntentRow
<1>2. PICK y : y = [x EXCEPT !.status = s]
  OBVIOUS
<1>3. PICK z : z = [x EXCEPT !.status = s, !.job = j]
  OBVIOUS
<1>4. y = [request |-> y.request, status |-> y.status, job |-> y.job]
      /\ y.request = x.request /\ y.status = s /\ y.job = x.job
  BY <1>1, <1>2
<1>5. z = [request |-> z.request, status |-> z.status, job |-> z.job]
      /\ z.request = x.request /\ z.status = s /\ z.job = j
  BY <1>1, <1>3
<1>6. y \in IntentRow
  BY <1>1, <1>4 DEF IntentRow
<1>7. z \in IntentRow
  BY <1>1, <1>5 DEF IntentRow
<1> QED BY <1>2, <1>3, <1>6, <1>7

LEMMA JobsSeen ==
  ASSUME IntentsInv, NEW t \in Txs, NEW k \in Keys
  PROVE  JobSeen(t, k) \in JobRow \cup {NoRow}
<1>1. job[k] \in JobRow \cup {NoRow} /\ txn[t].jw \in JobWrites
  BY DEF IntentsInv, RowsSound, LedgerTypeOK, TxnsTyped, TxnTyped
<1> QED BY <1>1, WritesTyped DEF JobSeen

(* How a pass may mark a row.                                              *)
Marks(p, k, row) ==
  \/ /\ row = [intent[k] EXCEPT !.status = "CONFLICTED"] /\ k \notin DOMAIN txn[p].jw
     /\ intent[k].request \in Malformed \/ (job[k] # NoRow /\ job[k].request # intent[k].request)
  \/ /\ row = [intent[k] EXCEPT !.status = "PROMOTED", !.job = JobSeen(p, k).gen]
     /\ HasJob(p, k)

(* The locks that dealing with a row adds.                                 *)
RowLocks(p, k) ==
  /\ \A l : l.tx # p => (l \in locks' <=> l \in locks)
  /\ \A l \in locks' : l \in locks \/ (l.tx = p /\ l.table = "job" /\ l.key = k)
  /\ \A l \in locks : l \in locks'

(* A claimed intent is no other transaction's to write.                    *)
LEMMA ClaimedIsUnwritten ==
  ASSUME IntentsInv, NEW p \in Txs, NEW k \in Keys, intent[k] # NoRow, Holds(p, "intent", k, "NoKeyUpdate")
  PROVE  \A u \in Txs \ {p} : k \notin DOMAIN txn[u].iw
<1> SUFFICES ASSUME NEW u \in Txs \ {p}, k \in DOMAIN txn[u].iw PROVE FALSE
  OBVIOUS
<1>1. ASSUME NEW mode \in {"NoKeyUpdate", "Update"}, Holds(u, "intent", k, mode) PROVE FALSE
  <2>1. Lock(u, "intent", k, mode) \in locks /\ Lock(p, "intent", k, "NoKeyUpdate") \in locks
    BY <1>1 DEF Holds
  <2>2. mode \notin Excludes("NoKeyUpdate")
    BY <2>1 DEF IntentsInv, LocksSound, Lock
  <2> QED BY <2>2 DEF Excludes
<1>2. CASE u \in Clients
  <2>1. ClientStory(u)
    BY <1>2 DEF IntentsInv
  <2> QED BY <2>1 DEF ClientStory
<1>3. CASE u \in Promoters
  BY <1>1, <1>3 DEF IntentsInv, PromoterStory
<1>4. CASE u \in Retainers
  BY <1>1, <1>4 DEF IntentsInv, RetainerStory
<1> QED BY <1>2, <1>3, <1>4 DEF Txs

LEMMA MarkInv ==
  ASSUME IntentsInv, NEW p \in Promoters, NEW k \in txn[p].todo, NEW row, MarkIntent(p, k, row),
         Marks(p, k, row), RowLocks(p, k), LocksSound',
         UNCHANGED <<intent, job, due, enabled, gens>>,
         \A i \in DOMAIN txn[p].jw : i \in DOMAIN txn[p].iw \cup {k}
  PROVE  IntentsInv'
<1>1. /\ p \in Txs /\ p \notin Retainers /\ p \notin Clients /\ DOMAIN txn = Txs
      /\ TxnTyped(txn[p]) /\ TxnShape(txn[p]) /\ PromoterStory(p)
  BY PromoterFacts
<1>2. k \in Keys /\ k \notin DOMAIN txn[p].iw /\ intent[k] # NoRow /\ intent[k].status = "PENDING"
  BY <1>1 DEF PromoterStory, TxnTyped
<1>3. intent[k] \in IntentRow
  BY <1>2 DEF IntentsInv, RowsSound, LedgerTypeOK
<1>4. row \in IntentRow \cup {NoRow}
  <2>1. CASE row = [intent[k] EXCEPT !.status = "CONFLICTED"]
    <3>1. "CONFLICTED" \in Statuses /\ 0 \in 0..MaxGen
      BY RowFacts DEF Statuses
    <3> QED BY <1>3, <2>1, <3>1, MarkedRows
  <2>2. CASE row = [intent[k] EXCEPT !.status = "PROMOTED", !.job = JobSeen(p, k).gen] /\ HasJob(p, k)
    <3>1. JobSeen(p, k) \in JobRow
      BY <1>1, <1>2, <2>2, JobsSeen DEF HasJob
    <3>2. JobSeen(p, k).gen \in 0..MaxGen /\ "PROMOTED" \in Statuses
      BY <3>1, RowFacts DEF JobRow, Statuses
    <3> QED BY <1>3, <2>2, <3>2, MarkedRows
  <2> QED BY <2>1, <2>2 DEF Marks
<1>5. /\ txn'[p] = [txn[p] EXCEPT !.iw = Written(@, k, row), !.todo = @ \ {k}, !.pc = "row"]
      /\ DOMAIN txn' = Txs /\ \A u \in Txs \ {p} : txn'[u] = txn[u]
  BY Zenon, <1>1 DEF MarkIntent
<1>6. /\ TxnShape(txn'[p]) /\ txn'[p].pc = "row" /\ txn'[p].call = txn[p].call
      /\ txn'[p].try = txn[p].try /\ txn'[p].iw = Written(txn[p].iw, k, row) /\ txn'[p].jw = txn[p].jw
      /\ txn'[p].todo = txn[p].todo \ {k} /\ txn'[p].ids = txn[p].ids
      /\ txn'[p].deferred = txn[p].deferred
  BY <1>1, <1>5 DEF TxnShape
<1>7. /\ DOMAIN txn'[p].iw = DOMAIN txn[p].iw \cup {k} /\ txn'[p].iw[k] = row
      /\ \A i \in DOMAIN txn[p].iw : txn'[p].iw[i] = txn[p].iw[i]
  <2>1. /\ DOMAIN Written(txn[p].iw, k, row) = DOMAIN txn[p].iw \cup {k}
        /\ Written(txn[p].iw, k, row)[k] = row
        /\ \A i \in DOMAIN txn[p].iw : i # k => Written(txn[p].iw, k, row)[i] = txn[p].iw[i]
    BY DEF Written
  <2> QED BY <1>2, <1>6, <2>1
<1>8. TxnTyped(txn'[p])
  <2>1. Written(txn[p].iw, k, row) \in IntentWrites
    BY <1>1, <1>2, <1>4, WrittenIntents DEF TxnTyped
  <2> QED BY <1>1, <1>6, <2>1 DEF TxnTyped
<1>9. \A table, i, mode : Holds(p, table, i, mode) => Holds(p, table, i, mode)'
  BY DEF Holds, RowLocks
<1>10. Holds(p, "intent", k, "NoKeyUpdate")
  BY <1>1 DEF PromoterStory
<1>11. PromoterStory(p)'
  <2>1. \A i : JobSeen(p, i)' = JobSeen(p, i) /\ (HasJob(p, i)' <=> HasJob(p, i))
    BY <1>6 DEF JobSeen, HasJob
  <2>2. Resolved(p, k)'
    BY <1>6, <1>7, <2>1 DEF Resolved, Marks
  <2>3. \A i \in DOMAIN txn[p].iw : Resolved(p, i)'
    <3> SUFFICES ASSUME NEW i \in DOMAIN txn[p].iw PROVE Resolved(p, i)'
      OBVIOUS
    <3>1. Resolved(p, i)
      BY <1>1 DEF PromoterStory
    <3> QED BY <1>6, <1>7, <2>1, <3>1 DEF Resolved
  <2>4. \A l \in locks' : l.tx = p /\ l.table = "job" => Holds(p, "intent", l.key, "NoKeyUpdate")'
    BY <1>1, <1>9, <1>10 DEF PromoterStory, RowLocks
  <2>5. txn[p].pc \notin {"closed", "fence"}
    BY <1>1 DEF PromoterStory
  <2>6. \A i \in DOMAIN txn'[p].jw :
           /\ job'[i] = NoRow /\ gens'[i] < MaxGen
           /\ txn'[p].jw[i] = [request |-> intent'[i].request, gen |-> gens'[i] + 1]
           /\ i \in DOMAIN txn'[p].iw
    BY <1>1, <1>6, <1>7 DEF PromoterStory
  <2>7. \A i \in txn'[p].todo \cup DOMAIN txn'[p].iw :
           intent'[i] # NoRow /\ intent'[i].status = "PENDING" /\ Holds(p, "intent", i, "NoKeyUpdate")'
    BY <1>1, <1>6, <1>7, <1>9 DEF PromoterStory
  <2> QED BY <1>1, <1>6, <1>7, <1>9, <2>2, <2>3, <2>4, <2>5, <2>6, <2>7 DEF PromoterStory
<1>12. WritesApart(p)
  <2>1. \A u \in Txs \ {p} : k \notin DOMAIN txn[u].iw
    BY <1>1, <1>2, <1>10, ClaimedIsUnwritten
  <2> QED BY <1>6, <1>7, <2>1 DEF WritesApart
<1>13. \A u \in Txs \ {p} : SameFor(u)
  BY <1>1, <1>5, OthersSame DEF RowLocks
<1> QED BY <1>1, <1>5, <1>8, <1>11, <1>12, <1>13, StatementInv

LEMMA NextRowInv ==
  ASSUME IntentsInv, NEW p \in Promoters, NextRow(p)
  PROVE  IntentsInv'
<1>1. /\ p \in Txs /\ p \notin Retainers /\ p \notin Clients /\ DOMAIN txn = Txs
      /\ TxnTyped(txn[p]) /\ TxnShape(txn[p]) /\ PromoterStory(p)
  BY PromoterFacts
<1>2. txn[p].pc = "row" /\ UNCHANGED <<intent, job, due, enabled, gens, locks>>
  BY DEF NextRow
<1>3. LocksSound'
  BY <1>2, LocksReleased DEF IntentsInv
<1>4. ASSUME txn[p].todo = {}, Goto(p, "done")
      PROVE  IntentsInv'
  <2>1. /\ DOMAIN txn' = Txs /\ \A u \in Txs \ {p} : txn'[u] = txn[u]
        /\ TxnShape(txn'[p]) /\ txn'[p].pc = "done" /\ txn'[p].call = txn[p].call
        /\ txn'[p].try = txn[p].try /\ txn'[p].iw = txn[p].iw /\ txn'[p].jw = txn[p].jw
        /\ txn'[p].todo = txn[p].todo /\ txn'[p].ids = txn[p].ids
        /\ txn'[p].deferred = txn[p].deferred
    BY <1>1, <1>4, GotoFields DEF Places
  <2>2. TxnTyped(txn'[p]) /\ WritesApart(p)
    BY <1>1, <2>1 DEF TxnTyped, WritesApart
  <2>3. \A u \in Txs \ {p} : SameFor(u)
    BY <1>1, <1>2, <2>1, OthersSame
  <2>4. PromoterStory(p)'
    <3>1. \A i : Resolved(p, i)' <=> Resolved(p, i)
      BY <1>2, <2>1 DEF HasJob, Resolved, JobSeen
    <3> QED BY <1>1, <1>2, <2>1, <3>1 DEF PromoterStory, Holds
  <2> QED BY <1>1, <1>2, <1>3, <2>1, <2>2, <2>3, <2>4, StatementInv
<1>5. ASSUME NEW k \in txn[p].todo, intent[k].request \in Malformed,
             MarkIntent(p, k, [intent[k] EXCEPT !.status = "CONFLICTED"])
      PROVE  IntentsInv'
  <2>1. \A i \in DOMAIN txn[p].jw : i \in DOMAIN txn[p].iw
    BY <1>1, <1>2 DEF PromoterStory
  <2>2. k \notin DOMAIN txn[p].jw
    BY <1>1, <2>1 DEF PromoterStory
  <2>3. Marks(p, k, [intent[k] EXCEPT !.status = "CONFLICTED"])
    BY <1>5, <2>2 DEF Marks
  <2>4. RowLocks(p, k)
    BY <1>2 DEF RowLocks
  <2> QED BY <1>2, <1>3, <1>5, <2>1, <2>3, <2>4, MarkInv
<1>6. ASSUME NEW k \in txn[p].todo,
             txn' = [txn EXCEPT ![p].call = PromotionCall(k), ![p].pc = "insert_job"]
      PROVE  IntentsInv'
  <2>1. /\ txn'[p] = [txn[p] EXCEPT !.call = PromotionCall(k), !.pc = "insert_job"]
        /\ DOMAIN txn' = Txs /\ \A u \in Txs \ {p} : txn'[u] = txn[u]
    BY Zenon, <1>1, <1>6
  <2>2. /\ TxnShape(txn'[p]) /\ txn'[p].pc = "insert_job" /\ txn'[p].call = PromotionCall(k)
        /\ txn'[p].try = txn[p].try /\ txn'[p].iw = txn[p].iw /\ txn'[p].jw = txn[p].jw
        /\ txn'[p].todo = txn[p].todo /\ txn'[p].ids = txn[p].ids
        /\ txn'[p].deferred = txn[p].deferred
    BY <1>1, <2>1 DEF TxnShape
  <2>3. PromotionCall(k) \in Promotions
    <3>1. k \in Keys /\ intent[k] # NoRow
      BY <1>1 DEF PromoterStory, TxnTyped
    <3>2. intent[k] \in IntentRow
      BY <3>1 DEF IntentsInv, RowsSound, LedgerTypeOK
    <3> QED BY <3>1, <3>2 DEF PromotionCall, Promotions, IntentRow
  <2>4. TxnTyped(txn'[p]) /\ WritesApart(p)
    BY <1>1, <2>2, <2>3 DEF TxnTyped, WritesApart
  <2>5. \A u \in Txs \ {p} : SameFor(u)
    BY <1>1, <1>2, <2>1, OthersSame
  <2>6. PromoterStory(p)'
    <3>1. \A i : (Resolved(p, i)' <=> Resolved(p, i)) /\ PromotionCall(i)' = PromotionCall(i)
      BY <1>2, <2>2 DEF HasJob, Resolved, JobSeen, PromotionCall
    <3>2. PromotionCall(k).key = k
      BY DEF PromotionCall
    <3> QED BY <1>1, <1>2, <2>2, <3>1, <3>2 DEF PromoterStory, Holds
  <2> QED BY <1>1, <1>2, <1>3, <2>1, <2>4, <2>5, <2>6, StatementInv
<1> QED BY <1>4, <1>5, <1>6 DEF NextRow

LEMMA MarkPromotedInv ==
  ASSUME IntentsInv, NEW p \in Promoters, MarkPromoted(p)
  PROVE  IntentsInv'
<1>k. PICK k : k = KeyOf(p)
  OBVIOUS
<1>1. txn[p].pc = "enqueued" /\ UNCHANGED <<intent, job, due, enabled, gens, locks>>
  BY DEF MarkPromoted
<1>2. MarkIntent(p, k, [intent[k] EXCEPT !.status = "PROMOTED", !.job = JobSeen(p, k).gen])
  BY Zenon, <1>k DEF MarkPromoted
<1>3. PromoterStory(p) /\ k \in txn[p].todo /\ k = txn[p].call.key
  BY <1>k, <1>1, EnqueueFacts DEF Enqueuing
<1>4. HasJob(p, k) /\ \A i \in DOMAIN txn[p].jw : i \in DOMAIN txn[p].iw \cup {k}
  BY <1>1, <1>3 DEF PromoterStory
<1>5. Marks(p, k, [intent[k] EXCEPT !.status = "PROMOTED", !.job = JobSeen(p, k).gen])
  BY Zenon, <1>4 DEF Marks
<1>6. RowLocks(p, k)
  BY <1>1 DEF RowLocks
<1>7. LocksSound'
  BY <1>1, LocksReleased DEF IntentsInv
<1> QED BY <1>1, <1>2, <1>3, <1>4, <1>5, <1>6, <1>7, MarkInv

LEMMA MarkConflictedInv ==
  ASSUME IntentsInv, NEW p \in Promoters, MarkConflicted(p)
  PROVE  IntentsInv'
<1>k. PICK k : k = KeyOf(p)
  OBVIOUS
<1>1. /\ txn[p].pc = "load_job" /\ UNCHANGED <<intent, job, due, enabled, gens>>
      /\ locks' = locks \cup {Lock(p, "job", k, "NoKeyUpdate")}
      /\ LockHolders(p, "job", k, "NoKeyUpdate") = {}
      /\ job[k] # NoRow /\ ~Matches(p, job[k])
  BY <1>k DEF MarkConflicted
<1>2. MarkIntent(p, k, [intent[k] EXCEPT !.status = "CONFLICTED"])
  BY Zenon, <1>k DEF MarkConflicted
<1>3. /\ p \in Txs /\ PromoterStory(p) /\ k \in txn[p].todo /\ k \in Keys
      /\ k \notin DOMAIN txn[p].jw /\ txn[p].call.request = intent[k].request
  BY <1>k, <1>1, EnqueueFacts DEF Enqueuing
<1>4. \A i \in DOMAIN txn[p].jw : i \in DOMAIN txn[p].iw
  BY <1>1, <1>3 DEF PromoterStory
<1>5. Marks(p, k, [intent[k] EXCEPT !.status = "CONFLICTED"])
  <2>1. job[k].request # intent[k].request
    BY <1>1, <1>3 DEF Matches
  <2> QED BY <1>1, <1>3, <2>1 DEF Marks
<1>6. RowLocks(p, k)
  BY <1>1 DEF RowLocks, Lock
<1>7. LocksSound'
  <2>1. "NoKeyUpdate" \in Modes("job")
    BY DEF Modes
  <2> QED BY <1>1, <1>3, <2>1, LockGranted DEF IntentsInv
<1> QED BY <1>1, <1>2, <1>3, <1>4, <1>5, <1>6, <1>7, MarkInv

LEMMA DefinitionUnavailableInv ==
  ASSUME IntentsInv, NEW p \in Promoters, DefinitionUnavailable(p)
  PROVE  IntentsInv'
<1>k. PICK k : k = KeyOf(p)
  OBVIOUS
<1>1. /\ p \in Txs /\ p \notin Retainers /\ p \notin Clients /\ DOMAIN txn = Txs
      /\ TxnTyped(txn[p]) /\ TxnShape(txn[p]) /\ PromoterStory(p)
  BY PromoterFacts
<1>2. txn[p].pc = "load_job" /\ UNCHANGED <<intent, job, due, enabled, gens, locks>>
  BY DEF DefinitionUnavailable
<1>3. /\ txn'[p] = [txn[p] EXCEPT !.todo = @ \ {k}, !.pc = "row"]
      /\ DOMAIN txn' = Txs /\ \A u \in Txs \ {p} : txn'[u] = txn[u]
  BY Zenon, <1>k, <1>1 DEF DefinitionUnavailable
<1>4. /\ TxnShape(txn'[p]) /\ txn'[p].pc = "row" /\ txn'[p].call = txn[p].call
      /\ txn'[p].try = txn[p].try /\ txn'[p].iw = txn[p].iw /\ txn'[p].jw = txn[p].jw
      /\ txn'[p].todo = txn[p].todo \ {k} /\ txn'[p].ids = txn[p].ids
      /\ txn'[p].deferred = txn[p].deferred
  BY <1>1, <1>3 DEF TxnShape
<1>5. TxnTyped(txn'[p]) /\ WritesApart(p)
  BY <1>1, <1>4 DEF TxnTyped, WritesApart
<1>6. \A u \in Txs \ {p} : SameFor(u)
  BY <1>1, <1>2, <1>3, OthersSame
<1>7. LocksSound'
  BY <1>2, LocksReleased DEF IntentsInv
<1>8. PromoterStory(p)'
  <2>1. \A i : Resolved(p, i)' <=> Resolved(p, i)
    BY <1>2, <1>4 DEF HasJob, Resolved, JobSeen
  <2> QED BY <1>1, <1>2, <1>4, <2>1 DEF PromoterStory, Holds
<1> QED BY <1>1, <1>2, <1>3, <1>5, <1>6, <1>7, <1>8, StatementInv

LEMMA DeferRowInv ==
  ASSUME IntentsInv, NEW p \in Promoters, DeferRow(p)
  PROVE  IntentsInv'
<1>k. PICK k : k = KeyOf(p)
  OBVIOUS
<1>1. /\ p \in Txs /\ p \notin Retainers /\ p \notin Clients /\ DOMAIN txn = Txs
      /\ TxnTyped(txn[p]) /\ TxnShape(txn[p]) /\ PromoterStory(p)
  BY PromoterFacts
<1>2. /\ txn[p].pc \in Enqueuing /\ UNCHANGED <<intent, job, due, enabled, gens>>
      /\ locks' = SavepointLocks(p)
  BY DEF DeferRow, Enqueuing
<1>3. /\ k \in Keys /\ k \in txn[p].todo /\ k \notin DOMAIN txn[p].iw /\ txn[p].call.key = k
      /\ intent[k] \in IntentRow /\ intent[k].status = "PENDING"
  BY <1>k, <1>2, EnqueueFacts
<1>4. /\ txn'[p] = [txn[p] EXCEPT !.jw = SavepointWrites(p), !.deferred = @ \cup {k},
                      !.todo = @ \ {k}, !.iw = Written(@, k, intent[k]), !.pc = "row"]
      /\ DOMAIN txn' = Txs /\ \A u \in Txs \ {p} : txn'[u] = txn[u]
  BY Zenon, <1>k, <1>1 DEF DeferRow
<1>5. /\ TxnShape(txn'[p]) /\ txn'[p].pc = "row" /\ txn'[p].call = txn[p].call
      /\ txn'[p].try = txn[p].try /\ txn'[p].iw = Written(txn[p].iw, k, intent[k])
      /\ txn'[p].jw = SavepointWrites(p)
      /\ txn'[p].todo = txn[p].todo \ {k} /\ txn'[p].ids = txn[p].ids
      /\ txn'[p].deferred = txn[p].deferred \cup {k}
  BY <1>1, <1>4 DEF TxnShape
<1>6. /\ DOMAIN txn'[p].iw = DOMAIN txn[p].iw \cup {k} /\ txn'[p].iw[k] = intent[k]
      /\ \A i \in DOMAIN txn[p].iw : txn'[p].iw[i] = txn[p].iw[i]
  <2>1. /\ DOMAIN Written(txn[p].iw, k, intent[k]) = DOMAIN txn[p].iw \cup {k}
        /\ Written(txn[p].iw, k, intent[k])[k] = intent[k]
        /\ \A i \in DOMAIN txn[p].iw : i # k => Written(txn[p].iw, k, intent[k])[i] = txn[p].iw[i]
    BY DEF Written
  <2> QED BY <1>3, <1>5, <2>1
<1>7. /\ DOMAIN txn'[p].jw = DOMAIN txn[p].jw \ {k}
      /\ \A i \in DOMAIN txn'[p].jw : txn'[p].jw[i] = txn[p].jw[i]
  BY <1>k, <1>5 DEF SavepointWrites
<1>8. SavepointWrites(p) \in JobWrites
  <2>1. txn[p].jw \in JobWrites
    BY <1>1 DEF TxnTyped
  <2>2. DOMAIN txn[p].jw \subseteq Keys /\ \A i \in DOMAIN txn[p].jw : txn[p].jw[i] \in JobRow \cup {NoRow}
    BY <2>1, WritesTyped
  <2>3. DOMAIN txn[p].jw \ {k} \in SUBSET Keys
    BY <2>2
  <2>4. SavepointWrites(p) \in [DOMAIN txn[p].jw \ {k} -> JobRow \cup {NoRow}]
    BY <1>k, <2>2 DEF SavepointWrites
  <2> QED BY <2>3, <2>4 DEF JobWrites
<1>9. Written(txn[p].iw, k, intent[k]) \in IntentWrites
  BY <1>1, <1>3, WrittenIntents DEF TxnTyped
<1>10. TxnTyped(txn'[p])
  BY <1>1, <1>3, <1>5, <1>8, <1>9 DEF TxnTyped
<1>11. /\ \A l : l.tx # p => (l \in locks' <=> l \in locks)
       /\ locks' \subseteq locks
       /\ \A l \in locks : l.table \in {"intent", "fence"} => l \in locks'
  BY <1>2 DEF SavepointLocks
<1>12. \A table \in {"intent", "fence"} : \A i, mode : Holds(p, table, i, mode) => Holds(p, table, i, mode)'
  BY <1>11 DEF Holds, Lock
<1>13. Holds(p, "intent", k, "NoKeyUpdate")
  BY <1>1, <1>3 DEF PromoterStory
<1>14. PromoterStory(p)'
  <2>1. \A i : i # k => JobSeen(p, i)' = JobSeen(p, i) /\ (HasJob(p, i)' <=> HasJob(p, i))
    BY <1>2, <1>7 DEF JobSeen, HasJob
  <2>2. Resolved(p, k)'
    BY <1>2, <1>6, <1>7 DEF Resolved
  <2>3. \A i \in DOMAIN txn[p].iw : Resolved(p, i)'
    <3> SUFFICES ASSUME NEW i \in DOMAIN txn[p].iw PROVE Resolved(p, i)'
      OBVIOUS
    <3>1. Resolved(p, i) /\ i # k
      BY <1>1, <1>3 DEF PromoterStory
    <3> QED BY <1>2, <1>6, <1>7, <2>1, <3>1 DEF Resolved
  <2>4. \A l \in locks' : l.tx = p /\ l.table = "job" => Holds(p, "intent", l.key, "NoKeyUpdate")'
    BY <1>1, <1>11, <1>12 DEF PromoterStory
  <2>5. \A i \in DOMAIN txn'[p].jw :
           /\ job'[i] = NoRow /\ gens'[i] < MaxGen
           /\ txn'[p].jw[i] = [request |-> intent'[i].request, gen |-> gens'[i] + 1]
           /\ i \in DOMAIN txn'[p].iw
    BY <1>1, <1>2, <1>3, <1>6, <1>7 DEF PromoterStory
  <2>6. \A i \in txn'[p].todo \cup DOMAIN txn'[p].iw :
           intent'[i] # NoRow /\ intent'[i].status = "PENDING" /\ Holds(p, "intent", i, "NoKeyUpdate")'
    BY <1>1, <1>2, <1>3, <1>5, <1>6, <1>12 DEF PromoterStory
  <2>7. Holds(p, "fence", NoRow, "Shared")'
    BY <1>1, <1>2, <1>12 DEF PromoterStory, Enqueuing
  <2> QED BY <1>1, <1>3, <1>5, <1>6, <2>2, <2>3, <2>4, <2>5, <2>6, <2>7 DEF PromoterStory
<1>15. WritesApart(p)
  <2>1. \A u \in Txs \ {p} : k \notin DOMAIN txn[u].iw
    BY <1>1, <1>3, <1>13, ClaimedIsUnwritten, RowFacts
  <2> QED BY <1>6, <1>7, <2>1 DEF WritesApart
<1>16. \A u \in Txs \ {p} : SameFor(u)
  BY <1>1, <1>4, <1>11, OthersSame
<1>17. LocksSound'
  BY <1>11, LocksReleased DEF IntentsInv
<1> QED BY <1>1, <1>2, <1>4, <1>10, <1>14, <1>15, <1>16, <1>17, StatementInv

-----------------------------------------------------------------------------
(* Statements of retention.                                                *)

LEMMA RetainerFacts ==
  ASSUME IntentsInv, NEW r \in Retainers
  PROVE  /\ r \in Txs /\ r \notin Promoters /\ r \notin Clients /\ DOMAIN txn = Txs
         /\ TxnTyped(txn[r]) /\ TxnShape(txn[r]) /\ RetainerStory(r)
BY IntentsAssumption DEF IntentsInv, TxnsTyped, TxnTyped, Txs

(* The retention fence is held alone.                                      *)
LEMMA FenceIsExclusive ==
  ASSUME IntentsInv, NEW r \in Txs, Holds(r, "fence", NoRow, "Exclusive"),
         NEW u \in Txs \ {r}, NEW mode \in {"Shared", "Exclusive"}
  PROVE  ~Holds(u, "fence", NoRow, mode)
<1> SUFFICES ASSUME Holds(u, "fence", NoRow, mode) PROVE FALSE
  OBVIOUS
<1>1. Lock(u, "fence", NoRow, mode) \in locks /\ Lock(r, "fence", NoRow, "Exclusive") \in locks
  BY DEF Holds
<1>2. mode \notin Excludes("Exclusive")
  BY <1>1 DEF IntentsInv, LocksSound, Lock
<1> QED BY <1>2 DEF Excludes

LEMMA SelectJobsInv ==
  ASSUME IntentsInv, NEW r \in Retainers, SelectJobs(r)
  PROVE  IntentsInv'
<1>1. /\ r \in Txs /\ r \notin Promoters /\ r \notin Clients /\ DOMAIN txn = Txs
      /\ TxnTyped(txn[r]) /\ TxnShape(txn[r]) /\ RetainerStory(r)
  BY RetainerFacts
<1>2. txn[r].pc = "closed" /\ UNCHANGED <<intent, job, due, enabled, gens, locks>>
  BY DEF SelectJobs
<1>3. PICK K \in SUBSET {k \in Keys : job[k] # NoRow} :
        txn' = [txn EXCEPT ![r].ids = {<<k, job[k].gen>> : k \in K}, ![r].pc = "fence"]
  BY DEF SelectJobs
<1>4. PICK ids : ids = {<<k, job[k].gen>> : k \in K}
  OBVIOUS
<1>5. ids \subseteq Keys \X (1..MaxGen)
  <2> SUFFICES ASSUME NEW k \in K PROVE <<k, job[k].gen>> \in Keys \X (1..MaxGen)
    BY <1>4
  <2>1. k \in Keys /\ job[k] # NoRow
    OBVIOUS
  <2>2. job[k] \in JobRow
    BY <2>1 DEF IntentsInv, RowsSound, LedgerTypeOK
  <2> QED BY <2>1, <2>2 DEF JobRow
<1>6. /\ txn'[r] = [txn[r] EXCEPT !.ids = ids, !.pc = "fence"]
      /\ DOMAIN txn' = Txs /\ \A u \in Txs \ {r} : txn'[u] = txn[u]
  BY Zenon, <1>1, <1>3, <1>4
<1>7. /\ TxnShape(txn'[r]) /\ txn'[r].pc = "fence" /\ txn'[r].call = txn[r].call
      /\ txn'[r].try = txn[r].try /\ txn'[r].iw = txn[r].iw /\ txn'[r].jw = txn[r].jw
      /\ txn'[r].todo = txn[r].todo /\ txn'[r].ids = ids
      /\ txn'[r].deferred = txn[r].deferred
  BY <1>1, <1>6 DEF TxnShape
<1>8. TxnTyped(txn'[r]) /\ WritesApart(r)
  BY <1>1, <1>5, <1>7 DEF TxnTyped, WritesApart
<1>9. \A u \in Txs \ {r} : SameFor(u)
  BY <1>1, <1>2, <1>6, OthersSame
<1>10. LocksSound'
  BY <1>2, LocksReleased DEF IntentsInv
<1>11. NoLocks(r)'
  BY <1>1, <1>2 DEF RetainerStory, NoLocks
<1>12. RetainerStory(r)'
  BY <1>1, <1>2, <1>7, <1>11 DEF RetainerStory, NoLocks
<1> QED BY <1>1, <1>2, <1>6, <1>8, <1>9, <1>10, <1>12, StatementInv

LEMMA FenceExclusiveInv ==
  ASSUME IntentsInv, NEW r \in Retainers, FenceExclusive(r)
  PROVE  IntentsInv'
<1>1. /\ r \in Txs /\ r \notin Promoters /\ r \notin Clients /\ DOMAIN txn = Txs
      /\ TxnTyped(txn[r]) /\ TxnShape(txn[r]) /\ RetainerStory(r)
  BY RetainerFacts
<1>2. /\ txn[r].pc = "fence" /\ UNCHANGED <<intent, job, due, enabled, gens>> /\ Goto(r, "delete_intents")
      /\ LockHolders(r, "fence", NoRow, "Exclusive") = {}
      /\ locks' = locks \cup {Lock(r, "fence", NoRow, "Exclusive")}
  BY DEF FenceExclusive
<1>3. /\ DOMAIN txn' = Txs /\ \A u \in Txs \ {r} : txn'[u] = txn[u]
      /\ TxnShape(txn'[r]) /\ txn'[r].pc = "delete_intents" /\ txn'[r].call = txn[r].call
      /\ txn'[r].try = txn[r].try /\ txn'[r].iw = txn[r].iw /\ txn'[r].jw = txn[r].jw
      /\ txn'[r].todo = txn[r].todo /\ txn'[r].ids = txn[r].ids
      /\ txn'[r].deferred = txn[r].deferred
  BY <1>1, <1>2, GotoFields DEF Places
<1>4. TxnTyped(txn'[r]) /\ WritesApart(r)
  BY <1>1, <1>3 DEF TxnTyped, WritesApart
<1>5. /\ \A l : l.tx # r => (l \in locks' <=> l \in locks)
      /\ \A l \in locks' : l \in locks \/ (l.tx = r /\ l.table = "fence")
      /\ Lock(r, "fence", NoRow, "Exclusive") \in locks'
  BY <1>2 DEF Lock
<1>6. \A u \in Txs \ {r} : SameFor(u)
  BY <1>1, <1>3, <1>5, OthersSame
<1>7. LocksSound'
  <2>1. "Exclusive" \in Modes("fence")
    BY DEF Modes
  <2> QED BY <1>1, <1>2, <2>1, LockGranted DEF IntentsInv
<1>8. RetainerStory(r)'
  BY <1>1, <1>2, <1>3, <1>5 DEF RetainerStory, NoLocks, Holds
<1> QED BY <1>1, <1>2, <1>3, <1>4, <1>6, <1>7, <1>8, StatementInv

LEMMA DeleteIntentInv ==
  ASSUME IntentsInv, NEW r \in Retainers, DeleteIntent(r)
  PROVE  IntentsInv'
<1>1. /\ r \in Txs /\ r \notin Promoters /\ r \notin Clients /\ DOMAIN txn = Txs
      /\ TxnTyped(txn[r]) /\ TxnShape(txn[r]) /\ RetainerStory(r)
  BY RetainerFacts
<1>2. txn[r].pc = "delete_intents" /\ UNCHANGED <<intent, job, due, enabled, gens>>
  BY DEF DeleteIntent
<1>3. ASSUME Linked(r) = {}, UNCHANGED locks,
             txn' = [txn EXCEPT ![r].todo = {k \in Keys : \E g \in 1..MaxGen : <<k, g>> \in txn[r].ids},
                                ![r].pc = "lock_jobs"]
      PROVE  IntentsInv'
  <2>0. PICK todo : todo = {k \in Keys : \E g \in 1..MaxGen : <<k, g>> \in txn[r].ids}
    OBVIOUS
  <2>1. /\ txn'[r] = [txn[r] EXCEPT !.todo = todo, !.pc = "lock_jobs"]
        /\ DOMAIN txn' = Txs /\ \A u \in Txs \ {r} : txn'[u] = txn[u]
    BY Zenon, <1>1, <1>3, <2>0
  <2>2. /\ TxnShape(txn'[r]) /\ txn'[r].pc = "lock_jobs" /\ txn'[r].call = txn[r].call
        /\ txn'[r].try = txn[r].try /\ txn'[r].iw = txn[r].iw /\ txn'[r].jw = txn[r].jw
        /\ txn'[r].todo = todo /\ txn'[r].ids = txn[r].ids
        /\ txn'[r].deferred = txn[r].deferred
    BY <1>1, <2>1 DEF TxnShape
  <2>3. todo \subseteq Keys
    BY <2>0
  <2>4. TxnTyped(txn'[r]) /\ WritesApart(r)
    BY <1>1, <2>2, <2>3 DEF TxnTyped, WritesApart
  <2>5. \A u \in Txs \ {r} : SameFor(u)
    BY <1>1, <1>3, <2>1, OthersSame
  <2>6. LocksSound'
    BY <1>3, LocksReleased DEF IntentsInv
  <2>7. \A i \in Keys : (/\ intent[i] # NoRow /\ intent[i].status = "PROMOTED"
                         /\ <<i, intent[i].job>> \in txn[r].ids) => i \in DOMAIN txn[r].iw
    BY <1>3 DEF Linked, IntentSeen
  <2>8. RetainerStory(r)'
    BY <1>1, <1>2, <1>3, <2>2, <2>7 DEF RetainerStory, Holds
  <2> QED BY <1>1, <1>2, <2>1, <2>4, <2>5, <2>6, <2>8, StatementInv
<1>4. ASSUME NEW k \in Linked(r), LockHolders(r, "intent", k, "Update") = {},
             locks' = locks \cup {Lock(r, "intent", k, "Update")},
             txn' = [txn EXCEPT ![r].iw = Written(@, k, NoRow)]
      PROVE  IntentsInv'
  <2>1. /\ txn'[r] = [txn[r] EXCEPT !.iw = Written(@, k, NoRow)]
        /\ DOMAIN txn' = Txs /\ \A u \in Txs \ {r} : txn'[u] = txn[u]
    BY Zenon, <1>1, <1>4
  <2>2. /\ TxnShape(txn'[r]) /\ txn'[r].pc = "delete_intents" /\ txn'[r].call = txn[r].call
        /\ txn'[r].try = txn[r].try /\ txn'[r].iw = Written(txn[r].iw, k, NoRow) /\ txn'[r].jw = txn[r].jw
        /\ txn'[r].todo = txn[r].todo /\ txn'[r].ids = txn[r].ids
        /\ txn'[r].deferred = txn[r].deferred
    BY <1>1, <1>2, <2>1 DEF TxnShape
  <2>3. /\ DOMAIN txn'[r].iw = DOMAIN txn[r].iw \cup {k} /\ txn'[r].iw[k] = NoRow
        /\ \A i \in DOMAIN txn[r].iw : i # k => txn'[r].iw[i] = txn[r].iw[i]
    <3>1. /\ DOMAIN Written(txn[r].iw, k, NoRow) = DOMAIN txn[r].iw \cup {k}
          /\ Written(txn[r].iw, k, NoRow)[k] = NoRow
          /\ \A i \in DOMAIN txn[r].iw : i # k => Written(txn[r].iw, k, NoRow)[i] = txn[r].iw[i]
      BY DEF Written
    <3> QED BY <2>2, <3>1
  <2>4. k \in Keys /\ k \notin DOMAIN txn[r].iw /\ intent[k] # NoRow /\ intent[k].status = "PROMOTED"
    BY <1>1 DEF Linked, IntentSeen, RetainerStory
  <2>5. Written(txn[r].iw, k, NoRow) \in IntentWrites
    BY <1>1, <2>4, WrittenIntents DEF TxnTyped
  <2>6. TxnTyped(txn'[r])
    BY <1>1, <2>2, <2>5 DEF TxnTyped
  <2>7. /\ \A l : l.tx # r => (l \in locks' <=> l \in locks)
        /\ \A l \in locks' : l \in locks \/ (l.tx = r /\ l.table = "intent")
        /\ \A l \in locks : l \in locks'
        /\ Lock(r, "intent", k, "Update") \in locks'
    BY <1>4 DEF Lock
  <2>8. \A u \in Txs \ {r} : SameFor(u)
    BY <1>1, <2>1, <2>7, OthersSame
  <2>9. LocksSound'
    <3>1. "Update" \in Modes("intent")
      BY DEF Modes
    <3> QED BY <1>1, <1>4, <2>4, <3>1, LockGranted DEF IntentsInv
  <2>10. \A u \in Txs \ {r} : k \notin DOMAIN txn[u].iw
    <3> SUFFICES ASSUME NEW u \in Txs \ {r}, k \in DOMAIN txn[u].iw PROVE FALSE
      OBVIOUS
    <3>1. CASE u \in Clients
      <4>1. ClientStory(u)
        BY <3>1 DEF IntentsInv
      <4> QED BY <2>4, <4>1 DEF ClientStory
    <3>2. CASE u \in Promoters
      BY <2>4, <3>2 DEF IntentsInv, PromoterStory
    <3>3. CASE u \in Retainers
      <4>1. RetainerStory(u)
        BY <3>3 DEF IntentsInv
      <4>2. Holds(u, "fence", NoRow, "Exclusive") /\ Holds(r, "fence", NoRow, "Exclusive")
        BY <1>1, <1>2, <4>1 DEF RetainerStory
      <4> QED BY <1>1, <4>2, FenceIsExclusive
    <3> QED BY <3>1, <3>2, <3>3 DEF Txs
  <2>11. WritesApart(r)
    BY <2>2, <2>3, <2>10 DEF WritesApart
  <2>12. RetainerStory(r)'
    BY <1>1, <1>2, <2>2, <2>3, <2>4, <2>7 DEF RetainerStory, Holds
  <2> QED BY <1>1, <1>2, <2>1, <2>6, <2>8, <2>9, <2>11, <2>12, StatementInv
<1> QED BY <1>3, <1>4 DEF DeleteIntent

LEMMA LockJobInv ==
  ASSUME IntentsInv, NEW r \in Retainers, LockJob(r)
  PROVE  IntentsInv'
<1>1. /\ r \in Txs /\ r \notin Promoters /\ r \notin Clients /\ DOMAIN txn = Txs
      /\ TxnTyped(txn[r]) /\ TxnShape(txn[r]) /\ RetainerStory(r)
  BY RetainerFacts
<1>2. txn[r].pc = "lock_jobs" /\ UNCHANGED <<intent, job, due, enabled, gens>>
  BY DEF LockJob
<1>3. ASSUME UNCHANGED locks, Goto(r, "delete_jobs")
      PROVE  IntentsInv'
  <2>1. /\ DOMAIN txn' = Txs /\ \A u \in Txs \ {r} : txn'[u] = txn[u]
        /\ TxnShape(txn'[r]) /\ txn'[r].pc = "delete_jobs" /\ txn'[r].call = txn[r].call
        /\ txn'[r].try = txn[r].try /\ txn'[r].iw = txn[r].iw /\ txn'[r].jw = txn[r].jw
        /\ txn'[r].todo = txn[r].todo /\ txn'[r].ids = txn[r].ids
        /\ txn'[r].deferred = txn[r].deferred
    BY <1>1, <1>3, GotoFields DEF Places
  <2>2. TxnTyped(txn'[r]) /\ WritesApart(r)
    BY <1>1, <2>1 DEF TxnTyped, WritesApart
  <2>3. \A u \in Txs \ {r} : SameFor(u)
    BY <1>1, <1>3, <2>1, OthersSame
  <2>4. LocksSound'
    BY <1>3, LocksReleased DEF IntentsInv
  <2>5. RetainerStory(r)'
    BY <1>1, <1>2, <1>3, <2>1 DEF RetainerStory, Holds
  <2> QED BY <1>1, <1>2, <2>1, <2>2, <2>3, <2>4, <2>5, StatementInv
<1>4. ASSUME NEW k \in txn[r].todo, LockHolders(r, "job", k, "Update") = {},
             locks' = locks \cup {Lock(r, "job", k, "Update")},
             txn' = [txn EXCEPT ![r].todo = @ \ {k}]
      PROVE  IntentsInv'
  <2>1. /\ txn'[r] = [txn[r] EXCEPT !.todo = @ \ {k}]
        /\ DOMAIN txn' = Txs /\ \A u \in Txs \ {r} : txn'[u] = txn[u]
    BY Zenon, <1>1, <1>4
  <2>2. /\ TxnShape(txn'[r]) /\ txn'[r].pc = "lock_jobs" /\ txn'[r].call = txn[r].call
        /\ txn'[r].try = txn[r].try /\ txn'[r].iw = txn[r].iw /\ txn'[r].jw = txn[r].jw
        /\ txn'[r].todo = txn[r].todo \ {k} /\ txn'[r].ids = txn[r].ids
        /\ txn'[r].deferred = txn[r].deferred
    BY <1>1, <1>2, <2>1 DEF TxnShape
  <2>3. TxnTyped(txn'[r]) /\ WritesApart(r)
    BY <1>1, <2>2 DEF TxnTyped, WritesApart
  <2>4. k \in Keys
    BY <1>1 DEF TxnTyped
  <2>5. /\ \A l : l.tx # r => (l \in locks' <=> l \in locks)
        /\ \A l \in locks : l \in locks'
    BY <1>4 DEF Lock
  <2>6. \A u \in Txs \ {r} : SameFor(u)
    BY <1>1, <2>1, <2>5, OthersSame
  <2>7. LocksSound'
    <3>1. "Update" \in Modes("job")
      BY DEF Modes
    <3> QED BY <1>1, <1>4, <2>4, <3>1, LockGranted DEF IntentsInv
  <2>8. RetainerStory(r)'
    BY <1>1, <1>2, <2>2, <2>5 DEF RetainerStory, Holds
  <2> QED BY <1>1, <1>2, <2>1, <2>3, <2>6, <2>7, <2>8, StatementInv
<1> QED BY <1>3, <1>4 DEF LockJob

LEMMA DeleteJobsInv ==
  ASSUME IntentsInv, NEW r \in Retainers, DeleteJobs(r)
  PROVE  IntentsInv'
<1>1. /\ r \in Txs /\ r \notin Promoters /\ r \notin Clients /\ DOMAIN txn = Txs
      /\ TxnTyped(txn[r]) /\ TxnShape(txn[r]) /\ RetainerStory(r)
  BY RetainerFacts
<1>2. txn[r].pc = "delete_jobs" /\ UNCHANGED <<intent, job, due, enabled, gens, locks>>
  BY DEF DeleteJobs
<1>3. PICK K : K = {k \in Keys : job[k] # NoRow /\ <<k, job[k].gen>> \in txn[r].ids}
  OBVIOUS
<1>4. PICK rows : rows = [k \in K |-> NoRow]
  OBVIOUS
<1>5. /\ txn'[r] = [txn[r] EXCEPT !.pc = "done", !.jw = rows]
      /\ DOMAIN txn' = Txs /\ \A u \in Txs \ {r} : txn'[u] = txn[u]
  BY Zenon, <1>1, <1>3, <1>4 DEF DeleteJobs
<1>6. /\ TxnShape(txn'[r]) /\ txn'[r].pc = "done" /\ txn'[r].call = txn[r].call
      /\ txn'[r].try = txn[r].try /\ txn'[r].iw = txn[r].iw /\ txn'[r].jw = rows
      /\ txn'[r].todo = txn[r].todo /\ txn'[r].ids = txn[r].ids
      /\ txn'[r].deferred = txn[r].deferred
  BY <1>1, <1>5 DEF TxnShape
<1>7. rows \in JobWrites /\ DOMAIN rows = K /\ \A k \in K : rows[k] = NoRow
  <2>1. K \in SUBSET Keys /\ rows \in [K -> JobRow \cup {NoRow}]
    BY <1>3, <1>4
  <2> QED BY <1>4, <2>1 DEF JobWrites
<1>8. TxnTyped(txn'[r])
  BY <1>1, <1>6, <1>7 DEF TxnTyped
<1>9. \A u \in Txs \ {r} : SameFor(u)
  BY <1>1, <1>2, <1>5, OthersSame
<1>10. LocksSound'
  BY <1>2, LocksReleased DEF IntentsInv
<1>11. \A u \in Txs \ {r} : K \cap DOMAIN txn[u].jw = {}
  <2> SUFFICES ASSUME NEW u \in Txs \ {r}, NEW k \in K, k \in DOMAIN txn[u].jw PROVE FALSE
    OBVIOUS
  <2>0. job[k] # NoRow
    BY <1>3
  <2>1. CASE u \in Clients
    <3>1. ClientStory(u)
      BY <2>1 DEF IntentsInv
    <3> QED BY <2>0, <3>1 DEF ClientStory
  <2>2. CASE u \in Promoters
    BY <2>0, <2>2 DEF IntentsInv, PromoterStory
  <2>3. CASE u \in Retainers
    <3>1. RetainerStory(u)
      BY <2>3 DEF IntentsInv
    <3>2. Holds(u, "fence", NoRow, "Exclusive") /\ Holds(r, "fence", NoRow, "Exclusive")
      BY <1>1, <1>2, <3>1 DEF RetainerStory
    <3> QED BY <1>1, <3>2, FenceIsExclusive
  <2> QED BY <2>1, <2>2, <2>3 DEF Txs
<1>12. WritesApart(r)
  BY <1>6, <1>7, <1>11 DEF WritesApart
<1>13. RetainerStory(r)'
  BY <1>1, <1>2, <1>3, <1>6, <1>7 DEF RetainerStory, Holds
<1> QED BY <1>1, <1>2, <1>5, <1>8, <1>9, <1>10, <1>12, <1>13, StatementInv

-----------------------------------------------------------------------------
(* Ends of transactions.                                                   *)

LEMMA ClosedTyped == TxnTyped(Closed) /\ DOMAIN Closed.iw = {} /\ DOMAIN Closed.jw = {}
<1>1. /\ Closed.pc = "closed" /\ Closed.call = NoCall /\ Closed.try = 0 /\ Closed.iw = <<>> /\ Closed.jw = <<>>
      /\ Closed.todo = {} /\ Closed.ids = {} /\ Closed.deferred = {} /\ TxnShape(Closed)
  BY DEF Closed, TxnShape
<1> QED BY <1>1, NothingWritten DEF TxnTyped

LEMMA ClosedStories ==
  ASSUME NEW t \in Txs, txn'[t] = Closed, NoLocks(t)'
  PROVE  ClientStory(t)' /\ PromoterStory(t)' /\ RetainerStory(t)'
<1>1. /\ Closed.pc = "closed" /\ Closed.todo = {}
      /\ DOMAIN Closed.iw = {} /\ DOMAIN Closed.jw = {}
  BY NothingWritten DEF Closed
<1>2. \A l \in locks' : l.tx # t
  BY DEF NoLocks
<1>3. ClientStory(t)'
  BY <1>1, <1>2 DEF ClientStory
<1>4. PromoterStory(t)'
  BY <1>1, <1>2 DEF PromoterStory
<1>5. RetainerStory(t)'
  BY <1>1, <1>2 DEF RetainerStory
<1> QED BY <1>3, <1>4, <1>5

LEMMA CloseFacts ==
  ASSUME IntentsInv, NEW t \in Txs, Close(t)
  PROVE  /\ DOMAIN txn' = Txs /\ txn'[t] = Closed /\ \A u \in Txs \ {t} : SameFor(u)
         /\ TxnTyped(txn'[t]) /\ LocksSound' /\ WritesApart(t)
         /\ ClientStory(t)' /\ PromoterStory(t)' /\ RetainerStory(t)'
<1>1. DOMAIN txn = Txs
  BY DEF IntentsInv, TxnsTyped
<1>2. DOMAIN txn' = Txs /\ txn'[t] = Closed /\ \A u \in Txs \ {t} : txn'[u] = txn[u]
  BY Zenon, <1>1 DEF Close
<1>3. /\ \A l : l.tx # t => (l \in locks' <=> l \in locks)
      /\ locks' \subseteq locks /\ NoLocks(t)'
  BY DEF Close, NoLocks
<1>4. \A u \in Txs \ {t} : SameFor(u)
  BY <1>2, <1>3, OthersSame
<1>5. LocksSound'
  BY <1>3, LocksReleased DEF IntentsInv
<1>6. WritesApart(t)
  BY <1>2, ClosedTyped DEF WritesApart
<1> QED BY <1>2, <1>3, <1>4, <1>5, <1>6, ClosedTyped, ClosedStories

LEMMA RollbackInv ==
  ASSUME IntentsInv, NEW t \in Txs, Rollback(t)
  PROVE  IntentsInv'
BY CloseFacts, StatementInv DEF Rollback

-----------------------------------------------------------------------------
(* What another transaction's commit may do to the rows that u relies on:  *)
(* record an intent where u has not, resolve one that u has not claimed,   *)
(* remove a promoted one that u has no lock on.                            *)
IntentRely(u, k) ==
  \/ intent'[k] = intent[k]
  \/ /\ intent[k] = NoRow /\ (u \in Clients => k \notin DOMAIN txn[u].iw)
     /\ intent'[k] # NoRow /\ intent'[k].status = "PENDING"
  \/ /\ intent[k] # NoRow /\ intent[k].status = "PENDING"
     /\ intent'[k] # NoRow /\ intent'[k].request = intent[k].request
     /\ ~Holds(u, "intent", k, "NoKeyUpdate") /\ ~Holds(u, "fence", NoRow, "Exclusive")
  \/ /\ intent[k] # NoRow /\ intent[k].status = "PROMOTED" /\ intent'[k] = NoRow
     /\ ~Holds(u, "intent", k, "KeyShare") /\ ~Holds(u, "intent", k, "Update")

(* And: insert a job that u has not, or remove one, behind the fence.      *)
JobRely(u, k) ==
  \/ job'[k] = job[k] /\ gens'[k] = gens[k]
  \/ job[k] = NoRow /\ (u \in Clients \cup Promoters => k \notin DOMAIN txn[u].jw)
  \/ /\ job[k] # NoRow /\ job'[k] = NoRow
     /\ ~Holds(u, "fence", NoRow, "Shared") /\ ~Holds(u, "fence", NoRow, "Exclusive")

Rely(u) == \A k \in Keys : IntentRely(u, k) /\ JobRely(u, k)

LEMMA ClientRelies ==
  ASSUME NEW c \in Clients, ClientStory(c), TxnTyped(txn[c]), SameFor(c), Rely(c)
  PROVE  ClientStory(c)'
<1>1. c \in Txs /\ OwnLocks(c)' = OwnLocks(c) /\ txn'[c] = txn[c]
  BY DEF Txs, SameFor
<1>2. /\ \A table, k, mode : Holds(c, table, k, mode)' <=> Holds(c, table, k, mode)
      /\ NoLocks(c)' <=> NoLocks(c)
  BY <1>1, HoldsKept
<1>3. \A l : (l \in locks' /\ l.tx = c) <=> (l \in locks /\ l.tx = c)
  BY <1>1, OwnLocksKept
<1>k. PICK k : k = txn[c].call.key
  OBVIOUS
<1>4. txn[c].pc # "closed" => k \in Keys
  BY <1>k, IntentsAssumption DEF ClientStory, Call
<1>5. txn[c].pc = "closed" => DOMAIN txn[c].iw = {} /\ DOMAIN txn[c].jw = {}
  BY DEF ClientStory
<1>6. k \in DOMAIN txn[c].iw => intent'[k] = NoRow
  BY <1>k, <1>4, <1>5 DEF ClientStory, Rely, IntentRely
<1>7. k \in DOMAIN txn[c].jw => job'[k] = NoRow /\ gens'[k] = gens[k]
  BY <1>k, <1>4, <1>5 DEF ClientStory, Rely, JobRely
<1>8. (intent[k] # NoRow /\ txn[c].pc # "closed" /\ Holds(c, "intent", k, "KeyShare")) =>
        intent'[k] # NoRow /\ intent'[k].request = intent[k].request
  BY <1>4 DEF Rely, IntentRely
<1> QED BY <1>k, <1>1, <1>2, <1>3, <1>6, <1>7, <1>8 DEF ClientStory

LEMMA PromoterRelies ==
  ASSUME NEW p \in Promoters, PromoterStory(p), TxnTyped(txn[p]), SameFor(p), Rely(p)
  PROVE  PromoterStory(p)'
<1>1. p \in Txs /\ OwnLocks(p)' = OwnLocks(p) /\ txn'[p] = txn[p]
  BY DEF Txs, SameFor
<1>2. /\ \A table, k, mode : Holds(p, table, k, mode)' <=> Holds(p, table, k, mode)
      /\ NoLocks(p)' <=> NoLocks(p)
  BY <1>1, HoldsKept
<1>3. \A l : (l \in locks' /\ l.tx = p) <=> (l \in locks /\ l.tx = p)
  BY <1>1, OwnLocksKept
<1>4. /\ txn[p].todo \subseteq Keys /\ DOMAIN txn[p].iw \subseteq Keys /\ DOMAIN txn[p].jw \subseteq Keys
  BY WritesTyped DEF TxnTyped
<1>5. \A i \in txn[p].todo \cup DOMAIN txn[p].iw : intent'[i] = intent[i]
  BY <1>4 DEF PromoterStory, Rely, IntentRely
<1>6. \A i \in DOMAIN txn[p].jw : job'[i] = job[i] /\ gens'[i] = gens[i] /\ intent'[i] = intent[i]
  <2> SUFFICES ASSUME NEW i \in DOMAIN txn[p].jw
               PROVE  job'[i] = job[i] /\ gens'[i] = gens[i] /\ intent'[i] = intent[i]
    OBVIOUS
  <2>1. job[i] = NoRow /\ i \in txn[p].todo \cup DOMAIN txn[p].iw
    BY DEF PromoterStory
  <2> QED BY <1>4, <1>5, <2>1 DEF Rely, JobRely
<1>7. \A i \in txn[p].todo \cup DOMAIN txn[p].iw : job[i] # NoRow => job'[i] = job[i]
  <2> SUFFICES ASSUME NEW i \in txn[p].todo \cup DOMAIN txn[p].iw, job[i] # NoRow PROVE job'[i] = job[i]
    OBVIOUS
  <2>1. Holds(p, "fence", NoRow, "Shared")
    BY DEF PromoterStory
  <2> QED BY <1>4, <2>1 DEF Rely, JobRely
<1>8. \A i \in txn[p].todo \cup DOMAIN txn[p].iw : HasJob(p, i) => HasJob(p, i)' /\ JobSeen(p, i)' = JobSeen(p, i)
  BY <1>1, <1>5, <1>7 DEF HasJob, JobSeen
<1>9. \A i \in DOMAIN txn[p].iw : Resolved(p, i)'
  <2> SUFFICES ASSUME NEW i \in DOMAIN txn[p].iw PROVE Resolved(p, i)'
    OBVIOUS
  <2>1. Resolved(p, i)
    BY DEF PromoterStory
  <2> QED BY <1>1, <1>5, <1>7, <1>8, <2>1 DEF Resolved
<1>10. \A i \in txn[p].todo : PromotionCall(i)' = PromotionCall(i)
  BY <1>5 DEF PromotionCall
<1>11. \A i \in DOMAIN txn'[p].jw :
          /\ job'[i] = NoRow /\ gens'[i] < MaxGen
          /\ txn'[p].jw[i] = [request |-> intent'[i].request, gen |-> gens'[i] + 1]
          /\ \/ i \in DOMAIN txn'[p].iw
             \/ i = txn'[p].call.key /\ txn'[p].pc = "enqueued"
  BY <1>1, <1>6 DEF PromoterStory
<1> QED BY <1>1, <1>2, <1>3, <1>5, <1>8, <1>9, <1>10, <1>11 DEF PromoterStory

LEMMA RetainerRelies ==
  ASSUME NEW r \in Retainers, RetainerStory(r), TxnTyped(txn[r]), SameFor(r), Rely(r)
  PROVE  RetainerStory(r)'
<1>1. r \in Txs /\ OwnLocks(r)' = OwnLocks(r) /\ txn'[r] = txn[r]
  BY DEF Txs, SameFor
<1>2. /\ \A table, k, mode : Holds(r, table, k, mode)' <=> Holds(r, table, k, mode)
      /\ NoLocks(r)' <=> NoLocks(r)
  BY <1>1, HoldsKept
<1>3. \A l : (l \in locks' /\ l.tx = r) <=> (l \in locks /\ l.tx = r)
  BY <1>1, OwnLocksKept
<1>4. DOMAIN txn[r].iw \subseteq Keys /\ DOMAIN txn[r].jw \subseteq Keys
  BY WritesTyped DEF TxnTyped
<1>5. \A i \in DOMAIN txn[r].iw : intent'[i] = intent[i]
  BY <1>4 DEF RetainerStory, Rely, IntentRely
<1>6. \A i \in DOMAIN txn[r].jw : job'[i] = job[i]
  <2> SUFFICES ASSUME NEW i \in DOMAIN txn[r].jw PROVE job'[i] = job[i]
    OBVIOUS
  <2>1. job[i] # NoRow /\ Holds(r, "fence", NoRow, "Exclusive")
    BY DEF RetainerStory
  <2> QED BY <1>4, <2>1 DEF Rely, JobRely
<1>7. txn[r].pc \in {"lock_jobs", "delete_jobs", "done"} =>
        \A i \in Keys : (/\ intent'[i] # NoRow /\ intent'[i].status = "PROMOTED"
                         /\ <<i, intent'[i].job>> \in txn[r].ids) => i \in DOMAIN txn[r].iw
  <2> SUFFICES ASSUME txn[r].pc \in {"lock_jobs", "delete_jobs", "done"}, NEW i \in Keys,
                      intent'[i] # NoRow, intent'[i].status = "PROMOTED", <<i, intent'[i].job>> \in txn[r].ids
               PROVE  i \in DOMAIN txn[r].iw
    OBVIOUS
  <2>1. Holds(r, "fence", NoRow, "Exclusive")
    BY DEF RetainerStory
  <2>2. intent'[i] = intent[i]
    BY <2>1 DEF Rely, IntentRely
  <2> QED BY <2>2 DEF RetainerStory
<1> QED BY <1>1, <1>2, <1>3, <1>5, <1>6, <1>7 DEF RetainerStory

-----------------------------------------------------------------------------
(* What a commit publishes.                                                *)

LEMMA CommitRows ==
  ASSUME IntentsInv, NEW t \in Txs, Commit(t)
  PROVE  /\ LedgerTypeOK' /\ due' \in [Keys -> BOOLEAN] /\ gens' \in [Keys -> 0..MaxGen]
         /\ \A k \in Keys : job'[k] # NoRow => job'[k].gen = gens'[k]
         /\ \A k \in Keys : intent'[k] = IntentSeen(t, k) /\ job'[k] = JobSeen(t, k)
         /\ \A k \in Keys : job'[k] = job[k] => gens'[k] = gens[k]
<1>1. \A k \in Keys : IntentSeen(t, k) \in IntentRow \cup {NoRow}
  <2> SUFFICES ASSUME NEW k \in Keys PROVE IntentSeen(t, k) \in IntentRow \cup {NoRow}
    OBVIOUS
  <2>1. intent[k] \in IntentRow \cup {NoRow} /\ txn[t].iw \in IntentWrites
    BY DEF IntentsInv, RowsSound, LedgerTypeOK, TxnsTyped, TxnTyped
  <2> QED BY <2>1, WritesTyped DEF IntentSeen
<1>2. \A k \in Keys : JobSeen(t, k) \in JobRow \cup {NoRow}
  BY JobsSeen
<1>3. /\ intent' = [k \in Keys |-> IntentSeen(t, k)] /\ job' = [k \in Keys |-> JobSeen(t, k)]
      /\ due' = [k \in Keys |-> due[k] /\ k \notin txn[t].deferred]
      /\ gens' = [k \in Keys |-> IF JobSeen(t, k) = NoRow THEN gens[k] ELSE JobSeen(t, k).gen]
  BY DEF Commit
<1>4. LedgerTypeOK'
  BY <1>1, <1>2, <1>3 DEF LedgerTypeOK
<1>5. due' \in [Keys -> BOOLEAN]
  BY Zenon, <1>3
<1>6. \A k \in Keys : gens[k] \in 0..MaxGen /\ (job[k] # NoRow => job[k].gen = gens[k])
  BY DEF IntentsInv, RowsSound
<1>7. \A k \in Keys : JobSeen(t, k) # NoRow => JobSeen(t, k).gen \in 0..MaxGen
  BY <1>2, RowFacts DEF JobRow
<1>8. gens' \in [Keys -> 0..MaxGen]
  BY <1>3, <1>6, <1>7
<1> QED BY <1>3, <1>4, <1>5, <1>6, <1>8

LEMMA ClientCommits ==
  ASSUME IntentsInv, NEW c \in Clients, Commit(c), NEW k \in Keys
  PROVE  /\ KeyStep(intent[k], intent'[k], job[k], job'[k])
         /\ \A u \in Txs \ {c} : IntentRely(u, k) /\ JobRely(u, k)
<1>1. c \in Txs /\ ClientStory(c) /\ txn[c].pc = "done"
  BY DEF IntentsInv, Txs, Commit
<1>2. /\ intent'[k] = IntentSeen(c, k) /\ job'[k] = JobSeen(c, k)
      /\ job'[k] = job[k] => gens'[k] = gens[k]
      /\ job'[k] \in JobRow \cup {NoRow}
  BY <1>1, CommitRows DEF LedgerTypeOK
<1>3. txn[c].call.request \in Requests
  BY <1>1, IntentsAssumption DEF ClientStory, Call
<1>4. \/ intent'[k] = intent[k] /\ k \notin DOMAIN txn[c].iw
      \/ /\ intent[k] = NoRow /\ k \in DOMAIN txn[c].iw
         /\ intent'[k] = [request |-> txn[c].call.request, status |-> "PENDING", job |-> 0]
  BY <1>1, <1>2 DEF ClientStory, IntentSeen
<1>5. \/ job'[k] = job[k] /\ k \notin DOMAIN txn[c].jw
      \/ /\ job[k] = NoRow /\ k \in DOMAIN txn[c].jw
         /\ job'[k] = [request |-> txn[c].call.request, gen |-> gens[k] + 1]
  BY <1>1, <1>2 DEF ClientStory, JobSeen
<1>6. k \in DOMAIN txn[c].jw => JobCreated(job[k], job'[k], txn[c].call.request)
  <2>1. ASSUME k \in DOMAIN txn[c].jw PROVE job'[k] \in JobRow
    <3>1. gens[k] \in 0..MaxGen /\ gens[k] < MaxGen
      BY <1>1, <2>1 DEF ClientStory, IntentsInv, RowsSound
    <3> QED BY <1>3, <1>5, <2>1, <3>1, RowFacts DEF JobRow
  <2> QED BY <1>5, <2>1 DEF JobCreated
<1>7. KeyStep(intent[k], intent'[k], job[k], job'[k])
  <2>1. CASE k \in DOMAIN txn[c].iw
    <3>1. JobKept(job[k], job'[k]) \/ JobCreated(job[k], job'[k], txn[c].call.request)
      BY <1>5, <1>6 DEF JobKept
    <3>2. Recorded(intent[k], intent'[k], job[k], job'[k])
      BY <1>3, <1>4, <2>1, <3>1 DEF Recorded
    <3> QED BY <3>2 DEF KeyStep
  <2>2. CASE k \notin DOMAIN txn[c].iw /\ k \in DOMAIN txn[c].jw
    BY <1>3, <1>4, <1>6, <2>2 DEF KeyStep, Enqueued
  <2>3. CASE k \notin DOMAIN txn[c].iw /\ k \notin DOMAIN txn[c].jw
    BY <1>4, <1>5, <2>3 DEF KeyStep
  <2> QED BY <2>1, <2>2, <2>3
<1>8. ASSUME NEW u \in Txs \ {c} PROVE IntentRely(u, k) /\ JobRely(u, k)
  <2>1. IntentRely(u, k)
    <3>1. u \in Clients => DOMAIN txn[c].iw \cap DOMAIN txn[u].iw = {}
      BY DEF IntentsInv, WritersApart
    <3>2. CASE intent[k] = NoRow /\ k \in DOMAIN txn[c].iw
      <4>1. intent'[k].status = "PENDING" /\ intent'[k] \in IntentRow
        BY <1>3, <1>4, <3>2, RowFacts DEF IntentRow, Statuses
      <4>2. intent'[k] # NoRow
        BY <4>1, RowFacts
      <4> QED BY <3>1, <3>2, <4>1, <4>2 DEF IntentRely
    <3> QED BY <1>4, <3>2 DEF IntentRely
  <2>2. JobRely(u, k)
    <3>1. u \in Clients \cup Promoters => DOMAIN txn[c].jw \cap DOMAIN txn[u].jw = {}
      BY DEF IntentsInv, WritersApart
    <3> QED BY <1>2, <1>5, <3>1 DEF JobRely
  <2> QED BY <2>1, <2>2
<1> QED BY <1>7, <1>8

LEMMA PromoterCommits ==
  ASSUME IntentsInv, NEW p \in Promoters, Commit(p), NEW k \in Keys
  PROVE  /\ KeyStep(intent[k], intent'[k], job[k], job'[k])
         /\ \A u \in Txs \ {p} : IntentRely(u, k) /\ JobRely(u, k)
<1>1. p \in Txs /\ PromoterStory(p) /\ txn[p].pc = "done"
  BY DEF IntentsInv, Txs, Commit
<1>2. /\ intent'[k] = IntentSeen(p, k) /\ job'[k] = JobSeen(p, k)
      /\ job'[k] = job[k] => gens'[k] = gens[k]
      /\ job'[k] \in JobRow \cup {NoRow}
  BY <1>1, CommitRows DEF LedgerTypeOK
<1>3. DOMAIN txn[p].jw \subseteq DOMAIN txn[p].iw /\ Holds(p, "fence", NoRow, "Shared")
  BY <1>1 DEF PromoterStory
<1>4. k \notin DOMAIN txn[p].iw => intent'[k] = intent[k] /\ job'[k] = job[k]
  BY <1>2, <1>3 DEF IntentSeen, JobSeen
<1>5. ASSUME k \in DOMAIN txn[p].iw
      PROVE  /\ intent[k] \in IntentRow /\ intent[k].status = "PENDING"
             /\ Holds(p, "intent", k, "NoKeyUpdate") /\ Resolved(p, k)
  <2>1. intent[k] # NoRow /\ intent[k].status = "PENDING" /\ Holds(p, "intent", k, "NoKeyUpdate")
    BY <1>1, <1>5 DEF PromoterStory
  <2>2. intent[k] \in IntentRow
    BY <2>1 DEF IntentsInv, RowsSound, LedgerTypeOK
  <2> QED BY <1>1, <1>5, <2>1, <2>2 DEF PromoterStory
<1>6. k \in DOMAIN txn[p].jw =>
        job[k] = NoRow /\ gens[k] < MaxGen /\ job'[k] = [request |-> intent[k].request, gen |-> gens[k] + 1]
  BY <1>1, <1>2 DEF PromoterStory, JobSeen
<1>7. k \notin DOMAIN txn[p].jw => job'[k] = job[k]
  BY <1>2 DEF JobSeen
<1>8. k \in DOMAIN txn[p].iw => intent'[k] # NoRow /\ intent'[k].request = intent[k].request
  <2> SUFFICES ASSUME k \in DOMAIN txn[p].iw
               PROVE  intent'[k] # NoRow /\ intent'[k].request = intent[k].request
    OBVIOUS
  <2>1. intent'[k] = txn[p].iw[k] /\ intent'[k] \in IntentRow \cup {NoRow}
    BY <1>1, <1>2, CommitRows DEF IntentSeen, LedgerTypeOK
  <2>2. intent[k] = [request |-> intent[k].request, status |-> intent[k].status, job |-> intent[k].job]
    BY <1>5 DEF IntentRow
  <2>3. /\ [intent[k] EXCEPT !.status = "CONFLICTED"].request = intent[k].request
        /\ [intent[k] EXCEPT !.status = "PROMOTED", !.job = JobSeen(p, k).gen].request = intent[k].request
    BY <2>2
  <2>4. intent'[k].request = intent[k].request
    BY <1>5, <2>1, <2>3 DEF Resolved
  <2>5. intent[k] \in IntentRow /\ "CONFLICTED" \in Statuses /\ "PROMOTED" \in Statuses /\ 0 \in 0..MaxGen
    BY <1>5, RowFacts DEF Statuses
  <2>6. HasJob(p, k) => JobSeen(p, k).gen \in 0..MaxGen
    BY <1>1, JobsSeen, RowFacts DEF HasJob, JobRow
  <2>7. intent'[k] \in IntentRow
    <3>1. CASE txn[p].iw[k] = intent[k]
      BY <2>1, <2>5, <3>1
    <3>2. CASE txn[p].iw[k] = [intent[k] EXCEPT !.status = "CONFLICTED"]
      <4>1. [intent[k] EXCEPT !.status = "CONFLICTED"] \in IntentRow
        BY <2>5, MarkedRows, Zenon
      <4> QED BY <2>1, <3>2, <4>1
    <3>3. CASE /\ txn[p].iw[k] = [intent[k] EXCEPT !.status = "PROMOTED", !.job = JobSeen(p, k).gen]
               /\ HasJob(p, k)
      <4>1. JobSeen(p, k).gen \in 0..MaxGen
        BY <2>6, <3>3
      <4>2. [intent[k] EXCEPT !.status = "PROMOTED", !.job = JobSeen(p, k).gen] \in IntentRow
        BY <2>5, <4>1, MarkedRows
      <4> QED BY <2>1, <3>3, <4>2
    <3> QED BY <1>5, <3>1, <3>2, <3>3 DEF Resolved
  <2> QED BY <2>4, <2>7, RowFacts
<1>9. KeyStep(intent[k], intent'[k], job[k], job'[k])
  <2>1. CASE k \notin DOMAIN txn[p].iw
    BY <1>4, <2>1 DEF KeyStep
  <2>2. CASE k \in DOMAIN txn[p].iw
    <3>0. intent'[k] = txn[p].iw[k] /\ intent[k] \in IntentRow /\ intent[k].status = "PENDING"
      BY <1>2, <1>5, <2>2 DEF IntentSeen
    <3>1. CASE txn[p].iw[k] = intent[k] /\ k \notin DOMAIN txn[p].jw
      BY <1>7, <3>0, <3>1 DEF KeyStep
    <3>2. CASE /\ txn[p].iw[k] = [intent[k] EXCEPT !.status = "CONFLICTED"] /\ k \notin DOMAIN txn[p].jw
               /\ intent[k].request \in Malformed \/ (job[k] # NoRow /\ job[k].request # intent[k].request)
      <4>1. JobKept(job[k], job'[k])
        BY <1>7, <3>2 DEF JobKept
      <4>2. job[k] # NoRow => job[k] \in JobRow
        BY DEF IntentsInv, RowsSound, LedgerTypeOK
      <4>3. Conflicted(intent[k], intent'[k], job[k], job'[k])
        BY <3>0, <3>2, <4>1, <4>2 DEF Conflicted
      <4> QED BY <4>3 DEF KeyStep
    <3>3. CASE /\ txn[p].iw[k] = [intent[k] EXCEPT !.status = "PROMOTED", !.job = JobSeen(p, k).gen]
               /\ HasJob(p, k)
      <4>1. job'[k] \in JobRow /\ job'[k].request = intent[k].request
        BY <1>2, <3>3 DEF HasJob
      <4>2. JobKept(job[k], job'[k]) \/ JobCreated(job[k], job'[k], intent[k].request)
        BY <1>6, <1>7, <4>1 DEF JobKept, JobCreated
      <4>3. intent'[k] = [intent[k] EXCEPT !.status = "PROMOTED", !.job = job'[k].gen]
        BY <1>2, <3>0, <3>3
      <4>4. Promoted(intent[k], intent'[k], job[k], job'[k])
        BY <3>0, <4>1, <4>2, <4>3 DEF Promoted
      <4> QED BY <4>4 DEF KeyStep
    <3>4. Resolved(p, k)
      BY <1>5, <2>2
    <3> QED BY <3>1, <3>2, <3>3, <3>4 DEF Resolved
  <2> QED BY <2>1, <2>2
<1>10. ASSUME NEW u \in Txs \ {p} PROVE IntentRely(u, k) /\ JobRely(u, k)
  <2>1. IntentRely(u, k)
    <3>1. CASE k \notin DOMAIN txn[p].iw
      BY <1>4, <3>1 DEF IntentRely
    <3>2. CASE k \in DOMAIN txn[p].iw
      <4>1. ~Holds(u, "fence", NoRow, "Exclusive")
        BY <1>1, <1>3, FenceIsExclusive
      <4>2. ~Holds(u, "intent", k, "NoKeyUpdate")
        <5> SUFFICES ASSUME Holds(u, "intent", k, "NoKeyUpdate") PROVE FALSE
          OBVIOUS
        <5>1. Lock(u, "intent", k, "NoKeyUpdate") \in locks /\ Lock(p, "intent", k, "NoKeyUpdate") \in locks
          BY <1>5, <3>2 DEF Holds
        <5>2. "NoKeyUpdate" \notin Excludes("NoKeyUpdate")
          BY <5>1 DEF IntentsInv, LocksSound, Lock
        <5> QED BY <5>2 DEF Excludes
      <4>3. intent[k] # NoRow
        BY <1>5, <3>2, RowFacts
      <4> QED BY <1>5, <1>8, <3>2, <4>1, <4>2, <4>3 DEF IntentRely
    <3> QED BY <3>1, <3>2
  <2>2. JobRely(u, k)
    <3>1. u \in Clients \cup Promoters => DOMAIN txn[p].jw \cap DOMAIN txn[u].jw = {}
      BY DEF IntentsInv, WritersApart
    <3> QED BY <1>2, <1>6, <1>7, <3>1 DEF JobRely
  <2> QED BY <2>1, <2>2
<1> QED BY <1>9, <1>10

LEMMA RetainerCommits ==
  ASSUME IntentsInv, NEW r \in Retainers, Commit(r), NEW k \in Keys
  PROVE  /\ KeyStep(intent[k], intent'[k], job[k], job'[k])
         /\ \A u \in Txs \ {r} : IntentRely(u, k) /\ JobRely(u, k)
<1>1. r \in Txs /\ RetainerStory(r) /\ txn[r].pc = "done"
  BY DEF IntentsInv, Txs, Commit
<1>2. /\ intent'[k] = IntentSeen(r, k) /\ job'[k] = JobSeen(r, k)
      /\ job'[k] = job[k] => gens'[k] = gens[k]
  BY <1>1, CommitRows
<1>3. Holds(r, "fence", NoRow, "Exclusive")
  BY <1>1 DEF RetainerStory
<1>4. \/ intent'[k] = intent[k] /\ k \notin DOMAIN txn[r].iw
      \/ /\ intent[k] # NoRow /\ intent[k].status = "PROMOTED" /\ k \in DOMAIN txn[r].iw
         /\ intent'[k] = NoRow /\ Holds(r, "intent", k, "Update")
  BY <1>1, <1>2 DEF RetainerStory, IntentSeen
<1>5. \/ job'[k] = job[k] /\ k \notin DOMAIN txn[r].jw
      \/ job[k] # NoRow /\ job'[k] = NoRow /\ <<k, job[k].gen>> \in txn[r].ids /\ k \in DOMAIN txn[r].jw
  BY <1>1, <1>2 DEF RetainerStory, JobSeen
<1>6. intent[k] \in IntentRow \cup {NoRow} /\ job[k] \in JobRow \cup {NoRow}
  BY DEF IntentsInv, RowsSound, LedgerTypeOK
<1>7. intent[k] # NoRow /\ intent[k].status = "PROMOTED" => job[k] # NoRow /\ job[k].gen = intent[k].job
  BY DEF IntentsInv, RowsSound, PromotedIntentsHaveTheirJob
<1>8. KeyStep(intent[k], intent'[k], job[k], job'[k])
  <2>1. CASE k \in DOMAIN txn[r].jw
    <3>1. intent[k] # NoRow /\ intent[k].status = "PROMOTED" => k \in DOMAIN txn[r].iw
      BY <1>1, <1>5, <1>7, <2>1 DEF RetainerStory
    <3>2. JobRemoved(job[k], job'[k])
      BY <1>5, <1>6, <2>1 DEF JobRemoved
    <3>3. Retained(intent[k], intent'[k], job[k], job'[k])
      BY <1>4, <1>6, <1>7, <3>1, <3>2, RowFacts DEF Retained
    <3> QED BY <3>3 DEF KeyStep
  <2>2. CASE k \notin DOMAIN txn[r].jw
    BY <1>4, <1>5, <1>6, <2>2 DEF KeyStep, Expired, JobKept
  <2> QED BY <2>1, <2>2
<1>9. ASSUME NEW u \in Txs \ {r} PROVE IntentRely(u, k) /\ JobRely(u, k)
  <2>1. IntentRely(u, k)
    <3>1. ASSUME NEW mode \in {"KeyShare", "Update"}, Holds(u, "intent", k, mode), Holds(r, "intent", k, "Update")
          PROVE  FALSE
      <4>1. Lock(u, "intent", k, mode) \in locks /\ Lock(r, "intent", k, "Update") \in locks
        BY <3>1 DEF Holds
      <4>2. mode \notin Excludes("Update")
        BY <4>1 DEF IntentsInv, LocksSound, Lock
      <4> QED BY <4>2 DEF Excludes
    <3> QED BY <1>4, <3>1 DEF IntentRely
  <2>2. JobRely(u, k)
    <3>1. ~Holds(u, "fence", NoRow, "Shared") /\ ~Holds(u, "fence", NoRow, "Exclusive")
      BY <1>1, <1>3, FenceIsExclusive
    <3> QED BY <1>2, <1>5, <3>1 DEF JobRely
  <2> QED BY <2>1, <2>2
<1> QED BY <1>8, <1>9

-----------------------------------------------------------------------------
(* Publication, by a commit or by retention by age.                        *)

(* A promoted intent has its job, of a key's two rows.                     *)
HasItsJob(i, j) ==
  (i # NoRow /\ i.status = "PROMOTED") => j # NoRow /\ j.gen = i.job /\ j.request = i.request

LEMMA LedgerKeepsJobs ==
  ASSUME NEW i \in IntentRow \cup {NoRow}, NEW j \in JobRow \cup {NoRow},
         NEW newi \in IntentRow \cup {NoRow}, NEW newj \in JobRow \cup {NoRow},
         KeyStep(i, newi, j, newj), HasItsJob(i, j)
  PROVE  HasItsJob(newi, newj)
<1>1. CASE newi = i /\ newj = j
  BY <1>1
<1>2. CASE Recorded(i, newi, j, newj)
  BY <1>2 DEF Recorded, HasItsJob
<1>3. CASE Enqueued(i, newi, j, newj)
  BY <1>3 DEF Enqueued, HasItsJob, JobCreated
<1>4. CASE Promoted(i, newi, j, newj)
  <2>1. i = [request |-> i.request, status |-> i.status, job |-> i.job]
    BY <1>4 DEF Promoted, IntentRow
  <2>2. newi = [i EXCEPT !.status = "PROMOTED", !.job = newj.gen] /\ newj \in JobRow /\ newj.request = i.request
    BY <1>4 DEF Promoted
  <2>3. newi.request = i.request /\ newi.job = newj.gen
    BY <2>1, <2>2
  <2> QED BY <2>2, <2>3, RowFacts DEF HasItsJob
<1>5. CASE Conflicted(i, newi, j, newj)
  <2>1. i = [request |-> i.request, status |-> i.status, job |-> i.job]
    BY <1>5 DEF Conflicted, IntentRow
  <2>2. newi = [i EXCEPT !.status = "CONFLICTED"]
    BY <1>5 DEF Conflicted
  <2>3. newi.status = "CONFLICTED"
    BY <2>1, <2>2
  <2> QED BY <2>3 DEF HasItsJob
<1>6. CASE Retained(i, newi, j, newj)
  BY <1>6 DEF Retained, HasItsJob
<1>7. CASE Expired(i, newi, j, newj)
  BY <1>7 DEF Expired, HasItsJob
<1> QED BY <1>1, <1>2, <1>3, <1>4, <1>5, <1>6, <1>7 DEF KeyStep

LEMMA PublishInv ==
  ASSUME IntentsInv, NEW T \in SUBSET Txs, LedgerTypeOK', due' \in [Keys -> BOOLEAN], enabled' = enabled,
         gens' \in [Keys -> 0..MaxGen], \A k \in Keys : job'[k] # NoRow => job'[k].gen = gens'[k],
         \A k \in Keys : KeyStep(intent[k], intent'[k], job[k], job'[k]),
         DOMAIN txn' = Txs, LocksSound',
         \A t \in T : txn'[t] = Closed /\ ClientStory(t)' /\ PromoterStory(t)' /\ RetainerStory(t)',
         \A u \in Txs \ T : SameFor(u) /\ Rely(u)
  PROVE  IntentsInv'
<1>1. PromotedIntentsHaveTheirJob'
  <2>1. ASSUME NEW k \in Keys PROVE HasItsJob(intent'[k], job'[k])
    <3>1. /\ intent[k] \in IntentRow \cup {NoRow} /\ job[k] \in JobRow \cup {NoRow}
          /\ intent'[k] \in IntentRow \cup {NoRow} /\ job'[k] \in JobRow \cup {NoRow}
      BY DEF IntentsInv, RowsSound, LedgerTypeOK
    <3>2. HasItsJob(intent[k], job[k]) /\ KeyStep(intent[k], intent'[k], job[k], job'[k])
      BY DEF IntentsInv, RowsSound, PromotedIntentsHaveTheirJob, HasItsJob
    <3> QED BY <3>1, <3>2, LedgerKeepsJobs
  <2> QED BY <2>1 DEF PromotedIntentsHaveTheirJob, HasItsJob
<1>2. RowsSound'
  <2>1. enabled' \in BOOLEAN
    BY DEF IntentsInv, RowsSound
  <2> QED BY <1>1, <2>1 DEF RowsSound
<1>3. TxnsTyped'
  <2> SUFFICES ASSUME NEW u \in Txs PROVE TxnTyped(txn'[u])
    BY DEF TxnsTyped
  <2>1. CASE u \in T
    BY <2>1, ClosedTyped
  <2>2. CASE u \notin T
    BY <2>2 DEF IntentsInv, TxnsTyped, SameFor
  <2> QED BY <2>1, <2>2
<1>4. WritersApart'
  <2>1. ASSUME NEW u \in Txs
        PROVE  /\ DOMAIN txn'[u].jw \subseteq DOMAIN txn[u].jw
               /\ DOMAIN txn'[u].iw \subseteq DOMAIN txn[u].iw
    <3>1. CASE u \in T
      BY <3>1, ClosedTyped
    <3>2. CASE u \notin T
      BY <3>2 DEF SameFor
    <3> QED BY <3>1, <3>2
  <2> QED BY <2>1 DEF IntentsInv, WritersApart, Txs
<1>5. \A c \in Clients : ClientStory(c)'
  <2> SUFFICES ASSUME NEW c \in Clients \ T PROVE ClientStory(c)'
    OBVIOUS
  <2>1. c \in Txs \ T /\ ClientStory(c) /\ TxnTyped(txn[c])
    BY DEF IntentsInv, TxnsTyped, Txs
  <2> QED BY <2>1, ClientRelies
<1>6. \A p \in Promoters : PromoterStory(p)'
  <2> SUFFICES ASSUME NEW p \in Promoters \ T PROVE PromoterStory(p)'
    OBVIOUS
  <2>1. p \in Txs \ T /\ PromoterStory(p) /\ TxnTyped(txn[p])
    BY DEF IntentsInv, TxnsTyped, Txs
  <2> QED BY <2>1, PromoterRelies
<1>7. \A r \in Retainers : RetainerStory(r)'
  <2> SUFFICES ASSUME NEW r \in Retainers \ T PROVE RetainerStory(r)'
    OBVIOUS
  <2>1. r \in Txs \ T /\ RetainerStory(r) /\ TxnTyped(txn[r])
    BY DEF IntentsInv, TxnsTyped, Txs
  <2> QED BY <2>1, RetainerRelies
<1> QED BY <1>2, <1>3, <1>4, <1>5, <1>6, <1>7 DEF IntentsInv

LEMMA CommitPublishes ==
  ASSUME IntentsInv, NEW t \in Txs, Commit(t)
  PROVE  /\ \A k \in Keys : KeyStep(intent[k], intent'[k], job[k], job'[k])
         /\ \A u \in Txs \ {t} : Rely(u)
         /\ LedgerTypeOK'
<1>1. ASSUME NEW k \in Keys
      PROVE  /\ KeyStep(intent[k], intent'[k], job[k], job'[k])
             /\ \A u \in Txs \ {t} : IntentRely(u, k) /\ JobRely(u, k)
  <2>1. CASE t \in Clients
    BY <2>1, ClientCommits
  <2>2. CASE t \in Promoters
    BY <2>2, PromoterCommits
  <2>3. CASE t \in Retainers
    BY <2>3, RetainerCommits
  <2> QED BY <2>1, <2>2, <2>3 DEF Txs
<1> QED BY <1>1, CommitRows DEF Rely

LEMMA CommitInv ==
  ASSUME IntentsInv, NEW t \in Txs, Commit(t)
  PROVE  IntentsInv'
<1>1. /\ DOMAIN txn' = Txs /\ txn'[t] = Closed /\ \A u \in Txs \ {t} : SameFor(u)
      /\ LocksSound' /\ ClientStory(t)' /\ PromoterStory(t)' /\ RetainerStory(t)'
  BY CloseFacts DEF Commit
<1>2. /\ \A k \in Keys : KeyStep(intent[k], intent'[k], job[k], job'[k])
      /\ \A u \in Txs \ {t} : Rely(u)
  BY CommitPublishes
<1>3. /\ LedgerTypeOK' /\ due' \in [Keys -> BOOLEAN] /\ gens' \in [Keys -> 0..MaxGen]
      /\ \A k \in Keys : job'[k] # NoRow => job'[k].gen = gens'[k]
  BY CommitRows
<1>4. enabled' = enabled /\ {t} \in SUBSET Txs
  BY DEF Commit
<1> QED BY <1>1, <1>2, <1>3, <1>4, PublishInv

LEMMA AgedPublish ==
  ASSUME IntentsInv, DeleteBefore
  PROVE  /\ \A k \in Keys : KeyStep(intent[k], intent'[k], job[k], job'[k])
         /\ \A u \in Txs : Rely(u)
         /\ LedgerTypeOK'
<1>1. PICK K \in SUBSET {k \in Keys : /\ intent[k] # NoRow /\ intent[k].status = "PROMOTED"
                                      /\ \A l \in locks : ~(l.table = "intent" /\ l.key = k)} :
        intent' = [k \in Keys |-> IF k \in K THEN NoRow ELSE intent[k]]
  BY DEF DeleteBefore
<1>2. UNCHANGED <<job, due, enabled, gens, txn, locks>>
  BY DEF DeleteBefore
<1>3. LedgerTypeOK'
  BY <1>1, <1>2 DEF IntentsInv, RowsSound, LedgerTypeOK
<1>4. \A k \in Keys : intent'[k] = intent[k] \/
        (/\ intent[k] # NoRow /\ intent[k].status = "PROMOTED" /\ intent'[k] = NoRow
         /\ \A l \in locks : ~(l.table = "intent" /\ l.key = k))
  BY <1>1
<1>5. ASSUME NEW k \in Keys PROVE KeyStep(intent[k], intent'[k], job[k], job'[k])
  <2>1. intent[k] \in IntentRow \cup {NoRow} /\ job'[k] = job[k]
    BY <1>2 DEF IntentsInv, RowsSound, LedgerTypeOK
  <2> QED BY <1>4, <2>1 DEF KeyStep, Expired, JobKept
<1>6. ASSUME NEW u \in Txs, NEW k \in Keys PROVE IntentRely(u, k) /\ JobRely(u, k)
  <2>1. ASSUME \A l \in locks : ~(l.table = "intent" /\ l.key = k)
        PROVE  ~Holds(u, "intent", k, "KeyShare") /\ ~Holds(u, "intent", k, "Update")
    BY <2>1 DEF Holds, Lock
  <2>2. IntentRely(u, k)
    BY <1>4, <2>1 DEF IntentRely
  <2> QED BY <1>2, <2>2 DEF JobRely
<1> QED BY <1>3, <1>5, <1>6 DEF Rely

LEMMA DeleteBeforeInv ==
  ASSUME IntentsInv, DeleteBefore
  PROVE  IntentsInv'
<1>1. UNCHANGED <<job, due, enabled, gens, txn, locks>>
  BY DEF DeleteBefore
<1>2. /\ LedgerTypeOK' /\ \A u \in Txs : Rely(u)
      /\ \A k \in Keys : KeyStep(intent[k], intent'[k], job[k], job'[k])
  BY AgedPublish
<1>3. \A u \in Txs : SameFor(u)
  BY <1>1 DEF SameFor, OwnLocks
<1>4. LocksSound' /\ DOMAIN txn' = Txs
  BY <1>1, LocksReleased DEF IntentsInv, TxnsTyped
<1>5. /\ due' \in [Keys -> BOOLEAN] /\ enabled' = enabled /\ gens' \in [Keys -> 0..MaxGen]
      /\ \A k \in Keys : job'[k] # NoRow => job'[k].gen = gens'[k]
  BY <1>1 DEF IntentsInv, RowsSound
<1>6. {} \in SUBSET Txs
  OBVIOUS
<1> QED BY <1>2, <1>3, <1>4, <1>5, <1>6, PublishInv

-----------------------------------------------------------------------------
(* The invariant, and what follows from it.                                *)

LEMMA EnvironmentInv ==
  ASSUME IntentsInv, SetEnabled \/ (\E k \in Keys : BecomesDue(k)) \/ UNCHANGED ivars
  PROVE  IntentsInv'
<1>1. UNCHANGED <<intent, job, gens, txn, locks>>
  BY DEF SetEnabled, BecomesDue, ivars
<1>2. due' \in [Keys -> BOOLEAN] /\ enabled' \in BOOLEAN
  <2>1. CASE SetEnabled
    BY <2>1 DEF SetEnabled, IntentsInv, RowsSound
  <2>2. ASSUME NEW k \in Keys, BecomesDue(k) PROVE due' \in [Keys -> BOOLEAN] /\ enabled' \in BOOLEAN
    BY <2>2 DEF BecomesDue, IntentsInv, RowsSound
  <2>3. CASE UNCHANGED ivars
    BY <2>3 DEF ivars, IntentsInv, RowsSound
  <2> QED BY <2>1, <2>2, <2>3
<1>3. RowsSound'
  BY <1>1, <1>2 DEF IntentsInv, RowsSound, LedgerTypeOK, PromotedIntentsHaveTheirJob
<1>4. TxnsTyped' /\ LocksSound' /\ WritersApart'
  BY <1>1 DEF IntentsInv, TxnsTyped, LocksSound, WritersApart
<1>5. \A u \in Txs : SameFor(u)
  BY <1>1 DEF SameFor, OwnLocks
<1>6. \A c \in Clients : ClientStory(c)'
  BY <1>1, <1>5, ClientKept DEF IntentsInv, Txs
<1>7. \A p \in Promoters : PromoterStory(p)'
  BY <1>1, <1>5, PromoterKept DEF IntentsInv, Txs
<1>8. \A r \in Retainers : RetainerStory(r)'
  BY <1>1, <1>5, RetainerKept DEF IntentsInv, Txs
<1> QED BY <1>3, <1>4, <1>6, <1>7, <1>8 DEF IntentsInv

LEMMA IntentsInitInv ==
  ASSUME IntentsInit
  PROVE  IntentsInv
<1>1. RowsSound
  BY RowFacts DEF IntentsInit, LedgerInit, RowsSound, LedgerTypeOK, PromotedIntentsHaveTheirJob
<1>2. DOMAIN txn = Txs /\ \A t \in Txs : txn[t] = Closed
  BY DEF IntentsInit
<1>3. TxnsTyped
  BY <1>2, ClosedTyped DEF TxnsTyped
<1>4. LocksSound /\ \A t \in Txs : NoLocks(t)
  BY DEF IntentsInit, LocksSound, NoLocks
<1>5. WritersApart
  BY <1>2, ClosedTyped DEF WritersApart, Txs
<1>6. /\ Closed.pc = "closed" /\ Closed.todo = {}
      /\ DOMAIN Closed.iw = {} /\ DOMAIN Closed.jw = {}
  BY NothingWritten DEF Closed
<1>7. \A l : l \notin locks
  BY DEF IntentsInit
<1>8. \A c \in Clients : ClientStory(c)
  BY <1>2, <1>4, <1>6, <1>7 DEF ClientStory, Txs
<1>9. \A p \in Promoters : PromoterStory(p)
  BY <1>2, <1>4, <1>6, <1>7 DEF PromoterStory, Txs
<1>10. \A r \in Retainers : RetainerStory(r)
  BY <1>2, <1>4, <1>6, <1>7 DEF RetainerStory, Txs
<1> QED BY <1>1, <1>3, <1>4, <1>5, <1>8, <1>9, <1>10 DEF IntentsInv

LEMMA IntentsNextInv ==
  ASSUME IntentsInv, [IntentsNext]_ivars
  PROVE  IntentsInv'
<1>1. ASSUME NEW c \in Clients, ClientStep(c) PROVE IntentsInv'
  <2>1. c \in Txs /\ c \in Clients \cup Promoters
    BY DEF Txs
  <2> QED BY <1>1, <2>1, BeginInv, InsertIntentInv, LoadIntentInv, InsertJobInv, LoadJobInv, EnqueueInv,
             CommitInv, RollbackInv DEF ClientStep
<1>2. ASSUME NEW p \in Promoters, PromoterStep(p) PROVE IntentsInv'
  <2>1. p \in Txs /\ p \in Clients \cup Promoters
    BY DEF Txs
  <2> QED BY <1>2, <2>1, StartPassInv, FenceSharedInv, ClaimIntentsInv, NextRowInv, InsertJobInv, LoadJobInv,
             MarkPromotedInv, MarkConflictedInv, DefinitionUnavailableInv, DeferRowInv,
             CommitInv, RollbackInv DEF PromoterStep, PassStep
<1>3. ASSUME NEW r \in Retainers, RetainerStep(r) PROVE IntentsInv'
  <2>1. r \in Txs
    BY DEF Txs
  <2> QED BY <1>3, <2>1, SelectJobsInv, FenceExclusiveInv, DeleteIntentInv, LockJobInv, DeleteJobsInv,
             CommitInv, RollbackInv DEF RetainerStep
<1>4. CASE DeleteBefore
  BY <1>4, DeleteBeforeInv
<1>5. CASE SetEnabled \/ (\E k \in Keys : BecomesDue(k)) \/ UNCHANGED ivars
  BY <1>5, EnvironmentInv
<1> QED BY <1>1, <1>2, <1>3, <1>4, <1>5 DEF IntentsNext

(* Every reachable state satisfies the inductive invariant: rows, writes   *)
(* and locks agree, whatever statements have interleaved.                  *)
THEOREM IntentsInvariant == IntentsSpec => []IntentsInv
<1>1. IntentsInit => IntentsInv
  BY IntentsInitInv
<1>2. IntentsInv /\ [IntentsNext]_ivars => IntentsInv'
  BY IntentsNextInv
<1> QED BY <1>1, <1>2, PTL DEF IntentsSpec

TxnIsFunction == txn = [t \in Txs |-> txn[t]]

LEMMA TxnStaysFunction ==
  ASSUME TxnIsFunction, [IntentsNext]_ivars
  PROVE  TxnIsFunction'
<1>1. ASSUME NEW t, NEW pc, Goto(t, pc) PROVE TxnIsFunction'
  BY <1>1 DEF Goto, TxnIsFunction
<1>2. ASSUME NEW t, Close(t) PROVE TxnIsFunction'
  BY <1>2 DEF Close, TxnIsFunction
<1>3. ASSUME NEW t, InsertJob(t) PROVE TxnIsFunction'
  BY <1>1, <1>3 DEF InsertJob, TxnIsFunction
<1>4. ASSUME NEW t, LoadJob(t) PROVE TxnIsFunction'
  BY <1>1, <1>4 DEF LoadJob
<1>5. ASSUME NEW c, NEW call, Begin(c, call) PROVE TxnIsFunction'
  BY <1>5 DEF Begin, TxnIsFunction
<1>6. ASSUME NEW c, InsertIntent(c) PROVE TxnIsFunction'
  BY <1>1, <1>6 DEF InsertIntent, TxnIsFunction
<1>7. ASSUME NEW c, LoadIntent(c) PROVE TxnIsFunction'
  BY <1>1, <1>7 DEF LoadIntent, TxnIsFunction
<1>8. ASSUME NEW c \in Clients, ClientStep(c) PROVE TxnIsFunction'
  BY <1>1, <1>2, <1>3, <1>4, <1>5, <1>6, <1>7, <1>8 DEF ClientStep, Enqueue, Commit, Rollback
<1>9. ASSUME NEW p, NEW k, NEW row, MarkIntent(p, k, row) PROVE TxnIsFunction'
  BY <1>9 DEF MarkIntent, TxnIsFunction
<1>10. ASSUME NEW p, ClaimIntents(p) PROVE TxnIsFunction'
  BY <1>10 DEF ClaimIntents, TxnIsFunction
<1>11. ASSUME NEW p, NextRow(p) PROVE TxnIsFunction'
  BY <1>1, <1>9, <1>11 DEF NextRow, TxnIsFunction
<1>12. ASSUME NEW p, DefinitionUnavailable(p) PROVE TxnIsFunction'
  BY <1>12 DEF DefinitionUnavailable, TxnIsFunction
<1>13. ASSUME NEW p, DeferRow(p) PROVE TxnIsFunction'
  BY <1>13 DEF DeferRow, TxnIsFunction
<1>14. ASSUME NEW p, StartPass(p) \/ FenceShared(p) PROVE TxnIsFunction'
  BY <1>1, <1>14 DEF StartPass, FenceShared
<1>15. ASSUME NEW p, MarkPromoted(p) PROVE TxnIsFunction'
  BY Zenon, <1>9, <1>15 DEF MarkPromoted
<1>16. ASSUME NEW p, MarkConflicted(p) PROVE TxnIsFunction'
  BY Zenon, <1>9, <1>16 DEF MarkConflicted
<1>17. ASSUME NEW p \in Promoters, PromoterStep(p) PROVE TxnIsFunction'
  BY <1>2, <1>3, <1>4, <1>10, <1>11, <1>12, <1>13, <1>14, <1>15, <1>16, <1>17
     DEF PromoterStep, PassStep, Commit, Rollback
<1>18. ASSUME NEW r, SelectJobs(r) PROVE TxnIsFunction'
  BY <1>18 DEF SelectJobs, TxnIsFunction
<1>19. ASSUME NEW r, FenceExclusive(r) PROVE TxnIsFunction'
  BY <1>1, <1>19 DEF FenceExclusive
<1>20. ASSUME NEW r, DeleteIntent(r) PROVE TxnIsFunction'
  BY <1>20 DEF DeleteIntent, TxnIsFunction
<1>21. ASSUME NEW r, LockJob(r) PROVE TxnIsFunction'
  BY <1>1, <1>21 DEF LockJob, TxnIsFunction
<1>22. ASSUME NEW r, DeleteJobs(r) PROVE TxnIsFunction'
  BY <1>22 DEF DeleteJobs, TxnIsFunction
<1>23. ASSUME NEW r \in Retainers, RetainerStep(r) PROVE TxnIsFunction'
  BY <1>2, <1>18, <1>19, <1>20, <1>21, <1>22, <1>23 DEF RetainerStep, Commit, Rollback
<1>24. CASE UNCHANGED txn
  BY <1>24 DEF TxnIsFunction
<1> QED BY <1>8, <1>17, <1>23, <1>24 DEF IntentsNext, DeleteBefore, SetEnabled, BecomesDue, ivars

LEMMA TransactionRecords ==
  ASSUME IntentsInv, TxnIsFunction
  PROVE  txn \in [Txs -> TxnRecord]
<1> SUFFICES ASSUME NEW t \in Txs PROVE txn[t] \in TxnRecord
  BY DEF TxnIsFunction
<1> DEFINE x == txn[t]
           Pcs == {"closed", "insert_intent", "load_intent", "insert_job", "load_job", "enqueued", "done",
                   "fence", "claim", "row", "delete_intents", "lock_jobs", "delete_jobs"}
<1>1. x.pc \in Pcs
  <2>1. CASE t \in Clients
    BY <2>1 DEF IntentsInv, ClientStory
  <2>2. CASE t \in Promoters
    BY <2>2 DEF IntentsInv, PromoterStory
  <2>3. CASE t \in Retainers
    BY <2>3 DEF IntentsInv, RetainerStory
  <2> QED BY <2>1, <2>2, <2>3 DEF Txs
<1>2. /\ x = [pc |-> x.pc, call |-> x.call, try |-> x.try, iw |-> x.iw, jw |-> x.jw,
              todo |-> x.todo, ids |-> x.ids, deferred |-> x.deferred]
      /\ x.call \in Call \cup {NoCall} \cup Promotions
      /\ x.try \in 0..1 /\ x.iw \in IntentWrites /\ x.jw \in JobWrites
      /\ x.todo \in SUBSET Keys /\ x.ids \in SUBSET (Keys \X (1..MaxGen)) /\ x.deferred \in SUBSET Keys
  BY DEF IntentsInv, TxnsTyped, TxnTyped, TxnShape
<1> HIDE DEF x, Pcs
<1>3. x \in [pc : Pcs, call : Call \cup {NoCall} \cup Promotions, try : 0..1, iw : IntentWrites, jw : JobWrites,
             todo : SUBSET Keys, ids : SUBSET (Keys \X (1..MaxGen)), deferred : SUBSET Keys]
  BY Zenon, <1>1, <1>2
<1> QED BY Zenon, <1>3 DEF x, Pcs, TxnRecord, Promotions, IntentWrites, JobWrites

(* Intents and jobs agree in every reachable state, a pass keeps no half   *)
(* of a failed row, retention is never refused, and a recorded intent      *)
(* stays for its client: for any keys, transactions and calls.             *)
THEOREM IntentsCorrect == IntentsSpec => []IntentsAreSound
<1>1. ASSUME IntentsInv, TxnIsFunction PROVE IntentsAreSound
  <2>1. IntentsTypeOK
    BY <1>1, TransactionRecords DEF IntentsTypeOK, IntentsInv, RowsSound, LocksSound
  <2>2. PromotedIntentsHaveTheirJob
    BY <1>1 DEF IntentsInv, RowsSound
  <2>3. BatchRowsAreWhole
    <3> SUFFICES ASSUME NEW p \in Promoters, txn[p].pc \in {"row", "done"}, NEW k \in DOMAIN txn[p].jw
                 PROVE  /\ k \in DOMAIN txn[p].iw
                        /\ txn[p].iw[k].status = "PROMOTED" /\ txn[p].iw[k].job = txn[p].jw[k].gen
      BY DEF BatchRowsAreWhole
    <3>1. PromoterStory(p) /\ DOMAIN txn[p].jw \subseteq Keys
      <4>1. txn[p].jw \in JobWrites
        BY <1>1 DEF IntentsInv, TxnsTyped, TxnTyped, Txs
      <4> QED BY <1>1, <4>1, WritesTyped DEF IntentsInv
    <3>2. k \in DOMAIN txn[p].iw /\ intent[k] # NoRow /\ Resolved(p, k)
      BY <3>1 DEF PromoterStory
    <3>3. /\ txn[p].iw[k] = [intent[k] EXCEPT !.status = "PROMOTED", !.job = JobSeen(p, k).gen]
          /\ JobSeen(p, k) = txn[p].jw[k]
      BY <3>2 DEF Resolved, JobSeen
    <3>4. intent[k] = [request |-> intent[k].request, status |-> intent[k].status, job |-> intent[k].job]
      <4>1. intent[k] \in IntentRow
        BY <1>1, <3>1, <3>2 DEF IntentsInv, RowsSound, LedgerTypeOK
      <4> QED BY <4>1 DEF IntentRow
    <3> QED BY <3>2, <3>3, <3>4
  <2>4. RetentionIsNotRefused
    <3> SUFFICES ASSUME NEW r \in Retainers, txn[r].pc \in {"lock_jobs", "delete_jobs"}, NEW k \in Linked(r)
                 PROVE  FALSE
      BY DEF RetentionIsNotRefused
    <3>1. RetainerStory(r)
      BY <1>1 DEF IntentsInv
    <3> QED BY <3>1 DEF RetainerStory, Linked, IntentSeen
  <2>5. RecordedIntentsStay
    <3> SUFFICES ASSUME NEW c \in Clients, txn[c].call.ops \in {"record", "record_enqueue"},
                        txn[c].pc \in {"insert_job", "load_job", "enqueued", "done"}
                 PROVE  /\ IntentSeen(c, KeyOf(c)) # NoRow
                        /\ IntentSeen(c, KeyOf(c)).request = txn[c].call.request
      BY DEF RecordedIntentsStay
    <3>1. ClientStory(c)
      BY <1>1 DEF IntentsInv
    <3>2. txn[c].call.request \in Requests
      BY <3>1, IntentsAssumption DEF ClientStory, Call
    <3>3. CASE KeyOf(c) \in DOMAIN txn[c].iw
      <4>1. txn[c].iw[KeyOf(c)] = [request |-> txn[c].call.request, status |-> "PENDING", job |-> 0]
        BY <3>1, <3>3 DEF ClientStory, KeyOf
      <4>2. txn[c].iw[KeyOf(c)] \in IntentRow /\ txn[c].iw[KeyOf(c)].request = txn[c].call.request
        BY <3>2, <4>1, RowFacts DEF IntentRow, Statuses
      <4> QED BY <3>3, <4>2, RowFacts DEF IntentSeen
    <3>4. CASE KeyOf(c) \notin DOMAIN txn[c].iw
      BY <3>1, <3>4 DEF ClientStory, KeyOf, IntentSeen
    <3> QED BY <3>3, <3>4
  <2> QED BY <2>1, <2>2, <2>3, <2>4, <2>5 DEF IntentsAreSound
<1>2. IntentsInit => TxnIsFunction
  BY DEF IntentsInit, TxnIsFunction
<1>3. TxnIsFunction /\ [IntentsNext]_ivars => TxnIsFunction'
  BY TxnStaysFunction
<1> QED BY <1>1, <1>2, <1>3, IntentsInvariant, PTL DEF IntentsSpec

-----------------------------------------------------------------------------
(* The refinement.                                                         *)

(* A step of the statements is a step of the ledger, or leaves its rows.   *)
LEMMA StepsOfTheLedger ==
  ASSUME IntentsInv, [IntentsNext]_ivars
  PROVE  LedgerNext \/ UNCHANGED lvars
<1>1. ASSUME NEW t \in Txs, Commit(t) PROVE LedgerNext
  BY <1>1, CommitPublishes DEF LedgerNext, LedgerTypeOK
<1>2. CASE DeleteBefore
  BY <1>2, AgedPublish DEF LedgerNext, LedgerTypeOK
<1>3. ASSUME NEW c \in Clients, ClientStep(c), ~Commit(c) PROVE UNCHANGED lvars
  BY <1>3 DEF ClientStep, Begin, InsertIntent, LoadIntent, InsertJob, LoadJob, Enqueue, Rollback, lvars
<1>4. ASSUME NEW p \in Promoters, PromoterStep(p), ~Commit(p) PROVE UNCHANGED lvars
  BY <1>4 DEF PromoterStep, PassStep, StartPass, FenceShared, ClaimIntents, NextRow, InsertJob, LoadJob,
              MarkPromoted, MarkConflicted, DefinitionUnavailable, DeferRow, Rollback, lvars
<1>5. ASSUME NEW r \in Retainers, RetainerStep(r), ~Commit(r) PROVE UNCHANGED lvars
  BY <1>5 DEF RetainerStep, SelectJobs, FenceExclusive, DeleteIntent, LockJob, DeleteJobs, Rollback, lvars
<1>6. CASE SetEnabled \/ (\E k \in Keys : BecomesDue(k)) \/ UNCHANGED ivars
  BY <1>6 DEF SetEnabled, BecomesDue, ivars, lvars
<1> QED BY <1>1, <1>2, <1>3, <1>4, <1>5, <1>6 DEF IntentsNext, Txs

(* The statements implement the ledger: whatever interleaves, a commit     *)
(* takes every key through one of the ledger's changes, retention by age   *)
(* expires intents, and no other statement changes a committed row.        *)
THEOREM LedgerImplemented == IntentsSpec => ImplementsLedger
<1>1. IntentsInit => Ledger!LedgerInit
  BY DEF IntentsInit, LedgerInit, Ledger!LedgerInit
<1>2. LedgerNext => Ledger!LedgerNext
  BY DEF LedgerNext, KeyStep, Recorded, Enqueued, Promoted, Conflicted, Retained, Expired, JobKept, JobCreated,
         JobRemoved, IntentRow, JobRow, Statuses,
         Ledger!LedgerNext, Ledger!KeyStep, Ledger!Recorded, Ledger!Enqueued, Ledger!Promoted,
         Ledger!Conflicted, Ledger!Retained, Ledger!Expired, Ledger!JobKept, Ledger!JobCreated,
         Ledger!JobRemoved, Ledger!IntentRow, Ledger!JobRow, Ledger!Statuses
<1>3. UNCHANGED lvars => UNCHANGED Ledger!lvars
  BY DEF lvars, Ledger!lvars
<1>4. IntentsInv /\ [IntentsNext]_ivars => [Ledger!LedgerNext]_Ledger!lvars
  BY <1>2, <1>3, StepsOfTheLedger
<1> QED BY <1>1, <1>4, IntentsInvariant, PTL DEF IntentsSpec, ImplementsLedger, Ledger!LedgerSpec

-----------------------------------------------------------------------------
(* The order of locks.                                                     *)

(* How far a transaction that waits has come in the order of locks; one    *)
(* that waits for nothing comes after all of them.                         *)
Rank(t) ==
  IF txn[t].pc \in {"insert_intent", "load_intent", "fence"} THEN 0
  ELSE IF txn[t].pc = "delete_intents" THEN 1
  ELSE IF txn[t].pc \in {"insert_job", "load_job"} THEN IF t \in Clients THEN 2 ELSE 3
  ELSE IF txn[t].pc = "lock_jobs" THEN 3 ELSE 4

LEMMA HoldersFound ==
  ASSUME IntentsInv, NEW t \in Txs, NEW table \in {"intent", "job", "fence"}, NEW k \in Keys \cup {NoRow},
         NEW mode \in {"KeyShare", "NoKeyUpdate", "Update", "Shared", "Exclusive"},
         NEW u \in LockHolders(t, table, k, mode)
  PROVE  /\ u \in Txs \ {t}
         /\ \E l \in locks : l.tx = u /\ l.table = table /\ l.key = k /\ l.mode \in Excludes(mode)
BY DEF LockHolders, IntentsInv, LocksSound

(* Who holds a lock has begun; who has locked a job is past the others'    *)
(* waits for intents.                                                      *)
LEMMA HoldersRank ==
  ASSUME IntentsInv, NEW u \in Txs, NEW l \in locks, l.tx = u
  PROVE  /\ Rank(u) > 0 /\ txn[u].pc # "closed"
         /\ u \in Retainers => Holds(u, "fence", NoRow, "Exclusive")
         /\ u \in Promoters => Holds(u, "fence", NoRow, "Shared")
         /\ (u \in Clients /\ l.table = "job") => Rank(u) = 4
         /\ (u \in Promoters /\ l.table = "job") => Holds(u, "intent", l.key, "NoKeyUpdate") /\ Rank(u) >= 3
         /\ (u \in Retainers /\ l.table = "job") => Rank(u) >= 3
<1>1. CASE u \in Clients
  <2>1. ClientStory(u) /\ u \notin Promoters /\ u \notin Retainers
    BY <1>1, IntentsAssumption DEF IntentsInv
  <2>2. txn[u].pc \in {"insert_job", "load_job", "enqueued", "done"}
    BY <2>1 DEF ClientStory, NoLocks
  <2>3. l.table = "job" => txn[u].pc \in {"enqueued", "done"}
    BY <2>1, <2>2 DEF ClientStory
  <2> QED BY <1>1, <2>1, <2>2, <2>3 DEF Rank
<1>2. CASE u \in Promoters
  <2>1. PromoterStory(u) /\ u \notin Clients /\ u \notin Retainers
    BY <1>2, IntentsAssumption DEF IntentsInv
  <2>2. txn[u].pc \in {"claim", "row", "insert_job", "load_job", "enqueued", "done"}
    BY <2>1 DEF PromoterStory, NoLocks
  <2>3. Holds(u, "fence", NoRow, "Shared") /\ (l.table = "job" => Holds(u, "intent", l.key, "NoKeyUpdate"))
    BY <2>1, <2>2 DEF PromoterStory
  <2> QED BY <1>2, <2>1, <2>2, <2>3 DEF Rank
<1>3. CASE u \in Retainers
  <2>1. RetainerStory(u) /\ u \notin Clients /\ u \notin Promoters
    BY <1>3, IntentsAssumption DEF IntentsInv
  <2>2. txn[u].pc \in {"delete_intents", "lock_jobs", "delete_jobs", "done"}
    BY <2>1 DEF RetainerStory, NoLocks
  <2>3. Holds(u, "fence", NoRow, "Exclusive") /\ (l.table = "job" => txn[u].pc # "delete_intents")
    BY <2>1, <2>2 DEF RetainerStory
  <2> QED BY <1>3, <2>1, <2>2, <2>3 DEF Rank
<1> QED BY <1>1, <1>2, <1>3 DEF Txs

LEMMA WritersRank ==
  ASSUME IntentsInv, NEW u \in Txs
  PROVE  /\ DOMAIN txn[u].iw # {} => Rank(u) > 0
         /\ (u \in Clients \cup Retainers /\ DOMAIN txn[u].jw # {}) => Rank(u) = 4
         /\ \A k \in DOMAIN txn[u].jw : u \in Promoters => Holds(u, "intent", k, "NoKeyUpdate") /\ Rank(u) >= 3
<1>1. CASE u \in Clients
  <2>1. ClientStory(u) /\ u \notin Promoters /\ u \notin Retainers
    BY <1>1, IntentsAssumption DEF IntentsInv
  <2>2. DOMAIN txn[u].iw # {} => txn[u].pc \in {"insert_job", "load_job", "enqueued", "done"}
    BY <2>1 DEF ClientStory
  <2>3. DOMAIN txn[u].jw # {} => txn[u].pc \in {"enqueued", "done"}
    BY <2>1 DEF ClientStory
  <2> QED BY <1>1, <2>1, <2>2, <2>3 DEF Rank
<1>2. CASE u \in Promoters
  <2>1. PromoterStory(u) /\ u \notin Clients /\ u \notin Retainers
    BY <1>2, IntentsAssumption DEF IntentsInv
  <2>2. DOMAIN txn[u].iw # {} => txn[u].pc \in {"row", "insert_job", "load_job", "enqueued", "done"}
    BY <2>1 DEF PromoterStory
  <2>3. \A k \in DOMAIN txn[u].jw : /\ k \in txn[u].todo \cup DOMAIN txn[u].iw
                                    /\ txn[u].pc \in {"row", "insert_job", "load_job", "enqueued", "done"}
    BY <2>1 DEF PromoterStory
  <2>4. \A k \in DOMAIN txn[u].jw : Holds(u, "intent", k, "NoKeyUpdate")
    BY <2>1, <2>3 DEF PromoterStory
  <2> QED BY <1>2, <2>1, <2>2, <2>3, <2>4 DEF Rank
<1>3. CASE u \in Retainers
  <2>1. RetainerStory(u) /\ u \notin Clients /\ u \notin Promoters
    BY <1>3, IntentsAssumption DEF IntentsInv
  <2>2. DOMAIN txn[u].iw # {} => txn[u].pc \in {"delete_intents", "lock_jobs", "delete_jobs", "done"}
    BY <2>1 DEF RetainerStory
  <2>3. DOMAIN txn[u].jw # {} => txn[u].pc = "done"
    BY <2>1 DEF RetainerStory
  <2> QED BY <1>3, <2>1, <2>2, <2>3 DEF Rank
<1> QED BY <1>1, <1>2, <1>3 DEF Txs

LEMMA ClaimedAlone ==
  ASSUME IntentsInv, NEW t \in Txs, NEW u \in Txs \ {t}, NEW k \in Keys
  PROVE  ~(Holds(t, "intent", k, "NoKeyUpdate") /\ Holds(u, "intent", k, "NoKeyUpdate"))
<1> SUFFICES ASSUME Holds(t, "intent", k, "NoKeyUpdate"), Holds(u, "intent", k, "NoKeyUpdate") PROVE FALSE
  OBVIOUS
<1>1. Lock(u, "intent", k, "NoKeyUpdate") \in locks /\ Lock(t, "intent", k, "NoKeyUpdate") \in locks
  BY DEF Holds
<1>2. "NoKeyUpdate" \notin Excludes("NoKeyUpdate")
  BY <1>1 DEF IntentsInv, LocksSound, Lock
<1> QED BY <1>2 DEF Excludes

(* A transaction waits only for ones that have come further.               *)
LEMMA WaitsGoUp ==
  ASSUME IntentsInv, NEW t \in Txs, NEW u \in WaitsFor(t)
  PROVE  u \in Txs /\ Rank(u) > Rank(t)
<1>k. PICK k : k = KeyOf(t)
  OBVIOUS
<1>1. CASE txn[t].pc = "insert_intent"
  <2>1. u \in Txs /\ DOMAIN txn[u].iw # {}
    BY <1>1 DEF WaitsFor, IntentWriters
  <2>2. Rank(t) = 0
    BY <1>1 DEF Rank
  <2> QED BY <2>1, <2>2, WritersRank
<1>2. CASE txn[t].pc = "load_intent"
  <2>1. t \in Clients
    BY <1>2 DEF IntentsInv, PromoterStory, RetainerStory, Txs
  <2>2. k \in Keys
    BY <1>k, <1>2, <2>1, IntentsAssumption DEF IntentsInv, ClientStory, KeyOf, Call
  <2>3. u \in LockHolders(t, "intent", k, "KeyShare")
    BY <1>k, <1>2 DEF WaitsFor
  <2>4. u \in Txs \ {t} /\ \E l \in locks : l.tx = u
    BY <2>2, <2>3, HoldersFound
  <2>5. Rank(t) = 0
    BY <1>2 DEF Rank
  <2> QED BY <2>4, <2>5, HoldersRank
<1>3. CASE txn[t].pc = "fence"
  <2>1. u \in LockHolders(t, "fence", NoRow, "Exclusive") \/ u \in LockHolders(t, "fence", NoRow, "Shared")
    BY <1>3 DEF WaitsFor
  <2>2. u \in Txs \ {t} /\ \E l \in locks : l.tx = u
    BY <2>1, HoldersFound
  <2>3. Rank(t) = 0
    BY <1>3 DEF Rank
  <2> QED BY <2>2, <2>3, HoldersRank
<1>4. CASE txn[t].pc = "delete_intents"
  <2>1. t \in Retainers
    BY <1>4 DEF IntentsInv, ClientStory, PromoterStory, Txs
  <2>2. Holds(t, "fence", NoRow, "Exclusive")
    BY <1>4, <2>1 DEF IntentsInv, RetainerStory
  <2>3. PICK i \in Keys : u \in LockHolders(t, "intent", i, "Update")
    BY <1>4 DEF WaitsFor, Linked
  <2>4. u \in Txs \ {t} /\ \E l \in locks : l.tx = u
    BY <2>3, HoldersFound
  <2>5. u \notin Retainers /\ Rank(u) > 0
    BY <2>2, <2>4, HoldersRank, FenceIsExclusive
  <2>6. txn[u].pc # "delete_intents"
    BY <2>4, <2>5 DEF IntentsInv, ClientStory, PromoterStory, Txs
  <2> QED BY <1>4, <2>4, <2>5, <2>6 DEF Rank
<1>5. CASE txn[t].pc \in {"insert_job", "load_job"}
  <2>1. t \in Clients \cup Promoters
    BY <1>5 DEF IntentsInv, RetainerStory, Txs
  <2>2. /\ k \in Keys /\ txn[t].call.lock \in {"KeyShare", "NoKeyUpdate"}
        /\ t \in Promoters => t \notin Clients /\ k \in txn[t].todo /\ PromoterStory(t)
    BY <1>k, <1>5, <2>1, EnqueueFacts DEF Enqueuing
  <2>3. t \in Promoters => Holds(t, "intent", k, "NoKeyUpdate") /\ Holds(t, "fence", NoRow, "Shared")
    BY <1>5, <2>2 DEF PromoterStory
  <2>4. (t \in Clients => Rank(t) = 2) /\ (t \notin Clients => Rank(t) = 3) /\ Rank(u) \in 0..4
    BY <1>5 DEF Rank
  <2>5. CASE txn[t].pc = "insert_job"
    <3>1. u \in Txs \ {t} /\ k \in DOMAIN txn[u].jw
      BY <1>k, <2>5 DEF WaitsFor, JobWriters
    <3>2. \/ Rank(u) = 4
          \/ u \in Promoters /\ Holds(u, "intent", k, "NoKeyUpdate") /\ Rank(u) >= 3
      BY <3>1, WritersRank DEF Txs
    <3>3. t \in Promoters => ~Holds(u, "intent", k, "NoKeyUpdate")
      BY <2>2, <2>3, <3>1, ClaimedAlone
    <3> QED BY <2>1, <2>2, <2>4, <3>1, <3>2, <3>3
  <2>6. CASE txn[t].pc = "load_job"
    <3>1. u \in LockHolders(t, "job", k, txn[t].call.lock)
      BY <1>k, <2>6 DEF WaitsFor
    <3>2. u \in Txs \ {t} /\ \E l \in locks : l.tx = u /\ l.table = "job" /\ l.key = k
      BY <2>2, <3>1, HoldersFound
    <3>3. /\ u \in Clients => Rank(u) = 4
          /\ u \in Promoters => Holds(u, "intent", k, "NoKeyUpdate") /\ Rank(u) >= 3
          /\ u \in Retainers => Holds(u, "fence", NoRow, "Exclusive") /\ Rank(u) >= 3
      BY <3>2, HoldersRank
    <3>4. t \in Promoters => ~Holds(u, "intent", k, "NoKeyUpdate")
      BY <2>2, <2>3, <3>2, ClaimedAlone
    <3>5. t \in Promoters => ~Holds(u, "fence", NoRow, "Exclusive")
      BY <2>3, <3>2, FenceIsExclusive
    <3> QED BY <2>1, <2>2, <2>4, <3>2, <3>3, <3>4, <3>5 DEF Txs
  <2> QED BY <1>5, <2>5, <2>6
<1>6. CASE txn[t].pc = "lock_jobs"
  <2>1. t \in Retainers
    BY <1>6 DEF IntentsInv, ClientStory, PromoterStory, Txs
  <2>2. Holds(t, "fence", NoRow, "Exclusive") /\ txn[t].todo \subseteq Keys
    BY <1>6, <2>1 DEF IntentsInv, RetainerStory, TxnsTyped, TxnTyped
  <2>3. PICK i \in Keys : u \in LockHolders(t, "job", i, "Update")
    BY <1>6, <2>2 DEF WaitsFor
  <2>4. u \in Txs \ {t} /\ \E l \in locks : l.tx = u /\ l.table = "job"
    BY <2>3, HoldersFound
  <2>5. ~Holds(u, "fence", NoRow, "Exclusive") /\ ~Holds(u, "fence", NoRow, "Shared")
    BY <2>2, <2>4, FenceIsExclusive
  <2>6. Rank(u) = 4
    BY <2>4, <2>5, HoldersRank DEF Txs
  <2>7. Rank(t) = 3
    BY <1>6 DEF Rank
  <2> QED BY <2>4, <2>6, <2>7
<1>7. CASE txn[t].pc \notin {"insert_intent", "load_intent", "insert_job", "load_job", "fence",
                             "delete_intents", "lock_jobs"}
  <2>1. WaitsFor(t) = {}
    BY <1>7 DEF WaitsFor
  <2> QED BY <2>1
<1> QED BY <1>1, <1>2, <1>3, <1>4, <1>5, <1>6, <1>7

(* No set of transactions on intents and jobs waits in a circle: for any   *)
(* number of clients, promoters and retainers.                             *)
THEOREM LockOrder == IntentsSpec => []NoWaitCycle
<1>1. ASSUME IntentsInv PROVE NoWaitCycle
  <2> SUFFICES ASSUME NEW S \in SUBSET Txs, S # {}, \A t \in S : WaitsFor(t) \cap S # {} PROVE FALSE
    BY DEF NoWaitCycle
  <2>1. \A t \in S : \E u \in S : Rank(u) > Rank(t)
    BY <1>1, WaitsGoUp
  <2>2. \A t \in S : Rank(t) \in 0..4
    BY DEF Rank
  <2>3. \A t \in S : Rank(t) < 4
    BY <2>1, <2>2
  <2>4. \A t \in S : Rank(t) < 3
    BY <2>1, <2>2, <2>3
  <2>5. \A t \in S : Rank(t) < 2
    BY <2>1, <2>2, <2>4
  <2>6. \A t \in S : Rank(t) < 1
    BY <2>1, <2>2, <2>5
  <2> QED BY <2>1, <2>2, <2>6
<1> QED BY <1>1, IntentsInvariant, PTL

-----------------------------------------------------------------------------
(* The sessions on schedules and definitions.                              *)

SessionShape(x) ==
  x = [op |-> x.op, todo |-> x.todo, claimed |-> x.claimed, started |-> x.started,
       stage |-> x.stage, wrote |-> x.wrote, defined |-> x.defined, slots |-> x.slots, held |-> x.held]

SessionTyped(x) ==
  /\ SessionShape(x)
  /\ x.op \in Operations \cup {None} /\ x.todo \in Seq(Entries) /\ x.claimed \subseteq Names
  /\ x.started \in Nat /\ x.stage \in {"work", "materialize", "commit"}
  /\ DOMAIN x.wrote \subseteq Names /\ \A n \in DOMAIN x.wrote : x.wrote[n] \in Rows
  /\ DOMAIN x.defined \subseteq Types /\ \A t \in DOMAIN x.defined : x.defined[t] \in {TRUE, FALSE}

SessionsTyped == DOMAIN tx = Sessions /\ \A s \in Sessions : SessionTyped(tx[s])

TablesTyped ==
  /\ now \in 1..MaxTime
  /\ DOMAIN schedules = Names
  /\ \A n \in Names : schedules[n] # None =>
       schedules[n] \in Rows /\ definitions[schedules[n].type] # None
  /\ definitions \in [Types -> {None, TRUE, FALSE}]

(* No lock is granted beside one that it conflicts with.                   *)
LocksApart ==
  \A s, r \in Sessions : s # r => \A h \in tx[s].held, l \in tx[r].held : ~Conflicts(h, l)

Enters(s) == TableLock(s, "schedules") \/ LockOn("schedules", "RowExclusive") \in tx[s].held
Owns(s, n) ==
  \/ TableLock(s, "schedules")
  \/ LockOn("schedules", "RowExclusive") \in tx[s].held /\ LockOn(n, "Row") \in tx[s].held
OwnsType(s, t) ==
  \/ TableLock(s, "definitions")
  \/ LockOn("definitions", "RowExclusive") \in tx[s].held /\ LockOn(t, "Row") \in tx[s].held

(* A session writes what its locks keep from the others, and what is of    *)
(* its kind.                                                               *)
WritesOwned(s) ==
  /\ \A n \in DOMAIN tx[s].wrote \cup tx[s].claimed : Owns(s, n)
  /\ \A t \in DOMAIN tx[s].defined : OwnsType(s, t)

KindStory(s) ==
  LET x == tx[s] IN
  IF x.op = None THEN x = Idle
  ELSE /\ x.op.kind # "definitions" => DOMAIN x.defined = {}
       /\ x.op.kind = "definitions" => DOMAIN x.wrote = {}
       /\ x.op.kind # "scheduler" => x.slots = {} /\ x.claimed = {} /\ x.stage # "materialize"
       /\ x.stage = "work" /\ x.op.kind \in {"activate", "deactivate", "cursor", "definitions", "scheduler"}
            => DOMAIN x.wrote = {} /\ DOMAIN x.defined = {} /\ x.slots = {} /\ x.claimed = {}

(* The locks a session that is still at work holds.                        *)
LockStory(s) ==
  LET x == tx[s] IN
  x.op # None /\ x.stage = "work" /\ x.held # {} =>
    /\ x.op.kind \notin {"deactivate", "cursor"}
    /\ x.op.kind \in {"plain", "activate", "definitions"} => TableLock(s, "schedules")
    /\ x.op.kind = "sync" /\ x.op.exact => TableLock(s, "schedules")
    /\ Enters(s)

(* A row that replaces another one is not behind it.                       *)
Follows(old, row) == row.gen > old.gen \/ (row.gen = old.gen /\ row.next >= old.next)

RowWritable(n, row) ==
  /\ schedules[n] # None => Follows(schedules[n], row)
  /\ definitions[row.type] # None
  /\ row.active => definitions[row.type] = TRUE

RowsWritable(s) == \A n \in DOMAIN tx[s].wrote : RowWritable(n, tx[s].wrote[n])

ClaimedDue(s) ==
  \A n \in tx[s].claimed :
    /\ n \notin DOMAIN tx[s].wrote /\ schedules[n] # None
    /\ schedules[n].active /\ schedules[n].next <= tx[s].started

(* A slot is the cursor of the committed row, which the pass moves.        *)
SlotOf(s, n, slot) ==
  LET row == tx[s].wrote[n] IN
  /\ schedules[n] # None /\ slot = <<n, schedules[n].gen, schedules[n].next>>
  /\ row.gen = schedules[n].gen /\ row.next > schedules[n].next
  /\ row.next = NextFire(row.cron, schedules[n].next, tx[s].started)

SlotsSound(s) == \A slot \in tx[s].slots : \E n \in DOMAIN tx[s].wrote : SlotOf(s, n, slot)

(* A definition is turned off under both guards, when nothing needs it.    *)
DefinedSound(s) ==
  \A t \in DOMAIN tx[s].defined :
    \/ tx[s].defined[t] = TRUE \/ definitions[t] # TRUE
    \/ /\ TableLock(s, "schedules")
       /\ \A n \in Names : schedules[n] # None /\ schedules[n].active => schedules[n].type # t

(* The entries behind a sync are written as it was given them.             *)
SyncProgress(op, todo, wrote) ==
  LET done == Len(op.entries) - Len(todo) IN
  /\ done >= 0
  /\ \A j \in 1..Len(todo) : todo[j] = op.entries[done + j]
  /\ \A i \in 1..done : /\ op.entries[i].name \in DOMAIN wrote
                        /\ wrote[op.entries[i].name].active = op.entries[i].active

AbsentInactive(s) ==
  \A n \in tx[s].op.scope \ EntryNames(tx[s].op) : Schedule(s, n) # None => ~Schedule(s, n).active

SyncStory(s) ==
  LET x == tx[s] IN
  x.op # None /\ x.op.kind = "sync" =>
    /\ SyncProgress(x.op, x.todo, x.wrote)
    /\ x.stage = "commit" => x.todo = <<>> /\ (x.op.exact => TableLock(s, "schedules") /\ AbsentInactive(s))

SessionStory(s) ==
  /\ WritesOwned(s) /\ KindStory(s) /\ LockStory(s) /\ RowsWritable(s)
  /\ ClaimedDue(s) /\ SlotsSound(s) /\ DefinedSound(s) /\ SyncStory(s)

(* A slot that was fired is behind the cursor.                             *)
FiredBehind ==
  \A slot \in fired : \E n \in Names :
    /\ schedules[n] # None /\ slot = <<n, slot[2], slot[3]>> /\ slot[2] \in Nat /\ slot[3] \in Nat
    /\ schedules[n].gen > slot[2] \/ (schedules[n].gen = slot[2] /\ schedules[n].next > slot[3])

SchedulesInv ==
  /\ TablesTyped /\ SessionsTyped /\ LocksApart /\ FiredBehind
  /\ ActiveSchedulesHaveEnabledDefinitions
  /\ \A s \in Sessions : SessionStory(s)

-----------------------------------------------------------------------------
(* The next fire time.                                                     *)

LEMMA LeastOf ==
  ASSUME NEW S \in SUBSET Nat, S # {}
  PROVE  Min(S) \in S /\ \A x \in S : Min(S) <= x
<1> DEFINE R == OpToRel(<, Nat)
<1>1. IsWellFoundedOn(R, Nat)
  BY NatLessThanWellFounded
<1>2. \A x, y \in Nat : x < y => <<x, y>> \in R
  BY DEF OpToRel
<1> HIDE DEF R
<1>3. PICK x \in S : \A y \in S : ~(<<y, x>> \in R)
  BY <1>1, WFMin
<1>4. ASSUME NEW y \in S PROVE x <= y
  <2>1. x \in Nat /\ y \in Nat
    OBVIOUS
  <2>2. ~(y < x)
    BY <1>2, <1>3, <2>1, Zenon
  <2> QED BY <2>1, <2>2
<1> QED BY <1>4 DEF Min

(* A set has one least element.                                            *)
LEMMA LeastIs ==
  ASSUME NEW S \in SUBSET Nat, NEW m \in S, \A x \in S : m <= x
  PROVE  Min(S) = m
<1>1. Min(S) \in S /\ Min(S) <= m /\ m <= Min(S)
  BY LeastOf
<1>2. m \in Nat /\ Min(S) \in Nat
  BY <1>1
<1> QED BY <1>1, <1>2

LEMMA FireAfter ==
  ASSUME NEW c \in Crons, NEW b \in Bases[c]
  PROVE  b \in Nat \ {0} /\ Fire(b) \in Nat /\ b <= Fire(b) /\ Fire(b) <= b + MaxJitter
BY SchedulesAssumption DEF Fire

LEMMA NextJitteredIsLater ==
  ASSUME NEW c \in Crons, NEW t \in Nat, NextJittered(c, t) # None
  PROVE  \E b \in Bases[c] : /\ NextJittered(c, t) = Fire(b) /\ b > t
                             /\ \A a \in Bases[c] : a > t => b <= a
<1>1. After(c, t) # {} /\ After(c, t) \in SUBSET Nat
  BY FireAfter DEF NextJittered, After
<1>2. Min(After(c, t)) \in After(c, t) /\ \A x \in After(c, t) : Min(After(c, t)) <= x
  BY <1>1, LeastOf
<1>3. NextJittered(c, t) = Fire(Min(After(c, t)))
  BY <1>1 DEF NextJittered
<1>4. PICK b : b = Min(After(c, t))
  OBVIOUS
<1>5. b \in Bases[c] /\ b > t /\ NextJittered(c, t) = Fire(b)
  BY <1>2, <1>3, <1>4 DEF After
<1>6. \A a \in Bases[c] : a > t => b <= a
  BY <1>2, <1>4 DEF After
<1> QED BY <1>5, <1>6

(* The fires of c that are still to come.                                  *)
Coming(c, t) == {f \in {Fire(b) : b \in Bases[c]} : f > t}

(* Jitter carries no base past t from before the window searched.          *)
LEMMA CoalescedIsNext ==
  ASSUME NEW c \in Crons, NEW t \in Nat, Coalesced(c, t) # None
  PROVE  Coalesced(c, t) \in Nat /\ Coalesced(c, t) > t /\ Coalesced(c, t) = Min(Coming(c, t))
<1> DEFINE from == IF t > MaxJitter + 1 THEN t - (MaxJitter + 1) ELSE 0
           late == {f \in {Fire(b) : b \in After(c, from)} : f > t}
<1>0. MaxJitter \in Nat
  BY SchedulesAssumption
<1>1. Coalesced(c, t) = IF MaxJitter = 0 \/ late = {} THEN NextJittered(c, t) ELSE Min(late)
  BY DEF Coalesced
<1>2. late = Coming(c, t)
  <2>1. ASSUME NEW b \in Bases[c], Fire(b) > t PROVE b > from
    <3>1. b \in Nat \ {0} /\ Fire(b) \in Nat /\ Fire(b) <= b + MaxJitter
      BY FireAfter
    <3> QED BY <1>0, <2>1, <3>1
  <2> HIDE DEF from
  <2>2. ASSUME NEW b \in Bases[c], Fire(b) > t PROVE b \in After(c, from)
    BY <2>1, <2>2 DEF After
  <2>3. After(c, from) \subseteq Bases[c]
    BY DEF After
  <2> QED BY <2>2, <2>3 DEF Coming
<1>3. Coming(c, t) \in SUBSET Nat
  BY FireAfter DEF Coming
<1> HIDE DEF late
<1>4. CASE MaxJitter = 0 \/ late = {}
  <2>1. Coalesced(c, t) = NextJittered(c, t) /\ NextJittered(c, t) # None
    BY <1>1, <1>4
  <2>2. PICK b \in Bases[c] : /\ NextJittered(c, t) = Fire(b) /\ b > t
                              /\ \A a \in Bases[c] : a > t => b <= a
    BY <2>1, NextJitteredIsLater
  <2>3. b \in Nat /\ Fire(b) \in Nat /\ Fire(b) > t
    BY <2>2, FireAfter
  <2>4. Fire(b) \in Coming(c, t)
    BY <2>3 DEF Coming
  <2>5. MaxJitter = 0
    BY <1>2, <1>4, <2>4
  <2>6. \A a \in Bases[c] : Fire(a) = a /\ a \in Nat
    <3> SUFFICES ASSUME NEW a \in Bases[c] PROVE Fire(a) = a /\ a \in Nat
      OBVIOUS
    <3>1. a \in Nat /\ Fire(a) \in Nat /\ a <= Fire(a) /\ Fire(a) <= a + 0
      BY <2>5, FireAfter
    <3> QED BY <3>1
  <2>7. \A f \in Coming(c, t) : Fire(b) <= f
    BY <2>2, <2>6 DEF Coming
  <2>8. Min(Coming(c, t)) = Fire(b)
    BY <1>3, <2>4, <2>7, LeastIs
  <2> QED BY <2>1, <2>2, <2>3, <2>8
<1>5. CASE MaxJitter # 0 /\ late # {}
  <2>1. Coalesced(c, t) = Min(Coming(c, t)) /\ Coming(c, t) # {}
    BY <1>1, <1>2, <1>5
  <2>2. Min(Coming(c, t)) \in Coming(c, t)
    BY <1>3, <2>1, LeastOf
  <2>3. \A f \in Coming(c, t) : f \in Nat /\ f > t
    BY <1>3 DEF Coming
  <2> QED BY <2>1, <2>2, <2>3
<1> QED BY <1>4, <1>5

(* compute_next_fire_at_with_stale_coalescing_utc.                         *)
LEMMA NextFireIsLater ==
  ASSUME NEW c \in Crons, NEW slot \in Nat, NEW t \in Nat, NextFire(c, slot, t) # None
  PROVE  /\ NextFire(c, slot, t) \in Nat /\ NextFire(c, slot, t) > t
         /\ NextJittered(c, slot) <= t => NextFire(c, slot, t) = Min(Coming(c, t))
<1>1. CASE NextJittered(c, slot) # None /\ NextJittered(c, slot) <= t
  <2>1. NextFire(c, slot, t) = Coalesced(c, t)
    BY <1>1 DEF NextFire
  <2> QED BY <2>1, CoalescedIsNext
<1>2. CASE ~(NextJittered(c, slot) # None /\ NextJittered(c, slot) <= t)
  <2>1. NextFire(c, slot, t) = NextJittered(c, slot) /\ NextJittered(c, slot) # None
    BY <1>2 DEF NextFire
  <2>2. PICK b \in Bases[c] : NextJittered(c, slot) = Fire(b)
    BY <2>1, NextJitteredIsLater
  <2>3. Fire(b) \in Nat
    BY FireAfter
  <2> QED BY <1>2, <2>1, <2>2, <2>3
<1> QED BY <1>1, <1>2

-----------------------------------------------------------------------------
(* What the locks of a session keep from the others.                       *)

LEMMA LockFields ==
  \A obj, mode : LockOn(obj, mode).obj = obj /\ LockOn(obj, mode).mode = mode
BY DEF LockOn

LEMMA OwnersDiffer ==
  ASSUME LocksApart, NEW s \in Sessions, NEW r \in Sessions, s # r
  PROVE  /\ \A n : ~(Owns(s, n) /\ Owns(r, n))
         /\ \A t : ~(OwnsType(s, t) /\ OwnsType(r, t))
         /\ ~(TableLock(s, "schedules") /\ Enters(r))
<1>1. \A h \in tx[s].held, l \in tx[r].held : ~Conflicts(h, l)
  BY DEF LocksApart
<1>2. ASSUME NEW obj, NEW i, NEW j, LockOn(obj, i) \in tx[s].held, LockOn(obj, j) \in tx[r].held
      PROVE  i = "RowExclusive" /\ j = "RowExclusive"
  BY <1>1, <1>2, LockFields DEF Conflicts
<1>3. ~(TableLock(s, "schedules") /\ Enters(r)) /\ ~(TableLock(r, "schedules") /\ Enters(s))
  BY <1>2 DEF TableLock, Enters
<1>4. \A n : ~(LockOn(n, "Row") \in tx[s].held /\ LockOn(n, "Row") \in tx[r].held)
  BY <1>2
<1>5. \A n : (Owns(s, n) => Enters(s)) /\ (Owns(r, n) => Enters(r))
  BY DEF Owns, Enters
<1>6. ~(TableLock(s, "definitions") /\ TableLock(r, "definitions"))
  BY <1>2 DEF TableLock
<1>7. /\ ~(TableLock(s, "definitions") /\ LockOn("definitions", "RowExclusive") \in tx[r].held)
      /\ ~(TableLock(r, "definitions") /\ LockOn("definitions", "RowExclusive") \in tx[s].held)
  BY <1>2 DEF TableLock
<1> QED BY <1>3, <1>4, <1>5, <1>6, <1>7 DEF Owns, OwnsType

(* What a step of another session leaves to s.                             *)
SessionRely(s) ==
  /\ tx'[s] = tx[s]
  /\ \A n \in Names : Owns(s, n) => schedules'[n] = schedules[n]
  /\ \A t \in Types : OwnsType(s, t) => definitions'[t] = definitions[t]
  /\ \A t \in Types : definitions[t] # None => definitions'[t] # None
  /\ Enters(s) => \A t \in Types : definitions[t] = TRUE => definitions'[t] = TRUE

LEMMA SameLocks ==
  ASSUME NEW s, tx'[s] = tx[s]
  PROVE  /\ \A table : TableLock(s, table)' = TableLock(s, table)
         /\ Enters(s)' = Enters(s)
         /\ \A n : Owns(s, n)' = Owns(s, n) /\ OwnsType(s, n)' = OwnsType(s, n)
BY DEF TableLock, Enters, Owns, OwnsType

LEMMA StoryKept ==
  ASSUME SchedulesInv, NEW s \in Sessions, SessionRely(s)
  PROVE  SessionStory(s)'
<1>1. SessionTyped(tx[s]) /\ SessionStory(s) /\ tx'[s] = tx[s]
  BY DEF SchedulesInv, SessionsTyped, SessionRely
<1>2. /\ \A table : TableLock(s, table)' = TableLock(s, table)
      /\ Enters(s)' = Enters(s)
      /\ \A n : Owns(s, n)' = Owns(s, n) /\ OwnsType(s, n)' = OwnsType(s, n)
  BY <1>1, SameLocks
<1>3. \A n \in DOMAIN tx[s].wrote \cup tx[s].claimed :
        /\ n \in Names /\ Owns(s, n) /\ Enters(s) /\ schedules'[n] = schedules[n]
  BY <1>1 DEF SessionTyped, SessionStory, WritesOwned, SessionRely, Owns, Enters
<1>4. WritesOwned(s)' /\ LockStory(s)'
  BY <1>1, <1>2 DEF SessionStory, WritesOwned, LockStory
<1>5. KindStory(s)'
  BY <1>1 DEF SessionStory, KindStory
<1>6. RowsWritable(s)'
  <2> SUFFICES ASSUME NEW n \in DOMAIN tx[s].wrote PROVE RowWritable(n, tx[s].wrote[n])'
    BY <1>1 DEF RowsWritable
  <2>1. RowWritable(n, tx[s].wrote[n]) /\ schedules'[n] = schedules[n] /\ Enters(s)
    BY <1>1, <1>3 DEF SessionStory, RowsWritable
  <2>2. tx[s].wrote[n].type \in Types
    BY <1>1 DEF SessionTyped, Rows
  <2> QED BY <1>1, <2>1, <2>2 DEF RowWritable, SessionRely
<1>7. ClaimedDue(s)'
  BY <1>1, <1>3 DEF SessionStory, ClaimedDue
<1>8. SlotsSound(s)'
  <2> SUFFICES ASSUME NEW slot \in tx[s].slots
               PROVE  \E n \in DOMAIN tx[s].wrote : SlotOf(s, n, slot)'
    BY <1>1 DEF SlotsSound
  <2>1. PICK n \in DOMAIN tx[s].wrote : SlotOf(s, n, slot)
    BY <1>1 DEF SessionStory, SlotsSound
  <2>2. SlotOf(s, n, slot)'
    BY <1>1, <1>3, <2>1 DEF SlotOf
  <2> QED BY <2>2
<1>9. DefinedSound(s)'
  <2> SUFFICES ASSUME NEW t \in DOMAIN tx[s].defined
               PROVE  \/ tx[s].defined[t] = TRUE \/ definitions'[t] # TRUE
                      \/ /\ TableLock(s, "schedules")
                         /\ \A n \in Names : schedules'[n] # None /\ schedules'[n].active => schedules'[n].type # t
    BY <1>1, <1>2 DEF DefinedSound
  <2>1. t \in Types /\ definitions'[t] = definitions[t]
    BY <1>1 DEF SessionTyped, SessionStory, WritesOwned, SessionRely
  <2>2. TableLock(s, "schedules") => \A n \in Names : schedules'[n] = schedules[n]
    BY DEF SessionRely, Owns
  <2> QED BY <1>1, <2>1, <2>2 DEF SessionStory, DefinedSound
<1>10. SyncStory(s)'
  <2>1. TableLock(s, "schedules") => \A n \in Names : Schedule(s, n)' = Schedule(s, n)
    BY <1>1 DEF SessionRely, Owns, Schedule
  <2>2. tx[s].op # None /\ tx[s].op.kind = "sync" => tx[s].op.scope \subseteq Names
    BY <1>1, OperationsAssumption DEF SessionTyped, OperationOK
  <2>3. /\ tx[s].op # None /\ tx[s].op.kind = "sync" /\ TableLock(s, "schedules")
        /\ AbsentInactive(s)
        => AbsentInactive(s)'
    BY <1>1, <2>1, <2>2 DEF AbsentInactive
  <2> QED BY <1>1, <1>2, <2>3 DEF SessionStory, SyncStory
<1> QED BY <1>4, <1>5, <1>6, <1>7, <1>8, <1>9, <1>10 DEF SessionStory

(* A statement of s: it publishes nothing.                                 *)
Statement(s) ==
  /\ UNCHANGED <<now, schedules, definitions, fired>>
  /\ DOMAIN tx' = Sessions /\ \A r \in Sessions \ {s} : tx'[r] = tx[r]

LEMMA StatementKeeps ==
  ASSUME SchedulesInv, NEW s \in Sessions, Statement(s), SessionTyped(tx'[s]),
         \A r \in Sessions \ {s} : \A h \in tx'[s].held, l \in tx[r].held : ~Conflicts(h, l),
         SessionStory(s)'
  PROVE  SchedulesInv'
<1>1. TablesTyped' /\ FiredBehind' /\ ActiveSchedulesHaveEnabledDefinitions'
  BY DEF SchedulesInv, Statement, TablesTyped, FiredBehind, ActiveSchedulesHaveEnabledDefinitions
<1>2. SessionsTyped'
  BY DEF SchedulesInv, Statement, SessionsTyped
<1>3. LocksApart'
  <2> SUFFICES ASSUME NEW q \in Sessions, NEW r \in Sessions, q # r,
                      NEW h \in tx'[q].held, NEW l \in tx'[r].held
               PROVE  ~Conflicts(h, l)
    BY DEF LocksApart
  <2>1. CASE q = s
    BY <2>1 DEF Statement
  <2>2. CASE r = s
    BY <2>2 DEF Statement, Conflicts
  <2>3. CASE q # s /\ r # s
    BY <2>3 DEF Statement, SchedulesInv, LocksApart
  <2> QED BY <2>1, <2>2, <2>3
<1>4. ASSUME NEW r \in Sessions \ {s} PROVE SessionStory(r)'
  <2>1. SessionRely(r)
    BY DEF SessionRely, Statement
  <2> QED BY <2>1, StoryKept
<1> QED BY <1>1, <1>2, <1>3, <1>4 DEF SchedulesInv

(* Locks are granted beside those of the others.                           *)
LEMMA Granted ==
  ASSUME SchedulesInv, NEW s \in Sessions, NEW new, Acquire(s, new),
         tx'[s].held \subseteq tx[s].held \cup new
  PROVE  \A r \in Sessions \ {s} : \A h \in tx'[s].held, l \in tx[r].held : ~Conflicts(h, l)
<1> SUFFICES ASSUME NEW r \in Sessions \ {s}, NEW h \in tx'[s].held, NEW l \in tx[r].held
             PROVE  ~Conflicts(h, l)
  OBVIOUS
<1>1. CASE h \in tx[s].held
  BY <1>1 DEF SchedulesInv, LocksApart
<1>2. CASE h \in new
  BY <1>2 DEF Acquire, Blockers, Conflicts
<1> QED BY <1>1, <1>2

-----------------------------------------------------------------------------
(* Commit and rollback.                                                    *)

LEMMA IdleStory ==
  ASSUME NEW s \in Sessions, tx'[s] = Idle
  PROVE  /\ SessionTyped(tx'[s]) /\ SessionStory(s)'
         /\ tx'[s].held = {} /\ tx'[s].slots = {}
<1>1. /\ tx'[s].op = None /\ tx'[s].todo = <<>> /\ tx'[s].claimed = {} /\ tx'[s].started = 0
      /\ tx'[s].stage = "work" /\ tx'[s].slots = {} /\ tx'[s].held = {}
      /\ DOMAIN tx'[s].wrote = {} /\ DOMAIN tx'[s].defined = {} /\ SessionShape(tx'[s])
  BY DEF Idle, SessionShape
<1>2. SessionTyped(tx'[s])
  BY <1>1 DEF SessionTyped
<1>3. WritesOwned(s)' /\ LockStory(s)' /\ RowsWritable(s)' /\ ClaimedDue(s)' /\ SlotsSound(s)' /\ DefinedSound(s)'
  BY <1>1 DEF WritesOwned, LockStory, RowsWritable, ClaimedDue, SlotsSound, DefinedSound
<1>4. KindStory(s)' /\ SyncStory(s)'
  BY <1>1 DEF KindStory, SyncStory
<1> QED BY <1>1, <1>2, <1>3, <1>4 DEF SessionStory

LEMMA RollbackSessionInv ==
  ASSUME SchedulesInv, NEW s \in Sessions, RollbackSession(s)
  PROVE  SchedulesInv'
<1>1. tx'[s] = Idle /\ Statement(s)
  BY DEF RollbackSession, Statement, SchedulesInv, SessionsTyped
<1>2. SessionTyped(tx'[s]) /\ SessionStory(s)' /\ tx'[s].held = {}
  BY <1>1, IdleStory
<1> QED BY <1>1, <1>2, StatementKeeps

(* What the commit of s publishes.                                         *)
LEMMA SessionPublished ==
  ASSUME SchedulesInv, NEW s \in Sessions, CommitSession(s)
  PROVE  /\ \A n \in Names : /\ n \in DOMAIN tx[s].wrote => schedules'[n] = tx[s].wrote[n]
                             /\ n \notin DOMAIN tx[s].wrote => schedules'[n] = schedules[n]
         /\ \A t \in Types : /\ t \in DOMAIN tx[s].defined => definitions'[t] = tx[s].defined[t]
                             /\ t \notin DOMAIN tx[s].defined => definitions'[t] = definitions[t]
         /\ DOMAIN schedules' = Names /\ DOMAIN definitions' = Types /\ now' = now
         /\ fired' = fired \cup tx[s].slots /\ tx'[s] = Idle
         /\ DOMAIN tx' = Sessions /\ \A r \in Sessions \ {s} : tx'[r] = tx[r]
BY DEF CommitSession, Schedule, Definition, SchedulesInv, SessionsTyped

(* A definition is turned off only by the one session in the tables.       *)
LEMMA DefinitionsKept ==
  ASSUME SchedulesInv, NEW s \in Sessions, CommitSession(s)
  PROVE  /\ \A t \in Types : definitions[t] # None => definitions'[t] # None
         /\ \A t \in Types : definitions[t] = TRUE /\ definitions'[t] # TRUE =>
              /\ TableLock(s, "schedules") /\ DOMAIN tx[s].wrote = {}
              /\ \A n \in Names : schedules[n] # None /\ schedules[n].active => schedules[n].type # t
<1>1. SessionTyped(tx[s]) /\ SessionStory(s)
  BY DEF SchedulesInv, SessionsTyped
<1>2. \A t \in DOMAIN tx[s].defined : tx[s].defined[t] # None
  BY <1>1, OperationsAssumption, Zenon DEF SessionTyped
<1>3. \A t \in Types : definitions[t] # None => definitions'[t] # None
  BY <1>2, SessionPublished
<1>4. ASSUME NEW t \in Types, definitions[t] = TRUE, definitions'[t] # TRUE
      PROVE  /\ TableLock(s, "schedules") /\ DOMAIN tx[s].wrote = {}
             /\ \A n \in Names : schedules[n] # None /\ schedules[n].active => schedules[n].type # t
  <2>1. t \in DOMAIN tx[s].defined /\ tx[s].defined[t] # TRUE
    BY <1>4, SessionPublished
  <2>2. tx[s].op # None
    BY <1>1, <2>1 DEF SessionStory, KindStory, Idle
  <2>3. DOMAIN tx[s].wrote = {}
    BY <1>1, <2>1, <2>2 DEF SessionStory, KindStory
  <2> QED BY <1>1, <1>4, <2>1, <2>3 DEF SessionStory, DefinedSound
<1> QED BY <1>3, <1>4

LEMMA CommitRelies ==
  ASSUME SchedulesInv, NEW s \in Sessions, CommitSession(s), NEW r \in Sessions, r # s
  PROVE  SessionRely(r)
<1>1. SessionTyped(tx[s]) /\ SessionStory(s) /\ LocksApart
  BY DEF SchedulesInv, SessionsTyped
<1>2. \A n : ~(Owns(s, n) /\ Owns(r, n)) /\ ~(OwnsType(s, n) /\ OwnsType(r, n))
  BY <1>1, OwnersDiffer
<1>3. ~(TableLock(s, "schedules") /\ Enters(r))
  BY <1>1, OwnersDiffer
<1>4. \A n \in Names : Owns(r, n) => schedules'[n] = schedules[n]
  BY <1>1, <1>2, SessionPublished DEF SessionStory, WritesOwned
<1>5. \A t \in Types : OwnsType(r, t) => definitions'[t] = definitions[t]
  BY <1>1, <1>2, SessionPublished DEF SessionStory, WritesOwned
<1>6. Enters(r) => \A t \in Types : definitions[t] = TRUE => definitions'[t] = TRUE
  BY <1>3, DefinitionsKept
<1>7. tx'[r] = tx[r]
  BY SessionPublished
<1> QED BY <1>4, <1>5, <1>6, <1>7, DefinitionsKept DEF SessionRely

LEMMA CommittedRows ==
  ASSUME SchedulesInv, NEW s \in Sessions, CommitSession(s)
  PROVE  TablesTyped' /\ ActiveSchedulesHaveEnabledDefinitions'
<1>1. SessionTyped(tx[s]) /\ SessionStory(s) /\ TablesTyped /\ ActiveSchedulesHaveEnabledDefinitions
  BY DEF SchedulesInv, SessionsTyped
<1>2. ASSUME NEW n \in Names, schedules'[n] # None
      PROVE  /\ schedules'[n] \in Rows /\ definitions'[schedules'[n].type] # None
             /\ schedules'[n].active => definitions'[schedules'[n].type] = TRUE
  <2>1. CASE n \in DOMAIN tx[s].wrote
    <3>1. schedules'[n] = tx[s].wrote[n] /\ tx[s].wrote[n] \in Rows /\ RowWritable(n, tx[s].wrote[n])
      BY <1>1, <2>1, SessionPublished DEF SessionTyped, SessionStory, RowsWritable
    <3>2. tx[s].wrote[n].type \in Types
      BY <3>1 DEF Rows
    <3> QED BY <2>1, <3>1, <3>2, DefinitionsKept DEF RowWritable
  <2>2. CASE n \notin DOMAIN tx[s].wrote
    <3>1. schedules'[n] = schedules[n] /\ schedules[n] \in Rows /\ definitions[schedules[n].type] # None
      BY <1>1, <1>2, <2>2, SessionPublished DEF TablesTyped
    <3>2. schedules[n].type \in Types
      BY <3>1 DEF Rows
    <3>3. schedules[n].active => definitions[schedules[n].type] = TRUE
      BY <1>1, <1>2, <3>1 DEF ActiveSchedulesHaveEnabledDefinitions
    <3> QED BY <1>2, <3>1, <3>2, <3>3, DefinitionsKept
  <2> QED BY <2>1, <2>2
<1>3. definitions' \in [Types -> {None, TRUE, FALSE}]
  <2>1. \A t \in Types : Definition(s, t) \in {None, TRUE, FALSE}
    BY <1>1, Zenon DEF SessionTyped, TablesTyped, Definition
  <2>2. definitions' = [t \in Types |-> Definition(s, t)]
    BY DEF CommitSession
  <2> QED BY <2>1, <2>2, Zenon
<1>4. now' \in 1..MaxTime /\ DOMAIN schedules' = Names
  BY <1>1, SessionPublished DEF TablesTyped
<1> QED BY <1>2, <1>3, <1>4 DEF TablesTyped, ActiveSchedulesHaveEnabledDefinitions

LEMMA CommittedSlots ==
  ASSUME SchedulesInv, NEW s \in Sessions, CommitSession(s)
  PROVE  FiredBehind'
<1>1. SessionTyped(tx[s]) /\ SessionStory(s) /\ TablesTyped /\ FiredBehind
  BY DEF SchedulesInv, SessionsTyped
<1>2. \A row \in Rows : row.gen \in Nat /\ row.next \in Nat
  BY DEF Rows
<1> SUFFICES ASSUME NEW slot \in fired'
             PROVE  \E n \in Names :
    /\ schedules'[n] # None /\ slot = <<n, slot[2], slot[3]>> /\ slot[2] \in Nat /\ slot[3] \in Nat
    /\ schedules'[n].gen > slot[2] \/ (schedules'[n].gen = slot[2] /\ schedules'[n].next > slot[3])
  BY DEF FiredBehind
<1>3. CASE slot \in fired
  <2>1. PICK n \in Names :
    /\ schedules[n] # None /\ slot = <<n, slot[2], slot[3]>> /\ slot[2] \in Nat /\ slot[3] \in Nat
    /\ schedules[n].gen > slot[2] \/ (schedules[n].gen = slot[2] /\ schedules[n].next > slot[3])
    BY <1>1, <1>3 DEF FiredBehind
  <2>2. schedules[n] \in Rows
    BY <1>1, <2>1 DEF TablesTyped
  <2>3. CASE n \notin DOMAIN tx[s].wrote
    BY <2>1, <2>3, SessionPublished
  <2>4. CASE n \in DOMAIN tx[s].wrote
    <3>1. schedules'[n] = tx[s].wrote[n] /\ tx[s].wrote[n] \in Rows /\ Follows(schedules[n], tx[s].wrote[n])
      BY <1>1, <2>1, <2>4, SessionPublished DEF SessionTyped, SessionStory, RowsWritable, RowWritable
    <3>2. schedules'[n] # None
      BY <3>1, OperationsAssumption
    <3> QED BY <1>2, <2>1, <2>2, <3>1, <3>2 DEF Follows
  <2> QED BY <2>3, <2>4
<1>4. CASE slot \in tx[s].slots
  <2>1. PICK n \in DOMAIN tx[s].wrote : SlotOf(s, n, slot)
    BY <1>1, <1>4 DEF SessionStory, SlotsSound
  <2>2. n \in Names /\ schedules[n] \in Rows /\ tx[s].wrote[n] \in Rows /\ schedules'[n] = tx[s].wrote[n]
    BY <1>1, <2>1, SessionPublished DEF SessionTyped, TablesTyped, SlotOf
  <2>3. schedules'[n] # None
    BY <2>2, OperationsAssumption
  <2>4. slot = <<n, schedules[n].gen, schedules[n].next>>
    BY <2>1 DEF SlotOf
  <2>5. slot[2] = schedules[n].gen /\ slot[3] = schedules[n].next
    BY <2>4
  <2>6. schedules'[n].gen = slot[2] /\ schedules'[n].next > slot[3]
    BY <2>1, <2>2, <2>5 DEF SlotOf
  <2>7. slot = <<n, slot[2], slot[3]>> /\ slot[2] \in Nat /\ slot[3] \in Nat
    BY <1>2, <2>2, <2>4, <2>5
  <2> QED BY <2>2, <2>3, <2>6, <2>7
<1> QED BY <1>3, <1>4, SessionPublished

LEMMA CommitSessionInv ==
  ASSUME SchedulesInv, NEW s \in Sessions, CommitSession(s)
  PROVE  SchedulesInv'
<1>1. SessionTyped(tx'[s]) /\ SessionStory(s)' /\ tx'[s].held = {}
  BY SessionPublished, IdleStory
<1>2. \A r \in Sessions \ {s} : SessionStory(r)'
  BY CommitRelies, StoryKept
<1>3. SessionsTyped'
  BY <1>1, SessionPublished DEF SchedulesInv, SessionsTyped
<1>4. LocksApart'
  BY <1>1, SessionPublished DEF SchedulesInv, LocksApart
<1> QED BY <1>1, <1>2, <1>3, <1>4, CommittedRows, CommittedSlots DEF SchedulesInv

-----------------------------------------------------------------------------
(* Begin, and the locks of the guards.                                     *)

LEMMA BeginSessionInv ==
  ASSUME SchedulesInv, NEW s \in Sessions, NEW op \in Operations, BeginSession(s, op)
  PROVE  SchedulesInv'
<1>0. PICK todo : todo = IF op.kind \in {"plain", "sync"} THEN op.entries ELSE <<>>
  OBVIOUS
<1>1. DOMAIN tx = Sessions /\ now \in Nat
  BY SchedulesAssumption DEF SchedulesInv, SessionsTyped, TablesTyped
<1>2. /\ tx'[s] = [Idle EXCEPT !.op = op, !.started = now, !.todo = todo]
      /\ Statement(s)
  BY <1>0, <1>1 DEF BeginSession, Statement
<1>3. /\ tx'[s].op = op /\ tx'[s].todo = todo /\ tx'[s].claimed = {} /\ tx'[s].started = now
      /\ tx'[s].stage = "work" /\ tx'[s].slots = {} /\ tx'[s].held = {}
      /\ DOMAIN tx'[s].wrote = {} /\ DOMAIN tx'[s].defined = {} /\ SessionShape(tx'[s])
  <2>1. tx'[s] = [op |-> op, todo |-> todo, claimed |-> {}, started |-> now, stage |-> "work",
                  wrote |-> <<>>, defined |-> <<>>, slots |-> {}, held |-> {}]
    BY <1>2 DEF Idle
  <2> QED BY <2>1 DEF SessionShape
<1>4. op # None /\ OperationOK(op) /\ todo \in Seq(Entries)
  BY <1>0, OperationsAssumption DEF OperationOK
<1>5. SessionTyped(tx'[s])
  BY <1>1, <1>3, <1>4 DEF SessionTyped
<1>6. WritesOwned(s)' /\ LockStory(s)' /\ RowsWritable(s)' /\ ClaimedDue(s)' /\ SlotsSound(s)' /\ DefinedSound(s)'
  BY <1>3 DEF WritesOwned, LockStory, RowsWritable, ClaimedDue, SlotsSound, DefinedSound
<1>7. KindStory(s)'
  BY <1>3, <1>4 DEF KindStory
<1>8. SyncStory(s)'
  <2>1. op.kind = "sync" => todo = op.entries /\ Len(todo) \in Nat
    BY <1>0, <1>4
  <2> QED BY <1>3, <1>4, <2>1 DEF SyncStory, SyncProgress
<1> QED BY <1>2, <1>3, <1>5, <1>6, <1>7, <1>8, StatementKeeps DEF SessionStory

LEMMA TakeFields ==
  ASSUME SchedulesInv, NEW s \in Sessions, NEW new, Take(s, new)
  PROVE  /\ Statement(s) /\ SessionShape(tx'[s])
         /\ tx'[s].op = tx[s].op /\ tx'[s].todo = tx[s].todo /\ tx'[s].claimed = tx[s].claimed
         /\ tx'[s].started = tx[s].started /\ tx'[s].stage = tx[s].stage /\ tx'[s].wrote = tx[s].wrote
         /\ tx'[s].defined = tx[s].defined /\ tx'[s].slots = tx[s].slots
         /\ tx'[s].held = tx[s].held \cup new
<1>1. DOMAIN tx = Sessions /\ SessionShape(tx[s])
  BY DEF SchedulesInv, SessionsTyped, SessionTyped
<1>2. tx'[s] = [tx[s] EXCEPT !.held = @ \cup new] /\ DOMAIN tx' = Sessions
      /\ \A r \in Sessions \ {s} : tx'[r] = tx[r]
  BY Zenon, <1>1 DEF Take
<1> QED BY <1>1, <1>2 DEF SessionShape, Take, Statement

(* A session with more locks.                                              *)
LEMMA MoreLocks ==
  ASSUME NEW s, tx[s].held \subseteq tx'[s].held
  PROVE  /\ \A table : TableLock(s, table) => TableLock(s, table)'
         /\ Enters(s) => Enters(s)'
         /\ \A n : (Owns(s, n) => Owns(s, n)') /\ (OwnsType(s, n) => OwnsType(s, n)')
BY DEF TableLock, Enters, Owns, OwnsType

LEMMA TakeInv ==
  ASSUME SchedulesInv, NEW s \in Sessions, NEW new, Take(s, new),
         tx[s].op # None, LockStory(s)'
  PROVE  SchedulesInv'
<1>1. SessionTyped(tx[s]) /\ SessionStory(s)
  BY DEF SchedulesInv, SessionsTyped
<1>2. /\ Statement(s) /\ SessionShape(tx'[s])
      /\ tx'[s].op = tx[s].op /\ tx'[s].todo = tx[s].todo /\ tx'[s].claimed = tx[s].claimed
      /\ tx'[s].started = tx[s].started /\ tx'[s].stage = tx[s].stage /\ tx'[s].wrote = tx[s].wrote
      /\ tx'[s].defined = tx[s].defined /\ tx'[s].slots = tx[s].slots
      /\ tx'[s].held = tx[s].held \cup new
  BY TakeFields
<1>3. SessionTyped(tx'[s])
  BY <1>1, <1>2 DEF SessionTyped
<1>4. \A r \in Sessions \ {s} : \A h \in tx'[s].held, l \in tx[r].held : ~Conflicts(h, l)
  BY <1>2, Granted DEF Take
<1>5. /\ \A table : TableLock(s, table) => TableLock(s, table)'
      /\ \A n : (Owns(s, n) => Owns(s, n)') /\ (OwnsType(s, n) => OwnsType(s, n)')
  BY <1>2, MoreLocks
<1>6. schedules' = schedules /\ definitions' = definitions
  BY <1>2 DEF Statement
<1>7. WritesOwned(s)'
  BY <1>1, <1>2, <1>5 DEF SessionStory, WritesOwned
<1>8. KindStory(s)'
  BY <1>1, <1>2 DEF SessionStory, KindStory
<1>9. RowsWritable(s)' /\ ClaimedDue(s)'
  BY <1>1, <1>2, <1>6 DEF SessionStory, RowsWritable, RowWritable, ClaimedDue
<1>10. SlotsSound(s)'
  BY <1>1, <1>2, <1>6 DEF SessionStory, SlotsSound, SlotOf
<1>11. DefinedSound(s)'
  BY <1>1, <1>2, <1>5, <1>6 DEF SessionStory, DefinedSound
<1>12. SyncStory(s)'
  <2>1. SyncStory(s) /\ (AbsentInactive(s) => AbsentInactive(s)')
    BY <1>1, <1>2, <1>6 DEF SessionStory, Schedule, AbsentInactive
  <2> QED BY <1>2, <1>5, <2>1 DEF SyncStory
<1> QED BY <1>2, <1>3, <1>4, <1>7, <1>8, <1>9, <1>10, <1>11, <1>12, StatementKeeps DEF SessionStory

LEMMA GuardLockInv ==
  ASSUME SchedulesInv, NEW s \in Sessions, Work(s, {"plain", "sync", "activate", "definitions"}),
         LockSchedules(s) \/ LockDefinitions(s)
  PROVE  SchedulesInv'
<1>1. tx[s].op # None /\ tx[s].op.kind \in {"plain", "sync", "activate", "definitions"}
  BY DEF Work
<1>2. PICK new : Take(s, new) /\ (TableLock(s, "schedules") \/ LockOn("schedules", "ShareRowExclusive") \in new)
  BY DEF LockSchedules, LockDefinitions
<1>3. tx'[s].op = tx[s].op /\ tx'[s].stage = tx[s].stage /\ tx'[s].held = tx[s].held \cup new
  BY <1>2, TakeFields
<1>4. TableLock(s, "schedules")'
  BY <1>2, <1>3 DEF TableLock
<1>5. LockStory(s)'
  BY <1>1, <1>3, <1>4 DEF LockStory, Enters
<1> QED BY <1>1, <1>2, <1>5, TakeInv

LEMMA ClaimLockInv ==
  ASSUME SchedulesInv, NEW s \in Sessions, ClaimLock(s)
  PROVE  SchedulesInv'
<1>1. tx[s].op # None /\ tx[s].op.kind = "scheduler"
  BY DEF ClaimLock, Work
<1>2. PICK new : new = {LockOn("schedules", "RowExclusive")}
  OBVIOUS
<1>3. Take(s, new)
  BY <1>2 DEF ClaimLock
<1>4. tx'[s].op = tx[s].op /\ tx'[s].stage = tx[s].stage /\ tx'[s].held = tx[s].held \cup new
  BY <1>3, TakeFields
<1>5. LockOn("schedules", "RowExclusive") \in tx'[s].held
  BY <1>2, <1>4
<1>6. LockStory(s)'
  BY <1>1, <1>4, <1>5 DEF LockStory, Enters
<1> QED BY <1>1, <1>3, <1>6, TakeInv

-----------------------------------------------------------------------------
(* Writes of schedules by administrative sessions.                         *)

(* What such a write leaves alone.                                         *)
WroteRows(s, new) ==
  /\ Statement(s) /\ SessionShape(tx'[s]) /\ Acquire(s, new)
  /\ tx'[s].op = tx[s].op /\ tx'[s].claimed = tx[s].claimed /\ tx'[s].started = tx[s].started
  /\ tx'[s].defined = tx[s].defined /\ tx'[s].slots = tx[s].slots /\ tx'[s].held = tx[s].held \cup new

LEMMA WroteRowsInv ==
  ASSUME SchedulesInv, NEW s \in Sessions, NEW new, WroteRows(s, new),
         tx[s].op # None, tx[s].op.kind \in {"plain", "sync", "activate", "deactivate", "cursor"},
         tx'[s].stage = "commit" \/ (tx'[s].stage = "work" /\ tx[s].op.kind \in {"plain", "sync"}),
         tx'[s].todo \in Seq(Entries), DOMAIN tx'[s].wrote \subseteq Names,
         \A n \in DOMAIN tx'[s].wrote : /\ tx'[s].wrote[n] \in Rows /\ Owns(s, n)'
                                        /\ RowWritable(n, tx'[s].wrote[n]),
         LockStory(s)', SyncStory(s)'
  PROVE  SchedulesInv'
<1>1. SessionTyped(tx[s]) /\ SessionStory(s) /\ KindStory(s)
  BY DEF SchedulesInv, SessionsTyped, SessionStory
<1>2. tx[s].claimed = {} /\ tx[s].slots = {} /\ DOMAIN tx[s].defined = {} /\ tx'[s].op = tx[s].op
  BY <1>1 DEF KindStory, WroteRows
<1>3. tx'[s].claimed = {} /\ tx'[s].slots = {} /\ DOMAIN tx'[s].defined = {}
  BY <1>2 DEF WroteRows
<1>4. SessionTyped(tx'[s])
  BY <1>1, <1>3 DEF SessionTyped, WroteRows
<1>5. \A r \in Sessions \ {s} : \A h \in tx'[s].held, l \in tx[r].held : ~Conflicts(h, l)
  BY Granted DEF WroteRows
<1>6. schedules' = schedules /\ definitions' = definitions /\ Statement(s)
  BY DEF WroteRows, Statement
<1>7. WritesOwned(s)' /\ ClaimedDue(s)' /\ SlotsSound(s)' /\ DefinedSound(s)'
  BY <1>3 DEF WritesOwned, ClaimedDue, SlotsSound, DefinedSound
<1>8. RowsWritable(s)'
  BY <1>6 DEF RowsWritable, RowWritable
<1>9. KindStory(s)'
  BY <1>2, <1>3 DEF KindStory
<1> QED BY <1>4, <1>5, <1>6, <1>7, <1>8, <1>9, StatementKeeps DEF SessionStory

LEMMA RowTyped ==
  ASSUME NEW type \in Types, NEW active \in BOOLEAN, NEW cron \in Crons, NEW next \in Nat, NEW gen \in Nat
  PROVE  Row(type, active, cron, next, gen) \in Rows
BY Zenon DEF Row, Rows

LEMMA RowFields ==
  ASSUME NEW row \in Rows
  PROVE  /\ row.type \in Types /\ row.active \in BOOLEAN /\ row.cron \in Crons
         /\ row.next \in Nat /\ row.gen \in Nat /\ row # None
         /\ row = [type |-> row.type, active |-> row.active, cron |-> row.cron,
                   next |-> row.next, gen |-> row.gen]
<1>1. row # None
  BY OperationsAssumption
<1> QED BY <1>1 DEF Rows

(* A row as the session sees it.                                           *)
LEMMA SeenRow ==
  ASSUME SchedulesInv, NEW s \in Sessions, NEW n \in Names, Schedule(s, n) # None
  PROVE  /\ Schedule(s, n) \in Rows /\ RowWritable(n, Schedule(s, n))
         /\ n \in DOMAIN tx[s].wrote => Schedule(s, n) = tx[s].wrote[n]
<1>1. CASE n \in DOMAIN tx[s].wrote
  BY <1>1 DEF SchedulesInv, SessionsTyped, SessionTyped, SessionStory, RowsWritable, Schedule
<1>2. CASE n \notin DOMAIN tx[s].wrote
  <2>1. Schedule(s, n) = schedules[n]
    BY <1>2 DEF Schedule
  <2>2. schedules[n] \in Rows /\ definitions[schedules[n].type] # None
    BY <2>1 DEF SchedulesInv, TablesTyped
  <2>3. schedules[n].active => definitions[schedules[n].type] = TRUE
    BY <2>1 DEF SchedulesInv, ActiveSchedulesHaveEnabledDefinitions
  <2>4. Follows(schedules[n], schedules[n])
    BY <2>2, RowFields DEF Follows
  <2> QED BY <1>2, <2>1, <2>2, <2>3, <2>4 DEF RowWritable
<1> QED BY <1>1, <1>2

LEMMA Unseen ==
  ASSUME NEW s \in Sessions, NEW n \in Names, SchedulesInv, Schedule(s, n) = None
  PROVE  schedules[n] = None /\ n \notin DOMAIN tx[s].wrote
BY RowFields DEF Schedule, SchedulesInv, SessionsTyped, SessionTyped

LEMMA FollowsTransitive ==
  ASSUME NEW x \in Rows, NEW y \in Rows, NEW z \in Rows, Follows(x, y), Follows(y, z)
  PROVE  Follows(x, z)
BY RowFields DEF Follows

(* A row that follows the one the session sees may be written.             *)
LEMMA SuccessorWritable ==
  ASSUME SchedulesInv, NEW s \in Sessions, NEW n \in Names, NEW row \in Rows, Schedule(s, n) # None,
         Follows(Schedule(s, n), row), definitions[row.type] # None,
         row.active => definitions[row.type] = TRUE
  PROVE  RowWritable(n, row)
<1>1. Schedule(s, n) \in Rows /\ RowWritable(n, Schedule(s, n))
  BY SeenRow
<1>2. schedules[n] # None => schedules[n] \in Rows
  BY DEF SchedulesInv, TablesTyped
<1> QED BY <1>1, <1>2, FollowsTransitive DEF RowWritable

LEMMA RowWriteLocks ==
  ASSUME NEW s, NEW rows, RowWrite("schedules", rows) \subseteq tx'[s].held
  PROVE  Enters(s)' /\ \A n \in rows : Owns(s, n)'
BY DEF RowWrite, Enters, Owns

LEMMA ProgressStep ==
  ASSUME NEW op, OperationOK(op), op.kind = "sync", NEW todo \in Seq(Entries), todo # <<>>,
         NEW wrote, NEW row, SyncProgress(op, todo, wrote), row.active = Head(todo).active
  PROVE  SyncProgress(op, Tail(todo), Put(wrote, Head(todo).name, row))
<1>1. PICK k : k = Len(op.entries) - Len(todo)
  OBVIOUS
<1>2. /\ op.entries \in Seq(Entries) /\ Len(op.entries) \in Nat /\ Len(todo) \in Nat \ {0} /\ k \in Nat
      /\ k + 1 \in 1..Len(op.entries)
  BY <1>1 DEF OperationOK, SyncProgress
<1>3. /\ \A j \in 1..Len(todo) : todo[j] = op.entries[k + j]
      /\ \A i \in 1..k : /\ op.entries[i].name \in DOMAIN wrote
                         /\ wrote[op.entries[i].name].active = op.entries[i].active
  BY <1>1 DEF SyncProgress
<1>4. /\ Len(Tail(todo)) = Len(todo) - 1 /\ Head(todo) = todo[1]
      /\ \A j \in 1..(Len(todo) - 1) : Tail(todo)[j] = todo[j + 1]
  BY <1>2
<1>5. Head(todo) = op.entries[k + 1]
  BY <1>2, <1>3, <1>4
<1>6. Len(op.entries) - Len(Tail(todo)) = k + 1
  BY <1>1, <1>2, <1>4
<1>7. \A j \in 1..Len(Tail(todo)) : Tail(todo)[j] = op.entries[k + 1 + j]
  <2> SUFFICES ASSUME NEW j \in 1..(Len(todo) - 1) PROVE Tail(todo)[j] = op.entries[k + 1 + j]
    BY <1>4
  <2>1. Tail(todo)[j] = todo[j + 1] /\ todo[j + 1] = op.entries[k + (j + 1)]
    BY <1>2, <1>3, <1>4
  <2>2. k + (j + 1) = k + 1 + j
    BY <1>2
  <2> QED BY <2>1, <2>2
<1>8. \A i \in 1..k : op.entries[i].name # Head(todo).name
  <2> SUFFICES ASSUME NEW i \in 1..k, op.entries[i].name = op.entries[k + 1].name PROVE FALSE
    BY <1>5
  <2>1. i \in DOMAIN op.entries /\ k + 1 \in DOMAIN op.entries /\ i # k + 1
    BY <1>2
  <2> QED BY <2>1 DEF OperationOK
<1>9. PICK new : new = Put(wrote, Head(todo).name, row)
  OBVIOUS
<1>10. /\ DOMAIN new = DOMAIN wrote \cup {Head(todo).name} /\ new[Head(todo).name] = row
       /\ \A z \in DOMAIN wrote : z # Head(todo).name => new[z] = wrote[z]
  BY <1>9 DEF Put
<1>11. ASSUME NEW i \in 1..(k + 1)
       PROVE  op.entries[i].name \in DOMAIN new /\ new[op.entries[i].name].active = op.entries[i].active
  <2>1. CASE i = k + 1
    BY <1>5, <1>10, <2>1
  <2>2. CASE i \in 1..k
    BY <1>3, <1>8, <1>10, <2>2
  <2> QED BY <1>2, <2>1, <2>2
<1> QED BY <1>2, <1>6, <1>7, <1>9, <1>11 DEF SyncProgress

LEMMA PersistEntryInv ==
  ASSUME SchedulesInv, NEW s \in Sessions, PersistEntry(s)
  PROVE  SchedulesInv'
<1>1. PICK e, old, row :
        /\ e = Head(tx[s].todo) /\ old = Schedule(s, e.name)
        /\ row = IF old = None THEN Row(e.type, e.active, e.cron, e.next, 0) ELSE Persisted(s, old, e)
  OBVIOUS
<1>2. PICK new : new = RowWrite("schedules", {e.name})
  OBVIOUS
<1>3. /\ tx[s].op # None /\ tx[s].op.kind \in {"plain", "sync"} /\ tx[s].stage = "work" /\ tx[s].todo # <<>>
      /\ EntryGuarded(s) /\ Admissible(s) /\ Definition(s, e.type) # None /\ Acquire(s, new)
  BY <1>1, <1>2 DEF PersistEntry, Work, Entry
<1>4. tx' = [tx EXCEPT ![s].wrote = Put(@, e.name, row), ![s].held = @ \cup new, ![s].todo = Tail(@)]
  BY <1>1, <1>2, Zenon DEF PersistEntry, Entry
<1>5. SessionTyped(tx[s]) /\ SessionShape(tx[s]) /\ SessionStory(s) /\ DOMAIN tx = Sessions
  BY DEF SchedulesInv, SessionsTyped, SessionTyped
<1>6. /\ tx'[s] = [tx[s] EXCEPT !.wrote = Put(@, e.name, row), !.held = @ \cup new, !.todo = Tail(@)]
      /\ DOMAIN tx' = Sessions /\ \A r \in Sessions \ {s} : tx'[r] = tx[r]
  BY <1>4, <1>5, Zenon
<1>7. /\ SessionShape(tx'[s]) /\ tx'[s].wrote = Put(tx[s].wrote, e.name, row)
      /\ tx'[s].held = tx[s].held \cup new /\ tx'[s].todo = Tail(tx[s].todo)
      /\ tx'[s].op = tx[s].op /\ tx'[s].claimed = tx[s].claimed /\ tx'[s].started = tx[s].started
      /\ tx'[s].defined = tx[s].defined /\ tx'[s].slots = tx[s].slots /\ tx'[s].stage = tx[s].stage
  BY <1>5, <1>6 DEF SessionShape
<1>8. WroteRows(s, new)
  BY <1>3, <1>6, <1>7 DEF WroteRows, Statement, PersistEntry
<1>9. e \in Entries /\ tx[s].todo \in Seq(Entries) /\ Tail(tx[s].todo) \in Seq(Entries)
  BY <1>1, <1>3, <1>5 DEF SessionTyped
<1>10. /\ e.name \in Names /\ e.type \in Types /\ e.active \in BOOLEAN /\ e.cron \in Crons /\ e.next \in Nat
  BY <1>9 DEF Entries
<1>11. old # None => old \in Rows /\ old.active \in BOOLEAN /\ old.next \in Nat /\ old.gen \in Nat
  BY <1>1, <1>10, SeenRow, RowFields
<1>12. row \in Rows
  <2>1. CASE old = None
    BY <1>1, <1>10, <2>1, RowTyped
  <2>2. CASE old # None
    <3>1. PICK a, x, g : /\ a = IF tx[s].op.kind = "plain" THEN old.active ELSE e.active
                         /\ x = IF e.cron = old.cron THEN old.next ELSE e.next
                         /\ g = IF e.cron = old.cron THEN old.gen ELSE old.gen + 1
      OBVIOUS
    <3>2. row = Row(e.type, a, e.cron, x, g)
      BY <1>1, <2>2, <3>1 DEF Persisted
    <3>3. a \in BOOLEAN /\ x \in Nat /\ g \in Nat
      BY <1>10, <1>11, <2>2, <3>1
    <3> QED BY <1>10, <3>2, <3>3, RowTyped
  <2> QED BY <2>1, <2>2
<1>13. row.type = e.type /\ row.active = ActiveAfter(s)
  <2>1. ActiveAfter(s) = IF tx[s].op.kind = "plain" /\ old # None THEN old.active ELSE e.active
    BY <1>1 DEF ActiveAfter, Entry
  <2>2. row.type = e.type /\ row.active = IF tx[s].op.kind = "plain" /\ old # None THEN old.active ELSE e.active
    BY <1>1, Zenon DEF Row, Persisted
  <2> QED BY <2>1, <2>2
<1>14. definitions[e.type] # None /\ (ActiveAfter(s) => definitions[e.type] = TRUE)
  <2>1. Definition(s, e.type) = definitions[e.type]
    BY <1>3, <1>5 DEF Definition, SessionStory, KindStory
  <2> QED BY <1>1, <1>3, <2>1 DEF Admissible, Entry
<1>15. RowWritable(e.name, row)
  <2>1. CASE old = None
    BY <1>1, <1>10, <1>13, <1>14, <2>1, Unseen DEF RowWritable
  <2>2. CASE old # None
    <3>1. Follows(old, row)
      <4>1. row.gen = IF e.cron = old.cron THEN old.gen ELSE old.gen + 1
        BY <1>1, <2>2, Zenon DEF Persisted, Row
      <4>2. row.next = IF e.cron = old.cron THEN old.next ELSE e.next
        BY <1>1, <2>2, Zenon DEF Persisted, Row
      <4> QED BY <1>11, <2>2, <4>1, <4>2 DEF Follows
    <3> QED BY <1>1, <1>10, <1>12, <1>13, <1>14, <2>2, <3>1, SuccessorWritable
  <2> QED BY <2>1, <2>2
<1>16. DOMAIN tx'[s].wrote = DOMAIN tx[s].wrote \cup {e.name} /\ tx'[s].wrote[e.name] = row
       /\ \A n \in DOMAIN tx[s].wrote : n # e.name => tx'[s].wrote[n] = tx[s].wrote[n]
  BY <1>7 DEF Put
<1>17. Enters(s)' /\ Owns(s, e.name)'
  BY <1>2, <1>7, RowWriteLocks
<1>18. /\ \A table : TableLock(s, table) => TableLock(s, table)'
       /\ \A n : Owns(s, n) => Owns(s, n)'
  BY <1>7, MoreLocks
<1>19. DOMAIN tx'[s].wrote \subseteq Names
       /\ \A n \in DOMAIN tx'[s].wrote : tx'[s].wrote[n] \in Rows /\ Owns(s, n)' /\ RowWritable(n, tx'[s].wrote[n])
  BY <1>5, <1>10, <1>12, <1>15, <1>16, <1>17, <1>18
     DEF SessionTyped, SessionStory, WritesOwned, RowsWritable
<1>20. LockStory(s)'
  BY <1>3, <1>7, <1>17, <1>18 DEF LockStory, EntryGuarded, GuardsSchedules
<1>21. SyncStory(s)'
  <2> SUFFICES ASSUME tx[s].op.kind = "sync"
               PROVE  SyncProgress(tx[s].op, Tail(tx[s].todo), Put(tx[s].wrote, e.name, row))
    BY <1>3, <1>7 DEF SyncStory
  <2>1. OperationOK(tx[s].op) /\ SyncProgress(tx[s].op, tx[s].todo, tx[s].wrote)
    BY <1>3, <1>5, OperationsAssumption DEF SessionTyped, SessionStory, SyncStory
  <2>2. row.active = e.active
    BY <1>1, <1>13 DEF ActiveAfter, Entry
  <2> QED BY <1>1, <1>3, <1>9, <2>1, <2>2, ProgressStep
<1> QED BY <1>3, <1>7, <1>8, <1>9, <1>19, <1>20, <1>21, WroteRowsInv

LEMMA SetActive ==
  ASSUME NEW row \in Rows, NEW b \in BOOLEAN
  PROVE  \E y \in Rows : /\ y = [row EXCEPT !.active = b] /\ y.type = row.type /\ y.next = row.next
                         /\ y.gen = row.gen /\ y.cron = row.cron /\ y.active = b
<1>1. PICK y : y = [row EXCEPT !.active = b]
  OBVIOUS
<1>2. /\ row.type \in Types /\ row.cron \in Crons /\ row.next \in Nat /\ row.gen \in Nat
      /\ row = [type |-> row.type, active |-> row.active, cron |-> row.cron,
                next |-> row.next, gen |-> row.gen]
  BY RowFields
<1>3. y = [type |-> row.type, active |-> b, cron |-> row.cron, next |-> row.next, gen |-> row.gen]
  BY <1>1, <1>2
<1>4. y \in Rows
  BY <1>2, <1>3, Zenon DEF Rows
<1>5. y.type = row.type /\ y.next = row.next /\ y.gen = row.gen /\ y.cron = row.cron /\ y.active = b
  BY <1>3
<1> QED BY <1>1, <1>4, <1>5

LEMMA Deactivate ==
  ASSUME NEW row \in Rows
  PROVE  \E y \in Rows : /\ y = [row EXCEPT !.active = FALSE] /\ y.type = row.type /\ y.next = row.next
                         /\ y.gen = row.gen /\ y.cron = row.cron /\ ~y.active
<1>1. PICK b \in BOOLEAN : b = FALSE
  BY Zenon
<1>2. PICK y \in Rows : /\ y = [row EXCEPT !.active = b] /\ y.type = row.type /\ y.next = row.next
                        /\ y.gen = row.gen /\ y.cron = row.cron /\ y.active = b
  BY SetActive
<1>3. y = [row EXCEPT !.active = FALSE] /\ ~y.active
  BY <1>1, <1>2, Zenon
<1> QED BY <1>2, <1>3

LEMMA FinishEntriesInv ==
  ASSUME SchedulesInv, NEW s \in Sessions, FinishEntries(s)
  PROVE  SchedulesInv'
<1>1. PICK absent, new, wrote :
        /\ absent = Deactivated(s, tx[s].op) /\ new = EntryRows(s)
        /\ wrote = [n \in DOMAIN tx[s].wrote \cup absent |->
                      IF n \in absent THEN [Schedule(s, n) EXCEPT !.active = FALSE] ELSE tx[s].wrote[n]]
  OBVIOUS
<1>2. /\ tx[s].op # None /\ tx[s].op.kind \in {"plain", "sync"} /\ tx[s].stage = "work" /\ tx[s].todo = <<>>
      /\ GuardsSchedules(s) => TableLock(s, "schedules")
      /\ Acquire(s, new)
  BY <1>1 DEF FinishEntries, Work
<1>3. tx' = [tx EXCEPT ![s].stage = "commit", ![s].held = @ \cup new, ![s].wrote = wrote]
  BY <1>1, Zenon DEF FinishEntries
<1>4. SessionTyped(tx[s]) /\ SessionShape(tx[s]) /\ SessionStory(s) /\ DOMAIN tx = Sessions
  BY DEF SchedulesInv, SessionsTyped, SessionTyped
<1>5. /\ tx'[s] = [tx[s] EXCEPT !.stage = "commit", !.held = @ \cup new, !.wrote = wrote]
      /\ DOMAIN tx' = Sessions /\ \A r \in Sessions \ {s} : tx'[r] = tx[r]
  BY <1>3, <1>4, Zenon
<1>6. /\ SessionShape(tx'[s]) /\ tx'[s].wrote = wrote
      /\ tx'[s].held = tx[s].held \cup new /\ tx'[s].todo = tx[s].todo
      /\ tx'[s].op = tx[s].op /\ tx'[s].claimed = tx[s].claimed /\ tx'[s].started = tx[s].started
      /\ tx'[s].defined = tx[s].defined /\ tx'[s].slots = tx[s].slots /\ tx'[s].stage = "commit"
  BY <1>4, <1>5 DEF SessionShape
<1>7. WroteRows(s, new)
  BY <1>2, <1>5, <1>6 DEF WroteRows, Statement, FinishEntries
<1>8. tx[s].op \in Operations /\ OperationOK(tx[s].op)
  BY <1>2, <1>4, OperationsAssumption DEF SessionTyped
<1>9. /\ absent # {} => tx[s].op.kind = "sync" /\ tx[s].op.exact /\ TableLock(s, "schedules")
      /\ tx[s].op.kind = "sync" /\ tx[s].op.exact =>
           absent = {n \in tx[s].op.scope \ EntryNames(tx[s].op) : Schedule(s, n) # None /\ Schedule(s, n).active}
  BY <1>1, <1>2 DEF Deactivated, AbsentSchedules, GuardsSchedules
<1>10. \A n \in absent : n \in Names /\ Schedule(s, n) # None /\ n \notin EntryNames(tx[s].op)
  BY <1>8, <1>9 DEF OperationOK
<1>11. /\ DOMAIN wrote = DOMAIN tx[s].wrote \cup absent
       /\ \A n \in absent : wrote[n] = [Schedule(s, n) EXCEPT !.active = FALSE]
       /\ \A n \in DOMAIN tx[s].wrote : n \notin absent => wrote[n] = tx[s].wrote[n]
  BY <1>1
<1>12. /\ \A table : TableLock(s, table) => TableLock(s, table)'
       /\ \A n : Owns(s, n) => Owns(s, n)'
  BY <1>6, MoreLocks
<1>13. ASSUME NEW n \in absent
       PROVE  wrote[n] \in Rows /\ ~wrote[n].active /\ Owns(s, n)' /\ RowWritable(n, wrote[n])
  <2>1. Schedule(s, n) \in Rows /\ RowWritable(n, Schedule(s, n)) /\ n \in Names /\ Schedule(s, n) # None
    BY <1>10, SeenRow
  <2>2. PICK y \in Rows : /\ y = [Schedule(s, n) EXCEPT !.active = FALSE] /\ y.type = Schedule(s, n).type
                          /\ y.next = Schedule(s, n).next /\ y.gen = Schedule(s, n).gen /\ ~y.active
    BY <2>1, Deactivate
  <2>3. Follows(Schedule(s, n), y)
    BY <2>1, <2>2, RowFields DEF Follows
  <2>4. RowWritable(n, y)
    BY <2>1, <2>2, <2>3, SuccessorWritable DEF RowWritable
  <2>5. Owns(s, n)'
    BY <1>9, <1>12 DEF Owns
  <2> QED BY <1>11, <2>2, <2>4, <2>5
<1>14. DOMAIN wrote \subseteq Names
       /\ \A n \in DOMAIN wrote : wrote[n] \in Rows /\ Owns(s, n)' /\ RowWritable(n, wrote[n])
  BY <1>4, <1>10, <1>11, <1>12, <1>13 DEF SessionTyped, SessionStory, WritesOwned, RowsWritable
<1>15. LockStory(s)'
  BY <1>6 DEF LockStory
<1>16. SyncStory(s)'
  <2> SUFFICES ASSUME tx[s].op.kind = "sync"
               PROVE  /\ SyncProgress(tx[s].op, tx[s].todo, wrote)
                      /\ tx[s].op.exact => TableLock(s, "schedules")' /\ AbsentInactive(s)'
    BY <1>2, <1>6 DEF SyncStory
  <2>1. SyncProgress(tx[s].op, tx[s].todo, tx[s].wrote)
    BY <1>2, <1>4 DEF SessionStory, SyncStory
  <2>2. tx[s].op.entries \in Seq(Entries) /\ Len(tx[s].op.entries) \in Nat /\ Len(tx[s].todo) = 0
    BY <1>2, <1>8 DEF OperationOK
  <2>3. \A i \in 1..Len(tx[s].op.entries) : tx[s].op.entries[i].name \notin absent
    BY <1>10 DEF EntryNames
  <2>4. SyncProgress(tx[s].op, tx[s].todo, wrote)
    BY <1>11, <2>1, <2>2, <2>3 DEF SyncProgress
  <2>5. ASSUME tx[s].op.exact PROVE TableLock(s, "schedules")' /\ AbsentInactive(s)'
    <3>1. TableLock(s, "schedules")'
      BY <1>2, <1>12, <2>5 DEF GuardsSchedules
    <3>2. ASSUME NEW n \in tx[s].op.scope \ EntryNames(tx[s].op), Schedule(s, n)' # None
          PROVE  ~Schedule(s, n)'.active
      <4>1. CASE n \in absent
        <5>1. Schedule(s, n)' = wrote[n]
          BY <1>6, <1>11, <4>1 DEF Schedule
        <5> QED BY <1>13, <4>1, <5>1
      <4>2. CASE n \notin absent
        <5>1. Schedule(s, n)' = Schedule(s, n)
          BY <1>6, <1>7, <1>11, <4>2 DEF Schedule, WroteRows, Statement
        <5> QED BY <1>9, <2>5, <3>2, <4>2, <5>1
      <4> QED BY <4>1, <4>2
    <3> QED BY <1>6, <3>1, <3>2 DEF AbsentInactive
  <2> QED BY <2>4, <2>5
<1>17. tx'[s].todo \in Seq(Entries)
  BY <1>4, <1>6 DEF SessionTyped
<1> QED BY <1>2, <1>6, <1>7, <1>14, <1>15, <1>16, <1>17, WroteRowsInv

(* One row is written, and the session is ready to commit.                 *)
LEMMA WroteOneInv ==
  ASSUME SchedulesInv, NEW s \in Sessions, NEW new, WroteRows(s, new),
         tx[s].op # None, tx[s].op.kind \in {"activate", "deactivate", "cursor"}, tx[s].stage = "work",
         tx'[s].stage = "commit", tx'[s].todo = tx[s].todo,
         NEW n \in Names, NEW row \in Rows, tx'[s].wrote = Put(tx[s].wrote, n, row),
         RowWritable(n, row), Owns(s, n)'
  PROVE  SchedulesInv'
<1>1. SessionTyped(tx[s]) /\ SessionStory(s)
  BY DEF SchedulesInv, SessionsTyped
<1>2. DOMAIN tx[s].wrote = {}
  BY <1>1 DEF SessionStory, KindStory
<1>3. DOMAIN tx'[s].wrote = {n} /\ tx'[s].wrote[n] = row
  BY <1>2 DEF Put
<1>4. LockStory(s)' /\ SyncStory(s)'
  BY DEF LockStory, SyncStory, WroteRows
<1>5. tx'[s].todo \in Seq(Entries)
  BY <1>1 DEF SessionTyped
<1> QED BY <1>3, <1>4, <1>5, WroteRowsInv

LEMMA NamedOperation ==
  ASSUME SchedulesInv, NEW s \in Sessions, tx[s].op # None,
         tx[s].op.kind \in {"activate", "deactivate", "cursor"}
  PROVE  tx[s].op.name \in Names /\ (tx[s].op.kind = "cursor" => tx[s].op.next \in Nat)
<1>1. OperationOK(tx[s].op)
  BY OperationsAssumption DEF SchedulesInv, SessionsTyped, SessionTyped
<1> QED BY <1>1 DEF OperationOK

LEMMA ActivateInv ==
  ASSUME SchedulesInv, NEW s \in Sessions, Activate(s)
  PROVE  SchedulesInv'
<1>1. PICK n, row, wrote :
        /\ n = tx[s].op.name /\ row = Schedule(s, n)
        /\ wrote = IF row = None THEN tx[s].wrote ELSE Put(tx[s].wrote, n, [row EXCEPT !.active = TRUE])
  OBVIOUS
<1>2. /\ tx[s].op # None /\ tx[s].op.kind = "activate" /\ tx[s].stage = "work" /\ TableLock(s, "schedules")
      /\ row # None => Definition(s, row.type) = TRUE
  BY <1>1 DEF Activate, Work
<1>3. tx' = [tx EXCEPT ![s].stage = "commit", ![s].wrote = wrote]
  <2>1. tx' = [tx EXCEPT ![s].stage = "commit",
                         ![s].wrote = IF row = None THEN @ ELSE Put(@, n, [row EXCEPT !.active = TRUE])]
    BY <1>1, Zenon DEF Activate
  <2> QED BY <1>1, <2>1
<1>4. SessionTyped(tx[s]) /\ SessionShape(tx[s]) /\ SessionStory(s) /\ DOMAIN tx = Sessions
  BY DEF SchedulesInv, SessionsTyped, SessionTyped
<1>5. /\ tx'[s] = [tx[s] EXCEPT !.stage = "commit", !.wrote = wrote]
      /\ DOMAIN tx' = Sessions /\ \A r \in Sessions \ {s} : tx'[r] = tx[r]
  BY <1>3, <1>4, Zenon
<1>6. /\ SessionShape(tx'[s]) /\ tx'[s].wrote = wrote
      /\ tx'[s].held = tx[s].held /\ tx'[s].todo = tx[s].todo
      /\ tx'[s].op = tx[s].op /\ tx'[s].claimed = tx[s].claimed /\ tx'[s].started = tx[s].started
      /\ tx'[s].defined = tx[s].defined /\ tx'[s].slots = tx[s].slots /\ tx'[s].stage = "commit"
  BY <1>4, <1>5 DEF SessionShape
<1>7. Acquire(s, {}) /\ tx'[s].held = tx[s].held \cup {}
  BY <1>6 DEF Acquire, Blockers
<1>8. WroteRows(s, {})
  BY <1>5, <1>6, <1>7 DEF WroteRows, Statement, Activate
<1>9. n \in Names
  BY <1>1, <1>2, NamedOperation
<1>10. CASE row = None
  <2>1. tx'[s].wrote = tx[s].wrote /\ DOMAIN tx[s].wrote = {}
    BY <1>1, <1>2, <1>4, <1>6, <1>10 DEF SessionStory, KindStory
  <2>2. LockStory(s)' /\ SyncStory(s)'
    BY <1>2, <1>6 DEF LockStory, SyncStory
  <2>3. tx'[s].todo \in Seq(Entries)
    BY <1>4, <1>6 DEF SessionTyped
  <2> QED BY <1>2, <1>6, <1>8, <2>1, <2>2, <2>3, WroteRowsInv
<1>11. CASE row # None
  <2>1. row \in Rows /\ RowWritable(n, row)
    BY <1>1, <1>9, <1>11, SeenRow
  <2>2. PICK b \in BOOLEAN : b = TRUE
    BY Zenon
  <2>3. PICK y \in Rows : /\ y = [row EXCEPT !.active = b] /\ y.type = row.type /\ y.next = row.next
                          /\ y.gen = row.gen /\ y.cron = row.cron /\ y.active = b
    BY <2>1, SetActive
  <2>4. y = [row EXCEPT !.active = TRUE]
    BY <2>2, <2>3, Zenon
  <2>5. Definition(s, row.type) = definitions[row.type]
    BY <1>2, <1>4 DEF Definition, SessionStory, KindStory
  <2>6. Follows(row, y)
    BY <2>1, <2>3, RowFields DEF Follows
  <2>7. RowWritable(n, y)
    BY <1>1, <1>2, <1>9, <1>11, <2>1, <2>3, <2>5, <2>6, SuccessorWritable DEF RowWritable
  <2>8. Owns(s, n)'
    BY <1>2, <1>6 DEF Owns, TableLock
  <2>9. tx'[s].wrote = Put(tx[s].wrote, n, y)
    BY <1>1, <1>6, <1>11, <2>4
  <2> QED BY <1>2, <1>6, <1>8, <1>9, <2>7, <2>8, <2>9, WroteOneInv
<1> QED BY <1>10, <1>11

LEMMA WriteScheduleInv ==
  ASSUME SchedulesInv, NEW s \in Sessions, WriteSchedule(s)
  PROVE  SchedulesInv'
<1>1. PICK n, row, new, y :
        /\ n = tx[s].op.name /\ row = Schedule(s, n) /\ new = RowWrite("schedules", {n})
        /\ y = IF tx[s].op.kind = "deactivate" THEN [row EXCEPT !.active = FALSE]
               ELSE [row EXCEPT !.next = tx[s].op.next, !.gen = @ + 1]
  OBVIOUS
<1>2. /\ tx[s].op # None /\ tx[s].op.kind \in {"deactivate", "cursor"} /\ tx[s].stage = "work"
      /\ row # None /\ Acquire(s, new)
  BY <1>1 DEF WriteSchedule, Work
<1>3. tx' = [tx EXCEPT ![s].stage = "commit", ![s].held = @ \cup new, ![s].wrote = Put(@, n, y)]
  BY <1>1, Zenon DEF WriteSchedule
<1>4. SessionTyped(tx[s]) /\ SessionShape(tx[s]) /\ SessionStory(s) /\ DOMAIN tx = Sessions
  BY DEF SchedulesInv, SessionsTyped, SessionTyped
<1>5. /\ tx'[s] = [tx[s] EXCEPT !.stage = "commit", !.held = @ \cup new, !.wrote = Put(@, n, y)]
      /\ DOMAIN tx' = Sessions /\ \A r \in Sessions \ {s} : tx'[r] = tx[r]
  BY <1>3, <1>4, Zenon
<1>6. /\ SessionShape(tx'[s]) /\ tx'[s].wrote = Put(tx[s].wrote, n, y)
      /\ tx'[s].held = tx[s].held \cup new /\ tx'[s].todo = tx[s].todo
      /\ tx'[s].op = tx[s].op /\ tx'[s].claimed = tx[s].claimed /\ tx'[s].started = tx[s].started
      /\ tx'[s].defined = tx[s].defined /\ tx'[s].slots = tx[s].slots /\ tx'[s].stage = "commit"
  BY <1>4, <1>5 DEF SessionShape
<1>7. WroteRows(s, new)
  BY <1>2, <1>5, <1>6 DEF WroteRows, Statement, WriteSchedule
<1>8. n \in Names /\ (tx[s].op.kind = "cursor" => tx[s].op.next \in Nat)
  BY <1>1, <1>2, NamedOperation
<1>9. row \in Rows /\ RowWritable(n, row)
  BY <1>1, <1>2, <1>8, SeenRow
<1>10. y \in Rows /\ y.type = row.type /\ Follows(row, y) /\ (y.active => row.active)
  <2>1. CASE tx[s].op.kind = "deactivate"
    <3>1. PICK z \in Rows : /\ z = [row EXCEPT !.active = FALSE] /\ z.type = row.type /\ z.next = row.next
                            /\ z.gen = row.gen /\ z.cron = row.cron /\ ~z.active
      BY <1>9, Deactivate
    <3>2. y = z
      BY <1>1, <2>1, <3>1
    <3> QED BY <1>9, <3>1, <3>2, RowFields DEF Follows
  <2>2. CASE tx[s].op.kind = "cursor"
    <3>1. PICK x \in Nat : x = tx[s].op.next
      BY <1>8, <2>2
    <3>2. /\ row.type \in Types /\ row.active \in BOOLEAN /\ row.cron \in Crons
          /\ row.next \in Nat /\ row.gen \in Nat /\ row.gen + 1 \in Nat
          /\ row = [type |-> row.type, active |-> row.active, cron |-> row.cron,
                    next |-> row.next, gen |-> row.gen]
      BY <1>9, RowFields
    <3>3. y = [row EXCEPT !.next = x, !.gen = row.gen + 1]
      BY <1>1, <2>2, <3>1
    <3>4. y = [type |-> row.type, active |-> row.active, cron |-> row.cron, next |-> x, gen |-> row.gen + 1]
      BY <3>2, <3>3
    <3>5. y \in Rows
      BY <3>2, <3>4, Zenon DEF Rows
    <3> QED BY <3>2, <3>4, <3>5 DEF Follows
  <2> QED BY <1>2, <2>1, <2>2
<1>11. RowWritable(n, y)
  BY ZenonT(30), <1>1, <1>2, <1>8, <1>9, <1>10, SuccessorWritable DEF RowWritable
<1>12. Owns(s, n)'
  BY <1>1, <1>6, RowWriteLocks
<1> QED BY <1>2, <1>6, <1>7, <1>8, <1>10, <1>11, <1>12, WroteOneInv

-----------------------------------------------------------------------------
(* Writes of definitions.                                                  *)

LEMMA WriteDefinitionsInv ==
  ASSUME SchedulesInv, NEW s \in Sessions, WriteDefinitions(s)
  PROVE  SchedulesInv'
<1>1. PICK op, rows, new, defined :
        /\ op = tx[s].op /\ rows = WrittenTypes(s, op) /\ new = RowWrite("definitions", rows)
        /\ defined = [t \in rows |-> Defined(s, op, t)]
  OBVIOUS
<1>2. /\ op # None /\ op.kind = "definitions" /\ tx[s].stage = "work"
      /\ GuardsDefinitions(op) => TableLock(s, "schedules") /\ ~LeavesActive(s, op)
      /\ Acquire(s, new)
  BY <1>1 DEF WriteDefinitions, Work
<1>3. tx' = [tx EXCEPT ![s].stage = "commit", ![s].held = @ \cup new, ![s].defined = defined]
  BY <1>1, Zenon DEF WriteDefinitions
<1>4. SessionTyped(tx[s]) /\ SessionShape(tx[s]) /\ SessionStory(s) /\ DOMAIN tx = Sessions
  BY DEF SchedulesInv, SessionsTyped, SessionTyped
<1>5. /\ tx'[s] = [tx[s] EXCEPT !.stage = "commit", !.held = @ \cup new, !.defined = defined]
      /\ DOMAIN tx' = Sessions /\ \A r \in Sessions \ {s} : tx'[r] = tx[r]
  BY <1>3, <1>4, Zenon
<1>6. /\ SessionShape(tx'[s]) /\ tx'[s].wrote = tx[s].wrote
      /\ tx'[s].held = tx[s].held \cup new /\ tx'[s].todo = tx[s].todo
      /\ tx'[s].op = op /\ tx'[s].claimed = tx[s].claimed /\ tx'[s].started = tx[s].started
      /\ tx'[s].defined = defined /\ tx'[s].slots = tx[s].slots /\ tx'[s].stage = "commit"
  BY <1>1, <1>4, <1>5 DEF SessionShape
<1>7. Statement(s) /\ schedules' = schedules /\ definitions' = definitions
  BY <1>5 DEF WriteDefinitions, Statement
<1>8. /\ DOMAIN tx[s].wrote = {} /\ DOMAIN tx[s].defined = {} /\ tx[s].slots = {} /\ tx[s].claimed = {}
  BY <1>1, <1>2, <1>4 DEF SessionStory, KindStory
<1>9. OperationOK(op)
  BY <1>1, <1>2, <1>4, OperationsAssumption DEF SessionTyped
<1>10. (\A n : Schedule(s, n) = schedules[n]) /\ \A t : Definition(s, t) = definitions[t]
  BY <1>8 DEF Schedule, Definition
<1>11. /\ rows \subseteq Types
       /\ \A t \in rows : t \in DOMAIN op.enabled \/ (t \in Absent(op) /\ definitions[t] = TRUE)
       /\ \A t \in DOMAIN op.enabled : t \notin Absent(op)
  BY <1>1, <1>2, <1>9, <1>10 DEF WrittenTypes, Absent, OperationOK
<1>12. \A t \in rows : defined[t] \in {TRUE, FALSE}
  <2> SUFFICES ASSUME NEW t \in rows PROVE Defined(s, op, t) \in {TRUE, FALSE}
    BY <1>1
  <2>1. definitions[t] \in {None, TRUE, FALSE}
    BY <1>11 DEF SchedulesInv, TablesTyped
  <2>2. CASE t \in Absent(op)
    BY <2>2, Zenon DEF Defined
  <2>3. CASE t \notin Absent(op)
    <3>1. op.enabled[t] \in {TRUE, FALSE}
      BY <1>2, <1>9, <1>11, <2>3, Zenon DEF OperationOK
    <3> QED BY <1>10, <2>1, <2>3, <3>1, Zenon DEF Defined
  <2> QED BY <2>2, <2>3
<1>13. SessionTyped(tx'[s])
  <2>1. DOMAIN defined = rows
    BY <1>1
  <2> QED BY <1>1, <1>4, <1>6, <1>11, <1>12, <2>1 DEF SessionTyped
<1>14. \A r \in Sessions \ {s} : \A h \in tx'[s].held, l \in tx[r].held : ~Conflicts(h, l)
  BY <1>2, <1>6, Granted
<1>15. WritesOwned(s)'
  <2>1. \A t \in rows : OwnsType(s, t)'
    BY <1>1, <1>6 DEF RowWrite, OwnsType
  <2>2. DOMAIN defined = rows
    BY <1>1
  <2> QED BY <1>6, <1>8, <2>1, <2>2 DEF WritesOwned
<1>16. DefinedSound(s)'
  <2> SUFFICES ASSUME NEW t \in rows, defined[t] # TRUE, definitions[t] = TRUE
               PROVE  /\ TableLock(s, "schedules")'
                      /\ \A n \in Names : schedules[n] # None /\ schedules[n].active => schedules[n].type # t
    BY <1>1, <1>6, <1>7 DEF DefinedSound
  <2>1. defined[t] = Defined(s, op, t)
    BY <1>1
  <2>2. t \in Absent(op) \/ t \in Disabled(op)
    <3> SUFFICES ASSUME t \notin Absent(op) PROVE t \in Disabled(op)
      OBVIOUS
    <3>1. t \in DOMAIN op.enabled /\ Definition(s, t) = TRUE
      BY <1>10, <1>11
    <3>2. op.enabled[t] # TRUE
      <4> SUFFICES ASSUME op.enabled[t] = TRUE PROVE Defined(s, op, t) = TRUE
        BY <2>1
      <4> QED BY <3>1, Zenon DEF Defined
    <3>3. ~op.enabled[t]
      BY <1>2, <1>9, <3>1, <3>2, Zenon DEF OperationOK
    <3> QED BY <3>1, <3>3 DEF Disabled
  <2>3. TableLock(s, "schedules") /\ ~LeavesActive(s, op)
    BY <1>2, <2>2 DEF GuardsDefinitions
  <2>4. TableLock(s, "schedules")'
    BY <1>6, <2>3 DEF TableLock
  <2>5. ASSUME NEW n \in Names, schedules[n] # None, schedules[n].active PROVE schedules[n].type # t
    BY <1>10, <2>2, <2>3, <2>5 DEF LeavesActive, ActiveOn
  <2> QED BY <2>4, <2>5
<1>17. KindStory(s)' /\ LockStory(s)' /\ SyncStory(s)'
  BY <1>2, <1>6, <1>8 DEF KindStory, LockStory, SyncStory
<1>18. RowsWritable(s)' /\ ClaimedDue(s)' /\ SlotsSound(s)'
  BY <1>6, <1>8 DEF RowsWritable, ClaimedDue, SlotsSound
<1> QED BY <1>7, <1>13, <1>14, <1>15, <1>16, <1>17, <1>18, StatementKeeps DEF SessionStory

-----------------------------------------------------------------------------
(* The scheduler's pass.                                                   *)

LEMMA ClaimDueInv ==
  ASSUME SchedulesInv, NEW s \in Sessions, ClaimDue(s)
  PROVE  SchedulesInv'
<1>1. PICK claimed, new, stage :
        /\ claimed = Claimable(s) /\ new = {LockOn(n, "Row") : n \in Claimable(s)}
        /\ stage = IF Claimable(s) = {} THEN "commit" ELSE "materialize"
  OBVIOUS
<1>2. tx[s].op # None /\ tx[s].op.kind = "scheduler" /\ tx[s].stage = "work" /\ tx[s].held # {}
  BY DEF ClaimDue, Work
<1>3. tx' = [tx EXCEPT ![s].stage = stage, ![s].claimed = claimed, ![s].held = @ \cup new]
  BY <1>1, Zenon DEF ClaimDue
<1>4. SessionTyped(tx[s]) /\ SessionShape(tx[s]) /\ SessionStory(s) /\ DOMAIN tx = Sessions
  BY DEF SchedulesInv, SessionsTyped, SessionTyped
<1>5. /\ tx'[s] = [tx[s] EXCEPT !.stage = stage, !.claimed = claimed, !.held = @ \cup new]
      /\ DOMAIN tx' = Sessions /\ \A r \in Sessions \ {s} : tx'[r] = tx[r]
  BY <1>3, <1>4, Zenon
<1>6. /\ SessionShape(tx'[s]) /\ tx'[s].wrote = tx[s].wrote
      /\ tx'[s].held = tx[s].held \cup new /\ tx'[s].todo = tx[s].todo
      /\ tx'[s].op = tx[s].op /\ tx'[s].claimed = claimed /\ tx'[s].started = tx[s].started
      /\ tx'[s].defined = tx[s].defined /\ tx'[s].slots = tx[s].slots /\ tx'[s].stage = stage
  BY <1>4, <1>5 DEF SessionShape
<1>7. Statement(s) /\ schedules' = schedules
  BY <1>5 DEF ClaimDue, Statement
<1>8. DOMAIN tx[s].wrote = {} /\ DOMAIN tx[s].defined = {} /\ tx[s].slots = {}
  BY <1>2, <1>4 DEF SessionStory, KindStory
<1>9. \A n \in claimed : /\ n \in Names /\ schedules[n] # None /\ schedules[n].active
                         /\ schedules[n].next <= tx[s].started /\ Acquire(s, {LockOn(n, "Row")})
  BY <1>1, <1>8 DEF Claimable, Schedule
<1>10. Acquire(s, new)
  BY <1>1, <1>9 DEF Acquire, Blockers
<1>11. stage \in {"commit", "materialize"}
  BY <1>1
<1>12. SessionTyped(tx'[s])
  BY <1>4, <1>6, <1>9, <1>11 DEF SessionTyped
<1>13. \A r \in Sessions \ {s} : \A h \in tx'[s].held, l \in tx[r].held : ~Conflicts(h, l)
  BY <1>6, <1>10, Granted
<1>14. WritesOwned(s)'
  <2>1. Enters(s)
    BY <1>2, <1>4 DEF SessionStory, LockStory
  <2>2. \A n \in claimed : Owns(s, n)'
    BY <1>1, <1>6, <2>1 DEF Enters, Owns, TableLock
  <2> QED BY <1>6, <1>8, <2>2 DEF WritesOwned
<1>15. KindStory(s)' /\ LockStory(s)' /\ SyncStory(s)'
  BY <1>2, <1>6, <1>8, <1>11 DEF KindStory, LockStory, SyncStory
<1>16. RowsWritable(s)' /\ ClaimedDue(s)' /\ SlotsSound(s)' /\ DefinedSound(s)'
  BY <1>6, <1>7, <1>8, <1>9 DEF RowsWritable, ClaimedDue, SlotsSound, DefinedSound
<1> QED BY <1>7, <1>12, <1>13, <1>14, <1>15, <1>16, StatementKeeps DEF SessionStory

(* The row that a pass leaves for n, and the slot that it fires, if any.   *)
Moves(s, n, row, slots) ==
  /\ RowWritable(n, row)
  /\ \A slot \in slots :
       /\ slot = <<n, schedules[n].gen, schedules[n].next>>
       /\ row.gen = schedules[n].gen /\ row.next > schedules[n].next
       /\ row.next = NextFire(row.cron, schedules[n].next, tx[s].started)

LEMMA MaterializedInv ==
  ASSUME SchedulesInv, NEW s \in Sessions, tx[s].stage = "materialize", NEW n \in tx[s].claimed,
         NEW row \in Rows, NEW slots, Materialized(s, n, row, slots), Moves(s, n, row, slots),
         UNCHANGED <<now, schedules, definitions, fired>>
  PROVE  SchedulesInv'
<1>1. PICK stage : stage = IF tx[s].claimed = {n} THEN "commit" ELSE tx[s].stage
  OBVIOUS
<1>2. tx' = [tx EXCEPT ![s].wrote = Put(@, n, row), ![s].slots = @ \cup slots, ![s].claimed = @ \ {n},
                       ![s].stage = stage]
  <2>1. tx' = [tx EXCEPT ![s].wrote = Put(@, n, row), ![s].slots = @ \cup slots, ![s].claimed = @ \ {n},
                         ![s].stage = IF tx[s].claimed = {n} THEN "commit" ELSE @]
    BY DEF Materialized
  <2> QED BY <1>1, <2>1
<1>3. SessionTyped(tx[s]) /\ SessionShape(tx[s]) /\ SessionStory(s) /\ DOMAIN tx = Sessions
  BY DEF SchedulesInv, SessionsTyped, SessionTyped
<1>4. /\ tx'[s] = [tx[s] EXCEPT !.wrote = Put(@, n, row), !.slots = @ \cup slots, !.claimed = @ \ {n},
                                !.stage = stage]
      /\ DOMAIN tx' = Sessions /\ \A r \in Sessions \ {s} : tx'[r] = tx[r]
  BY <1>2, <1>3, Zenon
<1>5. /\ SessionShape(tx'[s]) /\ tx'[s].wrote = Put(tx[s].wrote, n, row)
      /\ tx'[s].held = tx[s].held /\ tx'[s].todo = tx[s].todo
      /\ tx'[s].op = tx[s].op /\ tx'[s].claimed = tx[s].claimed \ {n} /\ tx'[s].started = tx[s].started
      /\ tx'[s].defined = tx[s].defined /\ tx'[s].slots = tx[s].slots \cup slots /\ tx'[s].stage = stage
  BY <1>3, <1>4 DEF SessionShape
<1>6. Statement(s)
  BY <1>4 DEF Statement
<1>7. tx[s].op # None /\ tx[s].op.kind = "scheduler" /\ stage \in {"commit", "materialize"}
  BY <1>1, <1>3 DEF SessionStory, KindStory, Idle
<1>8. /\ n \in Names /\ n \notin DOMAIN tx[s].wrote /\ schedules[n] # None
  BY <1>3 DEF SessionTyped, SessionStory, ClaimedDue
<1>9. /\ DOMAIN tx'[s].wrote = DOMAIN tx[s].wrote \cup {n} /\ tx'[s].wrote[n] = row
      /\ \A m \in DOMAIN tx[s].wrote : m # n /\ tx'[s].wrote[m] = tx[s].wrote[m]
  BY <1>5, <1>8 DEF Put
<1>10. SessionTyped(tx'[s])
  BY <1>3, <1>5, <1>7, <1>8, <1>9 DEF SessionTyped
<1>11. \A r \in Sessions \ {s} : \A h \in tx'[s].held, l \in tx[r].held : ~Conflicts(h, l)
  BY <1>5 DEF SchedulesInv, LocksApart
<1>12. \A m : (Owns(s, m) => Owns(s, m)') /\ (OwnsType(s, m) => OwnsType(s, m)')
  BY <1>5, MoreLocks
<1>13. WritesOwned(s)'
  BY <1>3, <1>5, <1>9, <1>12 DEF SessionStory, WritesOwned
<1>14. KindStory(s)' /\ LockStory(s)' /\ SyncStory(s)'
  BY <1>3, <1>5, <1>7 DEF SessionStory, KindStory, LockStory, SyncStory
<1>15. RowsWritable(s)' /\ ClaimedDue(s)'
  BY <1>3, <1>5, <1>8, <1>9 DEF SessionStory, RowsWritable, RowWritable, ClaimedDue, Moves
<1>16. SlotsSound(s)'
  <2> SUFFICES ASSUME NEW slot \in tx'[s].slots PROVE \E m \in DOMAIN tx'[s].wrote : SlotOf(s, m, slot)'
    BY DEF SlotsSound
  <2>1. CASE slot \in tx[s].slots
    <3>1. PICK m \in DOMAIN tx[s].wrote : SlotOf(s, m, slot)
      BY <1>3, <2>1 DEF SessionStory, SlotsSound
    <3>2. SlotOf(s, m, slot)'
      BY <1>5, <1>9, <3>1 DEF SlotOf
    <3> QED BY <1>9, <3>2
  <2>2. CASE slot \in slots
    <3>1. SlotOf(s, n, slot)'
      BY <1>5, <1>8, <1>9, <2>2 DEF SlotOf, Moves
    <3> QED BY <1>9, <3>1
  <2> QED BY <1>5, <2>1, <2>2
<1>17. DefinedSound(s)'
  BY <1>3, <1>5, <1>7 DEF SessionStory, KindStory, DefinedSound
<1> QED BY <1>6, <1>10, <1>11, <1>13, <1>14, <1>15, <1>16, <1>17, StatementKeeps DEF SessionStory

LEMMA SetNext ==
  ASSUME NEW row \in Rows, NEW x \in Nat
  PROVE  \E y \in Rows : /\ y = [row EXCEPT !.next = x] /\ y.type = row.type /\ y.next = x
                         /\ y.gen = row.gen /\ y.cron = row.cron /\ y.active = row.active
<1>1. PICK y : y = [row EXCEPT !.next = x]
  OBVIOUS
<1>2. /\ row.type \in Types /\ row.active \in BOOLEAN /\ row.cron \in Crons /\ row.gen \in Nat
      /\ row = [type |-> row.type, active |-> row.active, cron |-> row.cron,
                next |-> row.next, gen |-> row.gen]
  BY RowFields
<1>3. y = [type |-> row.type, active |-> row.active, cron |-> row.cron, next |-> x, gen |-> row.gen]
  BY <1>1, <1>2
<1>4. y \in Rows
  BY <1>2, <1>3, Zenon DEF Rows
<1> QED BY <1>1, <1>3, <1>4

(* A claimed row, and what a later cursor makes of it.                     *)
LEMMA ClaimedRow ==
  ASSUME SchedulesInv, NEW s \in Sessions, NEW n \in tx[s].claimed
  PROVE  /\ n \in Names /\ Schedule(s, n) = schedules[n] /\ schedules[n] \in Rows
         /\ schedules[n].next <= tx[s].started /\ tx[s].started \in Nat
         /\ \A y \in Rows : y.type = schedules[n].type /\ y.gen = schedules[n].gen
                            /\ y.next > tx[s].started => RowWritable(n, y)
<1>1. SessionTyped(tx[s]) /\ ClaimedDue(s)
  BY DEF SchedulesInv, SessionsTyped, SessionStory
<1>2. n \in Names /\ tx[s].started \in Nat /\ schedules[n] # None /\ n \notin DOMAIN tx[s].wrote
      /\ schedules[n].active /\ schedules[n].next <= tx[s].started
  BY <1>1 DEF SessionTyped, ClaimedDue
<1>3. Schedule(s, n) = schedules[n] /\ schedules[n] \in Rows
  BY <1>2 DEF Schedule, SchedulesInv, TablesTyped
<1>4. definitions[schedules[n].type] = TRUE /\ definitions[schedules[n].type] # None
  BY <1>2 DEF SchedulesInv, ActiveSchedulesHaveEnabledDefinitions, TablesTyped
<1>5. ASSUME NEW y \in Rows, y.type = schedules[n].type, y.gen = schedules[n].gen, y.next > tx[s].started
      PROVE  RowWritable(n, y)
  <2>1. Follows(schedules[n], y)
    BY <1>2, <1>3, <1>5, RowFields DEF Follows
  <2> QED BY <1>4, <1>5, <2>1 DEF RowWritable
<1> QED BY <1>2, <1>3, <1>5

LEMMA MaterializeInv ==
  ASSUME SchedulesInv, NEW s \in Sessions, NEW n \in Names, Materialize(s, n)
  PROVE  SchedulesInv'
<1>1. PICK row, next : row = Schedule(s, n) /\ next = NextFire(row.cron, row.next, tx[s].started)
  OBVIOUS
<1>2. /\ tx[s].stage = "materialize" /\ n \in tx[s].claimed /\ next # None
      /\ UNCHANGED <<now, schedules, definitions, fired>>
  BY <1>1 DEF Materialize
<1>3. Materialized(s, n, [row EXCEPT !.next = next], {<<n, row.gen, row.next>>})
  BY <1>1, Zenon DEF Materialize
<1>4. /\ row = schedules[n] /\ row \in Rows /\ row.next <= tx[s].started /\ tx[s].started \in Nat
      /\ \A y \in Rows : y.type = row.type /\ y.gen = row.gen /\ y.next > tx[s].started => RowWritable(n, y)
  BY <1>1, <1>2, ClaimedRow
<1>5. row.cron \in Crons /\ row.next \in Nat
  BY <1>4, RowFields
<1>6. next \in Nat /\ next > tx[s].started
  BY <1>1, <1>2, <1>4, <1>5, NextFireIsLater
<1>7. PICK y \in Rows : /\ y = [row EXCEPT !.next = next] /\ y.type = row.type /\ y.next = next
                        /\ y.gen = row.gen /\ y.cron = row.cron
  BY <1>4, <1>6, SetNext
<1>8. PICK slots : slots = {<<n, row.gen, row.next>>}
  OBVIOUS
<1>9. Moves(s, n, y, slots)
  <2>1. RowWritable(n, y)
    BY <1>4, <1>6, <1>7
  <2>2. y.gen = schedules[n].gen /\ y.next > schedules[n].next
    BY <1>4, <1>5, <1>6, <1>7
  <2>3. y.next = NextFire(y.cron, schedules[n].next, tx[s].started)
    BY <1>1, <1>4, <1>7
  <2> QED BY <1>4, <1>8, <2>1, <2>2, <2>3 DEF Moves
<1>10. Materialized(s, n, y, slots)
  BY <1>3, <1>7, <1>8
<1> QED BY <1>2, <1>9, <1>10, MaterializedInv

LEMMA DeferFailedInv ==
  ASSUME SchedulesInv, NEW s \in Sessions, NEW n \in Names, DeferFailed(s, n)
  PROVE  SchedulesInv'
<1>1. PICK row, next : row = Schedule(s, n) /\ next = tx[s].started + RetryDelay
  OBVIOUS
<1>2. /\ tx[s].stage = "materialize" /\ n \in tx[s].claimed
      /\ UNCHANGED <<now, schedules, definitions, fired>>
  BY DEF DeferFailed
<1>3. Materialized(s, n, [row EXCEPT !.next = next], {})
  BY <1>1, Zenon DEF DeferFailed
<1>4. /\ row = schedules[n] /\ row \in Rows /\ tx[s].started \in Nat
      /\ \A y \in Rows : y.type = row.type /\ y.gen = row.gen /\ y.next > tx[s].started => RowWritable(n, y)
  BY <1>1, <1>2, ClaimedRow
<1>5. next \in Nat /\ next > tx[s].started
  BY <1>1, <1>4, SchedulesAssumption
<1>6. PICK y \in Rows : /\ y = [row EXCEPT !.next = next] /\ y.type = row.type /\ y.next = next
                        /\ y.gen = row.gen /\ y.cron = row.cron
  BY <1>4, <1>5, SetNext
<1>7. Moves(s, n, y, {})
  BY <1>4, <1>5, <1>6 DEF Moves
<1>8. Materialized(s, n, y, {})
  BY <1>3, <1>6
<1> QED BY <1>2, <1>7, <1>8, MaterializedInv

-----------------------------------------------------------------------------
(* The sessions' invariant.                                                *)

LEMMA SchedulesInit ==
  ASSUME Init PROVE SchedulesInv
<1>1. \A s \in Sessions : tx[s] = Idle
  BY DEF Init
<1>2. ASSUME NEW s \in Sessions
      PROVE  SessionTyped(tx[s]) /\ SessionStory(s) /\ tx[s].held = {}
  <2>1. /\ tx[s].op = None /\ tx[s].todo = <<>> /\ tx[s].claimed = {} /\ tx[s].started = 0
        /\ tx[s].stage = "work" /\ tx[s].slots = {} /\ tx[s].held = {}
        /\ DOMAIN tx[s].wrote = {} /\ DOMAIN tx[s].defined = {} /\ SessionShape(tx[s])
    BY <1>1 DEF Idle, SessionShape
  <2>2. SessionTyped(tx[s])
    BY <2>1 DEF SessionTyped
  <2>3. WritesOwned(s) /\ LockStory(s) /\ RowsWritable(s) /\ ClaimedDue(s) /\ SlotsSound(s) /\ DefinedSound(s)
    BY <2>1 DEF WritesOwned, LockStory, RowsWritable, ClaimedDue, SlotsSound, DefinedSound
  <2>4. KindStory(s) /\ SyncStory(s)
    BY <1>1, <2>1 DEF KindStory, SyncStory
  <2> QED BY <2>1, <2>2, <2>3, <2>4 DEF SessionStory
<1>3. TablesTyped /\ ActiveSchedulesHaveEnabledDefinitions /\ FiredBehind
  <2>1. now \in 1..MaxTime
    BY SchedulesAssumption DEF Init
  <2> QED BY <2>1 DEF Init, TablesTyped, ActiveSchedulesHaveEnabledDefinitions, FiredBehind
<1>4. SessionsTyped /\ LocksApart
  BY <1>2 DEF Init, SessionsTyped, LocksApart
<1> QED BY <1>2, <1>3, <1>4 DEF SchedulesInv

LEMMA TickInv ==
  ASSUME SchedulesInv, Tick PROVE SchedulesInv'
<1>0. now' \in 1..MaxTime
  BY SchedulesAssumption DEF SchedulesInv, TablesTyped, Tick
<1>1. TablesTyped' /\ ActiveSchedulesHaveEnabledDefinitions' /\ FiredBehind' /\ SessionsTyped' /\ LocksApart'
  BY ZenonT(30), <1>0 DEF SchedulesInv, Tick, TablesTyped, ActiveSchedulesHaveEnabledDefinitions,
     FiredBehind, SessionsTyped, LocksApart
<1>2. ASSUME NEW s \in Sessions PROVE SessionStory(s)'
  <2>1. SessionRely(s)
    BY DEF Tick, SessionRely
  <2> QED BY <2>1, StoryKept
<1> QED BY <1>1, <1>2 DEF SchedulesInv

LEMMA SchedulesStep ==
  ASSUME SchedulesInv, [Next]_vars PROVE SchedulesInv'
<1>1. CASE UNCHANGED vars
  <2>1. UNCHANGED <<now, schedules, definitions, fired, tx>>
    BY <1>1 DEF vars
  <2>2. TablesTyped' /\ ActiveSchedulesHaveEnabledDefinitions' /\ FiredBehind' /\ SessionsTyped' /\ LocksApart'
    BY ZenonT(30), <2>1 DEF SchedulesInv, TablesTyped, ActiveSchedulesHaveEnabledDefinitions,
       FiredBehind, SessionsTyped, LocksApart
  <2>3. ASSUME NEW s \in Sessions PROVE SessionStory(s)'
    <3>1. SessionRely(s)
      BY <2>1 DEF SessionRely
    <3> QED BY <3>1, StoryKept
  <2> QED BY <2>2, <2>3 DEF SchedulesInv
<1>2. CASE Tick
  BY <1>2, TickInv
<1>3. ASSUME NEW s \in Sessions, AdminStep(s) PROVE SchedulesInv'
  <2>1. CASE \E op \in Operations : BeginSession(s, op)
    BY <2>1, BeginSessionInv
  <2>2. CASE EntryLocks(s) \/ ActivateLocks(s) \/ DefinitionLocks(s)
    <3>1. Work(s, {"plain", "sync", "activate", "definitions"}) /\ (LockSchedules(s) \/ LockDefinitions(s))
      BY <2>2 DEF EntryLocks, ActivateLocks, DefinitionLocks, Work
    <3> QED BY <3>1, GuardLockInv
  <2>3. CASE PersistEntry(s)
    BY <2>3, PersistEntryInv
  <2>4. CASE RejectEntry(s)
    BY <2>4, RollbackSessionInv DEF RejectEntry
  <2>5. CASE FinishEntries(s)
    BY <2>5, FinishEntriesInv
  <2>6. CASE Activate(s)
    BY <2>6, ActivateInv
  <2>7. CASE WriteSchedule(s)
    BY <2>7, WriteScheduleInv
  <2>8. CASE WriteDefinitions(s)
    BY <2>8, WriteDefinitionsInv
  <2> QED BY <1>3, <2>1, <2>2, <2>3, <2>4, <2>5, <2>6, <2>7, <2>8 DEF AdminStep
<1>4. ASSUME NEW s \in Sessions, SchedulerStep(s) PROVE SchedulesInv'
  BY <1>4, ClaimLockInv, ClaimDueInv, MaterializeInv, DeferFailedInv DEF SchedulerStep
<1>5. ASSUME NEW s \in Sessions, CommitSession(s) \/ RollbackSession(s) PROVE SchedulesInv'
  BY <1>5, CommitSessionInv, RollbackSessionInv
<1> QED BY <1>1, <1>2, <1>3, <1>4, <1>5 DEF Next

(* The inductive invariant of the sessions: what each has written is what  *)
(* its locks keep from the others, and may be committed whatever they do.  *)
THEOREM SchedulesInvariant == Spec => []SchedulesInv
<1>1. Init => SchedulesInv
  BY SchedulesInit
<1>2. SchedulesInv /\ [Next]_vars => SchedulesInv'
  BY SchedulesStep
<1> QED BY <1>1, <1>2, PTL DEF Spec

-----------------------------------------------------------------------------
(* What follows from it.                                                   *)

LEMMA SlotsApart ==
  ASSUME SchedulesInv PROVE NoSlotFiresTwice
<1>1. ASSUME NEW s \in Sessions, NEW slot \in tx[s].slots
      PROVE  \E n \in Names : /\ Owns(s, n) /\ schedules[n] \in Rows /\ slot[1] = n
                              /\ slot[2] = schedules[n].gen /\ slot[3] = schedules[n].next
  <2>1. PICK n \in DOMAIN tx[s].wrote : SlotOf(s, n, slot)
    BY DEF SchedulesInv, SessionStory, SlotsSound
  <2>2. n \in Names /\ Owns(s, n)
    BY DEF SchedulesInv, SessionsTyped, SessionTyped, SessionStory, WritesOwned
  <2>3. slot = <<n, schedules[n].gen, schedules[n].next>> /\ schedules[n] # None
    BY <2>1 DEF SlotOf
  <2>4. schedules[n] \in Rows
    BY <2>2, <2>3 DEF SchedulesInv, TablesTyped
  <2> QED BY <2>2, <2>3, <2>4
<1>2. ASSUME NEW s \in Sessions, NEW slot \in tx[s].slots, slot \in fired PROVE FALSE
  <2>1. PICK n \in Names : /\ schedules[n] \in Rows /\ slot[1] = n
                           /\ slot[2] = schedules[n].gen /\ slot[3] = schedules[n].next
    BY <1>1
  <2>2. PICK m \in Names :
    /\ slot = <<m, slot[2], slot[3]>> /\ slot[2] \in Nat /\ slot[3] \in Nat
    /\ schedules[m].gen > slot[2] \/ (schedules[m].gen = slot[2] /\ schedules[m].next > slot[3])
    BY <1>2 DEF SchedulesInv, FiredBehind
  <2>3. slot[1] = m
    BY <2>2
  <2> QED BY <2>1, <2>2, <2>3
<1>3. ASSUME NEW s \in Sessions, NEW r \in Sessions, s # r, NEW slot \in tx[s].slots, slot \in tx[r].slots
      PROVE  FALSE
  <2>1. PICK n \in Names : Owns(s, n) /\ slot[1] = n
    BY <1>1
  <2>2. PICK m \in Names : Owns(r, m) /\ slot[1] = m
    BY <1>1, <1>3
  <2> QED BY <1>3, <2>1, <2>2, OwnersDiffer DEF SchedulesInv
<1> QED BY <1>2, <1>3 DEF NoSlotFiresTwice

LEMMA PassCoalesces ==
  ASSUME SchedulesInv PROVE PassesCoalesce
<1> SUFFICES ASSUME NEW s \in Sessions, NEW slot \in tx[s].slots
             PROVE  /\ tx[s].wrote[slot[1]].next > tx[s].started
                    /\ NextJittered(tx[s].wrote[slot[1]].cron, slot[3]) <= tx[s].started =>
                         tx[s].wrote[slot[1]].next
                           = Min({f \in {Fire(b) : b \in Bases[tx[s].wrote[slot[1]].cron]} : f > tx[s].started})
  BY DEF PassesCoalesce
<1>1. PICK n \in DOMAIN tx[s].wrote : SlotOf(s, n, slot)
  BY DEF SchedulesInv, SessionStory, SlotsSound
<1>2. SessionTyped(tx[s]) /\ n \in Names /\ tx[s].wrote[n] \in Rows /\ tx[s].started \in Nat
  BY DEF SchedulesInv, SessionsTyped, SessionTyped
<1>3. schedules[n] \in Rows
  BY <1>1, <1>2 DEF SchedulesInv, TablesTyped, SlotOf
<1>4. slot = <<n, schedules[n].gen, schedules[n].next>>
  BY <1>1 DEF SlotOf
<1>5. slot[1] = n /\ slot[3] = schedules[n].next
  BY <1>4
<1>6. PICK c \in Crons, x \in Nat, t \in Nat, y \in Nat :
        c = tx[s].wrote[n].cron /\ x = schedules[n].next /\ t = tx[s].started /\ y = tx[s].wrote[n].next
  BY <1>2, <1>3, RowFields
<1>7. y = NextFire(c, x, t) /\ y # None
  BY <1>1, <1>6, OperationsAssumption DEF SlotOf
<1>8. y > t /\ (NextJittered(c, x) <= t => y = Min(Coming(c, t)))
  BY <1>7, NextFireIsLater
<1> QED BY <1>5, <1>6, <1>8 DEF Coming

(* Of two sessions that hold locks and wait, none has the table's guard.   *)
LEMMA CirclesAreSyncs ==
  ASSUME SchedulesInv PROVE OnlyAdditiveSyncsDeadlock
<1>1. ASSUME NEW s \in Sessions, HoldsUp(s)
      PROVE  TableLock(s, "schedules") \/ (Enters(s) /\ WritesUnguarded(s))
  <2>1. LockStory(s) /\ SessionTyped(tx[s]) /\ KindStory(s)
    BY DEF SchedulesInv, SessionStory, SessionsTyped
  <2>2. tx[s].held # {}
    BY <1>1 DEF HoldsUp, SessionWaitsFor, Blockers
  <2>3. Wanted(s) # {}
    BY <1>1 DEF HoldsUp, SessionWaitsFor, Blockers
  <2>4. tx[s].op # None /\ tx[s].stage = "work"
        /\ tx[s].op.kind \in {"plain", "sync", "activate", "deactivate", "cursor", "definitions"}
    BY <2>2, <2>3 DEF Wanted, SchedulesWanted, DefinitionsWanted, Work
  <2>5. tx[s].op.kind \in {"plain", "activate", "definitions"} => TableLock(s, "schedules")
    BY <2>1, <2>2, <2>4 DEF LockStory
  <2>6. tx[s].op.kind = "sync" => TableLock(s, "schedules") \/ (Enters(s) /\ WritesUnguarded(s))
    BY <2>1, <2>2, <2>4 DEF LockStory, Enters, WritesUnguarded, Work
  <2> QED BY <2>1, <2>2, <2>4, <2>5, <2>6 DEF LockStory
<1> SUFFICES ASSUME NEW s \in Sessions, NEW r \in Sessions, s # r, HoldsUp(s), HoldsUp(r)
             PROVE  WritesUnguarded(s) /\ WritesUnguarded(r)
  BY DEF OnlyAdditiveSyncsDeadlock
<1>2. /\ ~(TableLock(s, "schedules") /\ Enters(r))
      /\ ~(TableLock(r, "schedules") /\ Enters(s))
  BY OwnersDiffer DEF SchedulesInv
<1> QED BY <1>1, <1>2 DEF Enters

LEMMA SyncApplied ==
  ASSUME SchedulesInv, NEW s \in Sessions, CommitSession(s), tx[s].op.kind = "sync"
  PROVE  /\ \A i \in 1..Len(tx[s].op.entries) :
              schedules'[tx[s].op.entries[i].name].active = tx[s].op.entries[i].active
         /\ tx[s].op.exact => \A n \in tx[s].op.scope \ EntryNames(tx[s].op) :
              schedules'[n] # None => ~schedules'[n].active
<1>1. SessionTyped(tx[s]) /\ KindStory(s) /\ SyncStory(s) /\ tx[s].stage = "commit"
  BY DEF SchedulesInv, SessionsTyped, SessionStory, CommitSession
<1>2. tx[s].op # None /\ OperationOK(tx[s].op)
  BY <1>1, OperationsAssumption DEF KindStory, Idle, SessionTyped
<1>3. /\ SyncProgress(tx[s].op, tx[s].todo, tx[s].wrote) /\ tx[s].todo = <<>>
      /\ tx[s].op.exact => AbsentInactive(s)
  BY <1>1, <1>2 DEF SyncStory
<1>4. Len(tx[s].op.entries) \in Nat /\ Len(tx[s].todo) = 0
  BY <1>2, <1>3 DEF OperationOK
<1>5. \A i \in 1..Len(tx[s].op.entries) :
        /\ tx[s].op.entries[i].name \in DOMAIN tx[s].wrote
        /\ tx[s].wrote[tx[s].op.entries[i].name].active = tx[s].op.entries[i].active
  BY <1>3, <1>4 DEF SyncProgress
<1>6. DOMAIN tx[s].wrote \subseteq Names /\ tx[s].op.scope \subseteq Names
  BY <1>1, <1>2 DEF SessionTyped, OperationOK
<1>7. \A n \in Names : schedules'[n] = Schedule(s, n)
  BY DEF CommitSession
<1> QED BY <1>3, <1>5, <1>6, <1>7 DEF AbsentInactive, Schedule

(* Active schedules keep an enabled definition, no slot is fired twice,    *)
(* passes leave nothing due and skip nothing, syncs that commit have been  *)
(* applied, and only additive syncs deadlock: for any number of sessions,  *)
(* names, types, cron expressions and jitters.                             *)
THEOREM SchedulesCorrect == Spec => SchedulesAreSound
<1>1. SchedulesInv => TypeOK
  BY DEF SchedulesInv, TablesTyped, SessionsTyped, SessionTyped, TypeOK, Rows
<1>2. SchedulesInv => ActiveSchedulesHaveEnabledDefinitions /\ NoSlotFiresTwice /\ PassesCoalesce
  BY SlotsApart, PassCoalesces DEF SchedulesInv
<1>3. SchedulesInv => OnlyAdditiveSyncsDeadlock
  BY CirclesAreSyncs
<1>4. SchedulesInv /\ [Next]_vars =>
        [\A s \in Sessions : CommitSession(s) /\ tx[s].op.kind = "sync" =>
           LET op == tx[s].op IN
           /\ \A i \in 1..Len(op.entries) : schedules'[op.entries[i].name].active = op.entries[i].active
           /\ op.exact => \A n \in op.scope \ EntryNames(op) : schedules'[n] # None => ~schedules'[n].active]_vars
  BY SyncApplied
<1> QED BY <1>1, <1>2, <1>3, <1>4, SchedulesInvariant, PTL DEF Spec, SchedulesAreSound, SyncIsApplied

=============================================================================
