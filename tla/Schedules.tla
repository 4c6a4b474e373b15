----------------------------- MODULE Schedules -----------------------------
(***************************************************************************)
(* Job schedules, job definitions and the guard that ties the two tables:  *)
(* the administrative writes, the catalog's synchronisations and the       *)
(* scheduler's passes as transactions of several statements, with the      *)
(* table locks and row locks they take, READ COMMITTED visibility, and a   *)
(* commit or a rollback at any point.                                      *)
(*                                                                         *)
(* A schedule's cron expression is the set of times at which it is due;    *)
(* jitter moves each of them by a fixed amount.                            *)
(***************************************************************************)
EXTENDS Naturals, Sequences, FiniteSets, FiniteSetsExt

CONSTANTS
  Sessions,       \* transactions in flight
  Names,          \* schedule names
  Types,          \* job types
  Crons,          \* cron expressions
  Bases,          \* Bases[c]: the times at which expression c is due
  Jitter,         \* Jitter[t]: seconds added to base t
  MaxJitter,      \* max_jitter_seconds
  RetryDelay,     \* FAILED_SCHEDULE_RETRY_DELAY_SECONDS
  Operations,     \* what a session may be asked to do
  MaxTime,        \* bound: the clock
  MaxCursorWrites, \* bound: cursor writes by an operator
  None            \* no row, no time, no operation

ASSUME SchedulesAssumption ==
  /\ MaxJitter \in Nat /\ RetryDelay \in Nat \ {0}
  /\ MaxTime \in Nat \ {0} /\ MaxCursorWrites \in Nat
  /\ \A c \in Crons : Bases[c] \subseteq (Nat \ {0}) \cap DOMAIN Jitter
  /\ \A t \in DOMAIN Jitter : Jitter[t] \in 0..MaxJitter

(* gen counts the operator's own writes of the cursor.                     *)
Rows == [type : Types, active : BOOLEAN, cron : Crons, next : Nat, gen : Nat]

(* What the callers of the writes are asked for: JobScheduleUpsert,        *)
(* CatalogJobScheduleSpec.                                                 *)
Entries == [name : Names, type : Types, active : BOOLEAN, cron : Crons, next : Nat]

(* A sync refuses a name that it is given twice                            *)
(* (DuplicateScheduleNameInSyncBatch).                                     *)
OperationOK(op) ==
  /\ op.kind \in {"plain", "sync", "activate", "deactivate", "cursor", "definitions", "scheduler"}
  /\ op.kind \in {"plain", "sync"} => op.entries \in Seq(Entries)
  /\ op.kind = "sync" =>
       /\ op.exact \in BOOLEAN /\ op.scope \subseteq Names
       /\ \A i, j \in DOMAIN op.entries : op.entries[i].name = op.entries[j].name => i = j
  /\ op.kind \in {"activate", "deactivate", "cursor"} => op.name \in Names
  /\ op.kind = "cursor" => op.next \in Nat
  /\ op.kind = "definitions" =>
       /\ DOMAIN op.enabled \subseteq Types /\ op.scope \subseteq Types /\ op.preserve \in BOOLEAN
       /\ \A t \in DOMAIN op.enabled : op.enabled[t] \in BOOLEAN

ASSUME OperationsAssumption ==
  /\ \A op \in Operations : OperationOK(op)
  /\ None \notin Operations /\ None \notin Rows /\ None \notin Nat /\ None \notin BOOLEAN

VARIABLES
  now,            \* the clock
  schedules,      \* job_schedules: name -> row or None
  definitions,    \* job_definitions: type -> is_enabled or None
  fired,          \* the slots for which a job was enqueued
  tx              \* per session: operation, progress, own writes, locks

vars == <<now, schedules, definitions, fired, tx>>

Row(type, active, cron, next, gen) ==
  [type |-> type, active |-> active, cron |-> cron, next |-> next, gen |-> gen]

Idle == [op |-> None, todo |-> <<>>, claimed |-> {}, started |-> 0, stage |-> "work",
         wrote |-> <<>>, defined |-> <<>>, slots |-> {}, held |-> {}]

Init ==
  /\ now = 1
  /\ schedules = [n \in Names |-> None]
  /\ definitions \in [Types -> {None, TRUE, FALSE}]
  /\ fired = {}
  /\ tx = [s \in Sessions |-> Idle]

-----------------------------------------------------------------------------
(* Visibility and locks.                                                   *)

Schedule(s, n) == IF n \in DOMAIN tx[s].wrote THEN tx[s].wrote[n] ELSE schedules[n]
Definition(s, t) == IF t \in DOMAIN tx[s].defined THEN tx[s].defined[t] ELSE definitions[t]

LockOn(obj, mode) == [obj |-> obj, mode |-> mode]

(* ROW EXCLUSIVE against SHARE ROW EXCLUSIVE, and rows against rows.       *)
Conflicts(a, b) ==
  /\ a.obj = b.obj
  /\ ~(a.mode = "RowExclusive" /\ b.mode = "RowExclusive")

Blockers(s, locks) ==
  {r \in Sessions \ {s} : \E h \in tx[r].held, l \in locks : Conflicts(h, l)}

TableLock(s, table) == LockOn(table, "ShareRowExclusive") \in tx[s].held

RowWrite(table, rows) ==
  {LockOn(table, "RowExclusive")} \cup {LockOn(r, "Row") : r \in rows}

Acquire(s, locks) == Blockers(s, locks) = {}

Put(f, x, y) == [z \in DOMAIN f \cup {x} |-> IF z = x THEN y ELSE f[z]]

-----------------------------------------------------------------------------
(* Next fire time.                                                         *)

Fire(t) == t + Jitter[t]
After(c, t) == {b \in Bases[c] : b > t}

(* next_jittered_fire_after_utc.                                           *)
NextJittered(c, t) == IF After(c, t) = {} THEN None ELSE Fire(Min(After(c, t)))

(* compute_coalesced_next_fire_after_now_utc: bases that jitter may still  *)
(* carry past the current time are searched too.                           *)
Coalesced(c, t) ==
  LET from == IF t > MaxJitter + 1 THEN t - (MaxJitter + 1) ELSE 0
      late == {f \in {Fire(b) : b \in After(c, from)} : f > t}
  IN IF MaxJitter = 0 \/ late = {} THEN NextJittered(c, t) ELSE Min(late)

(* compute_next_fire_at_with_stale_coalescing_utc.                         *)
NextFire(c, slot, t) ==
  LET next == NextJittered(c, slot) IN
  IF next # None /\ next <= t THEN Coalesced(c, t) ELSE next

-----------------------------------------------------------------------------
(* Transactions.                                                           *)

BeginSession(s, op) ==
  /\ tx[s] = Idle
  /\ tx' = [tx EXCEPT ![s] = [Idle EXCEPT !.op = op, !.started = now,
                                          !.todo = IF op.kind \in {"plain", "sync"} THEN op.entries ELSE <<>>]]
  /\ UNCHANGED <<now, schedules, definitions, fired>>

CommitSession(s) ==
  /\ tx[s].stage = "commit"
  /\ schedules' = [n \in Names |-> Schedule(s, n)]
  /\ definitions' = [t \in Types |-> Definition(s, t)]
  /\ fired' = fired \cup tx[s].slots
  /\ tx' = [tx EXCEPT ![s] = Idle]
  /\ UNCHANGED now

(* An error, a lock timeout, a lost connection or a crash.                 *)
RollbackSession(s) ==
  /\ tx[s].op # None
  /\ tx' = [tx EXCEPT ![s] = Idle]
  /\ UNCHANGED <<now, schedules, definitions, fired>>

Take(s, locks) ==
  /\ Acquire(s, locks)
  /\ tx' = [tx EXCEPT ![s].held = @ \cup locks]
  /\ UNCHANGED <<now, schedules, definitions, fired>>

Work(s, kinds) == tx[s].op # None /\ tx[s].op.kind \in kinds /\ tx[s].stage = "work"

(* lock_job_schedules_for_guard_tx, lock_job_definitions_for_guard_tx.     *)
LockSchedules(s) == ~TableLock(s, "schedules") /\ Take(s, {LockOn("schedules", "ShareRowExclusive")})
LockDefinitions(s) ==
  /\ TableLock(s, "schedules") /\ ~TableLock(s, "definitions")
  /\ Take(s, {LockOn("definitions", "ShareRowExclusive")})

-----------------------------------------------------------------------------
(* upsert_job_schedule and the catalog's schedule synchronisation.         *)

Entry(s) == Head(tx[s].todo)

(* schedule_active_after_plain_upsert_tx; a sync applies what it is given. *)
ActiveAfter(s) ==
  LET e == Entry(s) IN
  IF tx[s].op.kind = "plain" /\ Schedule(s, e.name) # None
  THEN Schedule(s, e.name).active ELSE e.active

GuardsSchedules(s) ==
  \/ tx[s].op.kind = "plain"
  \/ tx[s].todo # <<>> /\ ActiveAfter(s)
  \/ tx[s].op.kind = "sync" /\ tx[s].op.exact

(* The definition is enabled, or the schedule is not active.               *)
Admissible(s) == ActiveAfter(s) => Definition(s, Entry(s).type) = TRUE

EntryLocks(s) ==
  /\ Work(s, {"plain", "sync"})
  /\ \/ GuardsSchedules(s) /\ LockSchedules(s)
     \/ tx[s].todo # <<>> /\ ActiveAfter(s) /\ LockDefinitions(s)

EntryGuarded(s) ==
  /\ GuardsSchedules(s) => TableLock(s, "schedules")
  /\ ActiveAfter(s) => TableLock(s, "definitions")

(* persist_job_schedule_tx on a row that exists.                           *)
Persisted(s, old, e) ==
  Row(e.type, IF tx[s].op.kind = "plain" THEN old.active ELSE e.active, e.cron,
      IF e.cron = old.cron THEN old.next ELSE e.next,
      IF e.cron = old.cron THEN old.gen ELSE old.gen + 1)

PersistEntry(s) ==
  /\ Work(s, {"plain", "sync"}) /\ tx[s].todo # <<>>
  /\ EntryGuarded(s) /\ Admissible(s)
  /\ LET e == Entry(s)
         old == Schedule(s, e.name)
         row == IF old = None THEN Row(e.type, e.active, e.cron, e.next, 0) ELSE Persisted(s, old, e)
         locks == RowWrite("schedules", {e.name})
     IN /\ Definition(s, e.type) # None
        /\ row.gen <= MaxCursorWrites
        /\ Acquire(s, locks)
        /\ tx' = [tx EXCEPT ![s].wrote = Put(@, e.name, row), ![s].held = @ \cup locks,
                            ![s].todo = Tail(@)]
  /\ UNCHANGED <<now, schedules, definitions, fired>>

(* An inactive row without a definition fails its foreign key.             *)
RejectEntry(s) ==
  /\ Work(s, {"plain", "sync"}) /\ tx[s].todo # <<>> /\ EntryGuarded(s)
  /\ ~Admissible(s) \/ Definition(s, Entry(s).type) = None
  /\ RollbackSession(s)

EntryNames(op) == {op.entries[i].name : i \in 1..Len(op.entries)}

(* Mutant: only the schedules of the synchronised types are looked at.     *)
AbsentOfEntryTypes(s, op) ==
  {n \in op.scope \ EntryNames(op) :
     /\ Schedule(s, n) # None /\ Schedule(s, n).active
     /\ \E i \in 1..Len(op.entries) : op.entries[i].type = Schedule(s, n).type}

(* deactivate_schedules_absent_from_names_tx, for an exact sync.           *)
AbsentSchedules(s, op) ==
  {n \in op.scope \ EntryNames(op) : Schedule(s, n) # None /\ Schedule(s, n).active}

Deactivated(s, op) == IF op.kind = "sync" /\ op.exact THEN AbsentSchedules(s, op) ELSE {}

(* The rows of the entry or the deactivation that comes next.              *)
EntryRows(s) ==
  LET rows == IF tx[s].todo # <<>> THEN {Entry(s).name} ELSE Deactivated(s, tx[s].op)
  IN  IF rows = {} THEN {} ELSE RowWrite("schedules", rows)

FinishEntries(s) ==
  /\ Work(s, {"plain", "sync"}) /\ tx[s].todo = <<>>
  /\ GuardsSchedules(s) => TableLock(s, "schedules")
  /\ LET absent == Deactivated(s, tx[s].op)
         locks == EntryRows(s)
         wrote == tx[s].wrote
     IN /\ Acquire(s, locks)
        /\ tx' = [tx EXCEPT ![s].stage = "commit", ![s].held = @ \cup locks,
             ![s].wrote = [n \in DOMAIN wrote \cup absent |->
                IF n \in absent THEN [Schedule(s, n) EXCEPT !.active = FALSE] ELSE wrote[n]]]
  /\ UNCHANGED <<now, schedules, definitions, fired>>

-----------------------------------------------------------------------------
(* set_job_schedule_active and set_job_schedule_next_fire_at.              *)

ActivateLocks(s) ==
  /\ Work(s, {"activate"})
  /\ \/ LockSchedules(s)
     \/ Schedule(s, tx[s].op.name) # None /\ LockDefinitions(s)

Activate(s) ==
  /\ Work(s, {"activate"}) /\ TableLock(s, "schedules")
  /\ LET n == tx[s].op.name
         row == Schedule(s, n) IN
     /\ row # None => TableLock(s, "definitions") /\ Definition(s, row.type) = TRUE
     /\ tx' = [tx EXCEPT ![s].stage = "commit",
                         ![s].wrote = IF row = None THEN @ ELSE Put(@, n, [row EXCEPT !.active = TRUE])]
  /\ UNCHANGED <<now, schedules, definitions, fired>>

(* Neither write needs the guard: one only turns a schedule off.           *)
WriteSchedule(s) ==
  /\ Work(s, {"deactivate", "cursor"})
  /\ LET n == tx[s].op.name
         row == Schedule(s, n)
         locks == RowWrite("schedules", {n}) IN
     /\ row # None /\ Acquire(s, locks)
     /\ row.gen < MaxCursorWrites \/ tx[s].op.kind = "deactivate"
     /\ tx' = [tx EXCEPT ![s].stage = "commit", ![s].held = @ \cup locks,
          ![s].wrote = Put(@, n, IF tx[s].op.kind = "deactivate" THEN [row EXCEPT !.active = FALSE]
                                 ELSE [row EXCEPT !.next = tx[s].op.next, !.gen = @ + 1])]
  /\ UNCHANGED <<now, schedules, definitions, fired>>

-----------------------------------------------------------------------------
(* Definitions: single upserts and the catalog's synchronisation.          *)

Disabled(op) == {t \in DOMAIN op.enabled : ~op.enabled[t]}
Absent(op) == op.scope \ DOMAIN op.enabled

(* requires_disable_guard.                                                 *)
GuardsDefinitions(op) == Disabled(op) # {} \/ Absent(op) # {}

DefinitionLocks(s) ==
  /\ Work(s, {"definitions"}) /\ GuardsDefinitions(tx[s].op)
  /\ LockSchedules(s) \/ LockDefinitions(s)

ActiveOn(s, types) == \E n \in Names : Schedule(s, n) # None /\ Schedule(s, n).active /\ Schedule(s, n).type \in types

(* Schedules that a disabled or an absent definition would leave behind.   *)
LeavesActive(s, op) ==
  \/ ActiveOn(s, Disabled(op))
  \/ ActiveOn(s, {t \in Absent(op) : Definition(s, t) = TRUE})

(* upsert_definitions_tx: enabled entries may keep an operator's disabling.*)
Defined(s, op, t) ==
  IF t \in Absent(op) THEN FALSE
  ELSE IF op.preserve /\ op.enabled[t] /\ Definition(s, t) # None THEN Definition(s, t)
  ELSE op.enabled[t]

WrittenTypes(s, op) == DOMAIN op.enabled \cup {t \in Absent(op) : Definition(s, t) = TRUE}

WriteDefinitions(s) ==
  /\ Work(s, {"definitions"})
  /\ LET op == tx[s].op
         rows == WrittenTypes(s, op)
         locks == RowWrite("definitions", rows) IN
     /\ GuardsDefinitions(op) => TableLock(s, "schedules") /\ TableLock(s, "definitions")
     /\ ~LeavesActive(s, op) \/ ~GuardsDefinitions(op)
     /\ Acquire(s, locks)
     /\ tx' = [tx EXCEPT ![s].stage = "commit", ![s].held = @ \cup locks,
                         ![s].defined = [t \in rows |-> Defined(s, op, t)]]
  /\ UNCHANGED <<now, schedules, definitions, fired>>

-----------------------------------------------------------------------------
(* The scheduler's pass.                                                   *)

(* Mutant: a schedule that is due at this very second is not due.          *)
ClaimableLate(s) == {n \in Names : Schedule(s, n) # None /\ Schedule(s, n).active /\ Schedule(s, n).next < tx[s].started}

(* claim_due_schedules_tx: FOR UPDATE SKIP LOCKED.                         *)
Claimable(s) ==
  {n \in Names : /\ Schedule(s, n) # None
                 /\ Schedule(s, n).active /\ Schedule(s, n).next <= tx[s].started
                 /\ Acquire(s, {LockOn(n, "Row")})}

(* The table lock comes before the rows, the clock before both.            *)
ClaimLock(s) ==
  /\ Work(s, {"scheduler"}) /\ tx[s].held = {}
  /\ Take(s, {LockOn("schedules", "RowExclusive")})

ClaimDue(s) ==
  /\ Work(s, {"scheduler"}) /\ tx[s].held # {}
  /\ tx' = [tx EXCEPT ![s].stage = IF Claimable(s) = {} THEN "commit" ELSE "materialize",
                      ![s].claimed = Claimable(s),
                      ![s].held = @ \cup {LockOn(n, "Row") : n \in Claimable(s)}]
  /\ UNCHANGED <<now, schedules, definitions, fired>>

Materialized(s, n, row, slots) ==
  tx' = [tx EXCEPT ![s].wrote = Put(@, n, row), ![s].slots = @ \cup slots, ![s].claimed = @ \ {n},
                   ![s].stage = IF tx[s].claimed = {n} THEN "commit" ELSE @]

(* materialize_schedule_tx: the job, then the cursor, in one savepoint.    *)
Materialize(s, n) ==
  /\ tx[s].stage = "materialize" /\ n \in tx[s].claimed
  /\ LET row == Schedule(s, n)
         next == NextFire(row.cron, row.next, tx[s].started) IN
     /\ Definition(s, row.type) = TRUE /\ next # None
     /\ Materialized(s, n, [row EXCEPT !.next = next], {<<n, row.gen, row.next>>})
  /\ UNCHANGED <<now, schedules, definitions, fired>>

(* The savepoint is rolled back and the schedule put off, out of the way   *)
(* of the others.                                                          *)
DeferFailed(s, n) ==
  /\ tx[s].stage = "materialize" /\ n \in tx[s].claimed
  /\ Materialized(s, n, [Schedule(s, n) EXCEPT !.next = tx[s].started + RetryDelay], {})
  /\ UNCHANGED <<now, schedules, definitions, fired>>

Tick ==
  /\ now < MaxTime
  /\ now' = now + 1
  /\ UNCHANGED <<schedules, definitions, fired, tx>>

-----------------------------------------------------------------------------
AdminStep(s) ==
  \/ \E op \in Operations : BeginSession(s, op)
  \/ EntryLocks(s) \/ PersistEntry(s) \/ RejectEntry(s) \/ FinishEntries(s)
  \/ ActivateLocks(s) \/ Activate(s) \/ WriteSchedule(s)
  \/ DefinitionLocks(s) \/ WriteDefinitions(s)

SchedulerStep(s) ==
  \/ ClaimLock(s) \/ ClaimDue(s)
  \/ \E n \in Names : Materialize(s, n) \/ DeferFailed(s, n)

Next ==
  \/ \E s \in Sessions : AdminStep(s) \/ SchedulerStep(s) \/ CommitSession(s) \/ RollbackSession(s)
  \/ Tick

Spec == Init /\ [][Next]_vars

SchedulerPass == [kind |-> "scheduler"]

(* A scheduler's session runs pass after pass, and the timeouts end the    *)
(* transactions of the others.  PostgreSQL grants a lock in the order it   *)
(* was asked for, so others that come and go do not keep a pass from it    *)
(* for ever.                                                               *)
SchedulingStep(s) ==
  \/ BeginSession(s, SchedulerPass) \/ SchedulerStep(s)
  \/ tx[s].op = SchedulerPass /\ CommitSession(s)

Fairness(schedulers) ==
  /\ \A s \in schedulers : WF_vars(SchedulingStep(s)) /\ SF_vars(ClaimLock(s))
  /\ \A s \in Sessions \ schedulers : WF_vars(RollbackSession(s))

-----------------------------------------------------------------------------
(* Properties.                                                             *)

(* Rows keep their types and their foreign key, sessions their stages.     *)
TypeOK ==
  /\ now \in 1..MaxTime
  /\ \A n \in Names : schedules[n] # None =>
       schedules[n].type \in Types /\ definitions[schedules[n].type] # None
  /\ definitions \in [Types -> {None, TRUE, FALSE}]
  /\ \A s \in Sessions : tx[s].stage \in {"work", "materialize", "commit"}

(* schedule_definition_guard: "Active job schedules require an enabled job *)
(* definition", whatever upserts, activations, syncs and disablings run    *)
(* beside each other.                                                      *)
ActiveSchedulesHaveEnabledDefinitions ==
  \A n \in Names : schedules[n] # None /\ schedules[n].active => definitions[schedules[n].type] = TRUE

(* claim_due_schedules_tx, "so concurrent scheduler loops do not           *)
(* materialize the same schedule row": no slot is fired by two passes, nor *)
(* again after a commit whose outcome the scheduler never learnt.          *)
NoSlotFiresTwice ==
  /\ \A s \in Sessions : tx[s].slots \cap fired = {}
  /\ \A s, r \in Sessions : s # r => tx[s].slots \cap tx[r].slots = {}

(* compute_next_fire_at_with_stale_coalescing_utc: a pass leaves nothing   *)
(* due behind it, however many slots went by, and skips no fire that is    *)
(* still to come.                                                          *)
PassesCoalesce ==
  \A s \in Sessions : \A slot \in tx[s].slots :
    LET row == tx[s].wrote[slot[1]] IN
    /\ row.next > tx[s].started
    /\ NextJittered(row.cron, slot[3]) <= tx[s].started =>
         row.next = Min({f \in {Fire(b) : b \in Bases[row.cron]} : f > tx[s].started})

(* A synchronisation that commits leaves each of its schedules in the      *)
(* state it was given, and an exact one no other of its scope active.      *)
SyncIsApplied ==
  [][\A s \in Sessions : CommitSession(s) /\ tx[s].op.kind = "sync" =>
       LET op == tx[s].op IN
       /\ \A i \in 1..Len(op.entries) : schedules'[op.entries[i].name].active = op.entries[i].active
       /\ op.exact => \A n \in op.scope \ EntryNames(op) : schedules'[n] # None => ~schedules'[n].active]_vars

Due(n) == schedules[n] # None /\ schedules[n].active /\ schedules[n].next <= now

(* run_scheduler_loop: a schedule that is due is fired, put off or turned  *)
(* off by an operator, once passes are no longer rolled back.              *)
DueSchedulesAreServed ==
  <>[][\A s \in Sessions : tx[s].op = SchedulerPass => ~RollbackSession(s) \/ CommitSession(s)]_vars =>
    \A n \in Names : Due(n) ~> ~Due(n)

(* What a session that cannot go on is waiting for: a table's guard lock,  *)
(* then the rows it is about to write.                                     *)
SchedulesWanted(s) ==
  /\ ~TableLock(s, "schedules")
  /\ \/ Work(s, {"plain", "sync"}) /\ GuardsSchedules(s)
     \/ Work(s, {"activate"})
     \/ Work(s, {"definitions"}) /\ GuardsDefinitions(tx[s].op)

DefinitionsWanted(s) ==
  /\ TableLock(s, "schedules") /\ ~TableLock(s, "definitions")
  /\ \/ Work(s, {"plain", "sync"}) /\ tx[s].todo # <<>> /\ ActiveAfter(s)
     \/ Work(s, {"activate"}) /\ Schedule(s, tx[s].op.name) # None
     \/ Work(s, {"definitions"}) /\ GuardsDefinitions(tx[s].op)

Wanted(s) ==
  IF SchedulesWanted(s) THEN {LockOn("schedules", "ShareRowExclusive")}
  ELSE IF DefinitionsWanted(s) THEN {LockOn("definitions", "ShareRowExclusive")}
  ELSE IF Work(s, {"plain", "sync"}) THEN EntryRows(s)
  ELSE IF Work(s, {"deactivate", "cursor"}) THEN RowWrite("schedules", {tx[s].op.name})
  ELSE IF Work(s, {"definitions"}) THEN RowWrite("definitions", WrittenTypes(s, tx[s].op))
  ELSE IF Work(s, {"scheduler"}) /\ tx[s].held = {} THEN {LockOn("schedules", "RowExclusive")}
  ELSE {}

SessionWaitsFor(s) == Blockers(s, Wanted(s))

(* A session that waits and that others wait for; every session of a       *)
(* circle of waits is one.                                                 *)
HoldsUp(s) == SessionWaitsFor(s) # {} /\ \E r \in Sessions : s \in SessionWaitsFor(r)

(* An additive sync that has written inactive entries holds their rows and *)
(* the weaker table lock when it asks for its next row, or for the table's *)
(* stronger lock.                                                          *)
WritesUnguarded(s) ==
  /\ Work(s, {"sync"}) /\ ~tx[s].op.exact /\ ~TableLock(s, "schedules")
  /\ LockOn("schedules", "RowExclusive") \in tx[s].held

(* "All cross-table guards acquire job_schedules before job_definitions"   *)
(* and the scheduler its table lock before its rows: transactions wait in  *)
(* a circle only when each of them is an additive sync.                    *)
OnlyAdditiveSyncsDeadlock ==
  \A s, r \in Sessions :
    s # r /\ HoldsUp(s) /\ HoldsUp(r) => WritesUnguarded(s) /\ WritesUnguarded(r)

(* Whatever upserts, syncs, disablings and scheduler passes run beside     *)
(* each other: an active schedule has an enabled definition, no slot is    *)
(* fired twice, a pass leaves nothing due behind it and skips nothing, a   *)
(* sync that commits has been applied, and only additive syncs deadlock.   *)
SchedulesAreSound ==
  /\ []TypeOK
  /\ []ActiveSchedulesHaveEnabledDefinitions
  /\ []NoSlotFiresTwice
  /\ []PassesCoalesce
  /\ []OnlyAdditiveSyncsDeadlock
  /\ SyncIsApplied
=============================================================================
