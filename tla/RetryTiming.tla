----------------------------- MODULE RetryTiming -----------------------------
(***************************************************************************)
(* When a failed attempt runs again.  A handler fails with a lower bound   *)
(* on its next attempt, in nanoseconds: a delay or an instant.  The        *)
(* runtime adds the delay of its own policy, and the transaction that ends *)
(* the attempt reconciles the two on the database's clock, which counts    *)
(* microseconds, writes the queue row, the attempt's audit columns and the *)
(* events, and tells the observers.  The lease may expire meanwhile: the   *)
(* reaper then ends the attempt with a delay of its own.                   *)
(*                                                                         *)
(* Time is counted in nanoseconds, with a short microsecond and a short    *)
(* millisecond.  Release of unstarted claims and rows the reaper defers    *)
(* are JobQueue's; hooks and observer tasks are WorkerCallbacks'.          *)
(***************************************************************************)
EXTENDS Naturals, Integers, Sequences, FiniteSets

CONSTANTS
  Micro, Milli,     \* nanoseconds of a microsecond and of a millisecond
  MaxMs,            \* i32::MAX, in milliseconds
  PostgresMinimum,  \* the earliest timestamp PostgreSQL stores
  ChronoMax,        \* the last nanosecond chrono represents
  Start, LastClaim, \* bounds: the clock's first value, and its last at a claim
  LeaseNs,          \* the lease of a claim
  MaxAttempts,      \* max_attempts of the job
  Kinds, Codes,     \* kinds and codes of the failures handlers return
  Delays, Instants, \* the lower bounds they ask for
  Overrides,        \* retry_delay_override of some codes
  BaseMs, MaxExp, CapMs, FloorMs, Jitters,  \* policy backoff
  DirectDelays,     \* policy delays of those who call the queue directly
  ReaperDelayMs     \* default_retry_delay_ms of the reaper

NoTime == -1
NoDelay == -1

Attempts == 1 .. MaxAttempts

ASSUME RetryTimingAssumption ==
  /\ {Micro, Milli, MaxAttempts} \subseteq Nat \ {0}
  /\ {MaxMs, ChronoMax, Start, LastClaim, LeaseNs} \subseteq Nat /\ PostgresMinimum \in Int
  /\ Milli % Micro = 0 /\ LeaseNs % Micro = 0
  /\ Start % Micro = 0 /\ PostgresMinimum % Micro = 0 /\ (ChronoMax + 1) % Micro = 0
  /\ PostgresMinimum <= Start /\ LastClaim + LeaseNs + MaxMs * Milli <= ChronoMax
  /\ ReaperDelayMs \in 1 .. MaxMs /\ FloorMs \in 1 .. MaxMs
  /\ BaseMs \in Nat /\ MaxExp \in Nat /\ CapMs \in Int
  /\ \A j \in Jitters : j \in Int /\ CapMs + j <= MaxMs
  /\ DOMAIN Overrides \subseteq Codes /\ \A c \in DOMAIN Overrides : Overrides[c] \in 1 .. MaxMs
  /\ Delays \subseteq Nat /\ Instants \subseteq 0 .. ChronoMax
  /\ DirectDelays \subseteq {NoDelay} \cup 0 .. MaxMs

VARIABLES
  now,        \* the database's clock, on a microsecond
  jitter,     \* what the job's id makes of it
  job,        \* the job_queue row: status, attempt, lease_expires_at, next_run_at
  worker,     \* the process running each attempt, and the failure it reports
  audit,      \* the job_attempts row of each attempt
  events,     \* job_events of each attempt, in order
  dead,       \* the job_dead_letters row
  told,       \* the disposition handed to the observers
  asked       \* history: the clock and the failure as each completion saw them

tvars == <<now, jitter, job, worker, audit, events, dead, told, asked>>

Timings ==
  {[type |-> "none", ns |-> 0]} \cup [type : {"after"}, ns : Delays] \cup [type : {"at"}, ns : Instants]

\* Failures of handlers, and of callers of complete_job_failure who bring a
\* policy delay of their own and do not complete again.  by is "rejected" in the
\* failure the runtime reports for a retry timing the database refused.
Failures ==
  [by : {"runtime"}, kind : Kinds, code : Codes, timing : Timings, delay : {NoDelay}]
    \cup [by : {"direct"}, kind : Kinds, code : Codes, timing : Timings, delay : DirectDelays]

InvalidTiming ==
  [by |-> "rejected", kind |-> "TERMINAL", code |-> "job.invalid_retry_timing",
   timing |-> [type |-> "none", ns |-> 0], delay |-> NoDelay]

NoFailure == [InvalidTiming EXCEPT !.code = "none"]
NoAudit == [outcome |-> "none", code |-> "none", delay |-> NoDelay,
            requested |-> NoTime, effective |-> NoTime, source |-> "none"]
NoDisposition == [type |-> "none", next |-> NoTime]

RetryInit ==
  /\ now = Start
  /\ jitter \in Jitters
  /\ job = [status |-> "PENDING", attempt |-> 0, lease |-> NoTime, next |-> Start]
  /\ worker = [a \in Attempts |-> [pc |-> "none", failure |-> NoFailure]]
  /\ audit = [a \in Attempts |-> NoAudit]
  /\ events = [a \in Attempts |-> <<>>]
  /\ dead = [attempt |-> 0, code |-> "none"]
  /\ told = [a \in Attempts |-> NoDisposition]
  /\ asked = [a \in Attempts |-> [base |-> NoTime, failure |-> NoFailure]]

-----------------------------------------------------------------------------
(* Policy and rounding.                                                    *)

IsRetryable(kind) == kind \in {"RETRYABLE", "TIMEOUT", "LEASE_EXPIRED"}

AtLeast(x, y) == IF x < y THEN y ELSE x
AtMost(x, y) == IF x > y THEN y ELSE x
Ceiling(n, unit) == (n + unit - 1) \div unit

\* 1 << exp
PowerOfTwo[exp \in 0 .. MaxExp] == IF exp = 0 THEN 1 ELSE 2 * PowerOfTwo[exp - 1]

ComputeRetryDelayMs(attempt) ==
  LET exp == AtMost(AtLeast(attempt, 1), MaxExp)
  IN  AtLeast(AtMost(BaseMs * PowerOfTwo[exp], CapMs) + jitter, FloorMs)

\* failure_update: a failure that is not retryable carries no policy delay.
PolicyDelay(a, f) ==
  IF f.by = "direct" THEN f.delay
  ELSE IF ~IsRetryable(f.kind) THEN NoDelay
  ELSE IF f.code \in DOMAIN Overrides THEN Overrides[f.code] ELSE ComputeRetryDelayMs(a)

\* Mutant: rounded down.
Truncated(ns) == ns \div Milli

\* retry_delay_milliseconds, of a delay that is not zero.
RetryDelayMilliseconds(ns) == Ceiling(ns, Milli)

\* round_retry_at_to_postgres_precision: none when the rounded instant is past
\* what chrono represents or before what PostgreSQL stores.
RoundRetryAt(at) ==
  LET rounded == Ceiling(at, Micro) * Micro
  IN  IF rounded > ChronoMax \/ rounded < PostgresMinimum THEN NoTime ELSE rounded

Invalid == [source |-> "invalid", delay |-> NoDelay, requested |-> NoTime, effective |-> NoTime]

\* The variants of ResolvedRetryTiming, as what their accessors answer.
Resolved(delay, policyNext, requested) ==
  [source |-> IF requested > policyNext THEN "HANDLER_NOT_BEFORE" ELSE "POLICY",
   delay |-> delay, requested |-> requested, effective |-> AtLeast(policyNext, requested)]

ResolveRetryTiming(base, delay, timing) ==
  LET policyNext == base + delay * Milli
      ms == RetryDelayMilliseconds(timing.ns)
      at == RoundRetryAt(timing.ns)
  IN  IF delay = NoDelay \/ delay <= 0 \/ policyNext > ChronoMax THEN Invalid
      ELSE IF timing.type = "none" \/ (timing.type = "after" /\ timing.ns = 0)
        THEN Resolved(delay, policyNext, NoTime)
      ELSE IF timing.type = "after"
        THEN IF ms > MaxMs \/ base + ms * Milli > ChronoMax THEN Invalid
             ELSE Resolved(delay, policyNext, base + ms * Milli)
      ELSE IF at # NoTime THEN Resolved(delay, policyNext, at)
      ELSE IF timing.ns <= policyNext THEN Resolved(delay, policyNext, NoTime) ELSE Invalid

\* failure_outcome
DeadLetterReason(a, f) ==
  IF ~IsRetryable(f.kind) THEN "FAILURE_KIND_NON_RETRYABLE"
  ELSE IF a >= MaxAttempts THEN "ATTEMPTS_EXHAUSTED" ELSE "none"

-----------------------------------------------------------------------------
(* What the ends of an attempt write.                                      *)

Event(type, delay, next, source) == [type |-> type, delay |-> delay, next |-> next, source |-> source]
FailedEvent == Event("FAILED", NoDelay, NoTime, "none")
DeadLetteredEvent == Event("DEAD_LETTERED", NoDelay, NoTime, "none")
RetryScheduledEvent(timing, next) == Event("RETRY_SCHEDULED", timing.delay, next, timing.source)
Record(a, last) == events' = [events EXCEPT ![a] = @ \o <<FailedEvent, last>>]

QueueDeadLettered == job' = [job EXCEPT !.status = "DEAD_LETTERED", !.lease = NoTime]
QueueRetryable(next) == job' = [job EXCEPT !.status = "PENDING", !.lease = NoTime, !.next = next]

FinishTerminal(a, f) ==
  /\ QueueDeadLettered
  /\ dead' = [attempt |-> a, code |-> f.code]
  /\ audit' = [audit EXCEPT ![a].outcome = f.kind, ![a].code = f.code]
  /\ Record(a, DeadLetteredEvent)

FinishRetry(a, f, next, timing) ==
  /\ QueueRetryable(next)
  /\ audit' = [audit EXCEPT ![a] = [outcome |-> f.kind, code |-> f.code, delay |-> timing.delay,
       requested |-> timing.requested, effective |-> timing.effective, source |-> timing.source]]
  /\ Record(a, RetryScheduledEvent(timing, next))
  /\ UNCHANGED dead

\* What the observers are told, by the worker and by the reaper.
Disposition(type, next) == [type |-> type, next |-> next]
ReapedDisposition(type, next) == [type |-> type, next |-> next]

-----------------------------------------------------------------------------
(* Attempts.                                                               *)

\* The claim does not look at max_attempts: a job that has used them is not
\* PENDING.  Claims are bounded by LastClaim.
Claim ==
  /\ job.status = "PENDING" /\ job.next <= now /\ now <= LastClaim
  /\ job' = [job EXCEPT !.status = "LEASED", !.attempt = @ + 1, !.lease = now + LeaseNs]
  /\ worker' = [worker EXCEPT ![job.attempt + 1].pc = "running"]
  /\ UNCHANGED <<now, jitter, audit, events, dead, told, asked>>

HandlerFails(a, f) ==
  /\ worker[a].pc = "running"
  /\ worker' = [worker EXCEPT ![a] = [pc |-> "failing", failure |-> f]]
  /\ UNCHANGED <<now, jitter, job, audit, events, dead, told, asked>>

\* Mutant: neither the status nor the deadline is looked at.
SameAttempt(a) == job.attempt = a

\* load_failure_lookup_row: the exact lease, unexpired once the row is locked.
LiveLease(a) == job.status = "LEASED" /\ job.attempt = a /\ job.lease > now

Completes(a) == worker[a].pc = "failing"
Done(a) == worker' = [worker EXCEPT ![a] = [pc |-> "done", failure |-> NoFailure]]
Asked(a) == asked' = [asked EXCEPT ![a] =
  [base |-> now, failure |-> IF worker[a].failure = InvalidTiming THEN @.failure ELSE worker[a].failure]]

LeaseMismatch(a) ==
  /\ Completes(a) /\ ~LiveLease(a)
  /\ Done(a)
  /\ UNCHANGED <<now, jitter, job, audit, events, dead, told, asked>>

\* HandlerFailureTransition::apply_terminal, committed.
DeadLettered(a) ==
  LET f == worker[a].failure
      reason == DeadLetterReason(a, f)
  IN  /\ Completes(a) /\ LiveLease(a) /\ reason # "none"
      /\ FinishTerminal(a, f)
      /\ told' = [told EXCEPT ![a] = Disposition(reason, NoTime)]
      /\ Asked(a) /\ Done(a)
      /\ UNCHANGED <<now, jitter>>

\* HandlerFailureTransition::apply_retry, committed.
RetryScheduled(a) ==
  LET f == worker[a].failure
      timing == ResolveRetryTiming(now, PolicyDelay(a, f), f.timing)
  IN  /\ Completes(a) /\ LiveLease(a) /\ DeadLetterReason(a, f) = "none" /\ timing # Invalid
      /\ FinishRetry(a, f, timing.effective, timing)
      /\ told' = [told EXCEPT ![a] =
           Disposition(IF timing.source = "POLICY" THEN "RetryScheduled" ELSE "RetryScheduledAt",
                       timing.effective)]
      /\ Asked(a) /\ Done(a)
      /\ UNCHANGED <<now, jitter>>

\* The transaction is dropped; the runtime makes a terminal failure of the
\* error and completes once more, a direct caller does not.
TimingRejected(a) ==
  LET f == worker[a].failure
  IN  /\ Completes(a) /\ LiveLease(a) /\ DeadLetterReason(a, f) = "none"
      /\ ResolveRetryTiming(now, PolicyDelay(a, f), f.timing) = Invalid
      /\ worker' = [worker EXCEPT ![a] =
           IF f.by = "runtime" THEN [pc |-> "failing", failure |-> InvalidTiming]
           ELSE [pc |-> "done", failure |-> NoFailure]]
      /\ asked' = [asked EXCEPT ![a] = [base |-> now, failure |-> f]]
      /\ UNCHANGED <<now, jitter, job, audit, events, dead, told>>

\* Any other error leaves the lease to the reaper.
PersistFails(a) ==
  /\ Completes(a)
  /\ Done(a)
  /\ UNCHANGED <<now, jitter, job, audit, events, dead, told, asked>>

-----------------------------------------------------------------------------
(* The reaper and the clock.                                               *)

LeaseExpiredFailure == [kind |-> "LEASE_EXPIRED", code |-> "job.lease_expired"]
Expired == job.status = "LEASED" /\ job.lease < now

ReapTerminal ==
  /\ Expired /\ job.attempt >= MaxAttempts
  /\ FinishTerminal(job.attempt, LeaseExpiredFailure)
  /\ told' = [told EXCEPT ![job.attempt] = ReapedDisposition("LEASE_EXPIRED", NoTime)]
  /\ UNCHANGED <<now, jitter, worker, asked>>

\* The reaper's retry has a delay and no lower bound to audit.
ReapRetry ==
  LET next == now + ReaperDelayMs * Milli
  IN  /\ Expired /\ job.attempt < MaxAttempts
      /\ FinishRetry(job.attempt, LeaseExpiredFailure, next,
           [delay |-> ReaperDelayMs, requested |-> NoTime, effective |-> NoTime, source |-> "none"])
      /\ told' = [told EXCEPT ![job.attempt] = ReapedDisposition("RetryScheduled", next)]
      /\ UNCHANGED <<now, jitter, worker, asked>>

\* Bounded: the clock stops when the last lease has expired.
Tick ==
  /\ now <= LastClaim + LeaseNs
  /\ now' = now + Micro
  /\ UNCHANGED <<jitter, job, worker, audit, events, dead, told, asked>>

RetryNext ==
  \/ Claim
  \/ \E a \in Attempts, f \in Failures : HandlerFails(a, f)
  \/ \E a \in Attempts : LeaseMismatch(a)
  \/ \E a \in Attempts : DeadLettered(a)
  \/ \E a \in Attempts : RetryScheduled(a)
  \/ \E a \in Attempts : TimingRejected(a)
  \/ \E a \in Attempts : PersistFails(a)
  \/ ReapTerminal \/ ReapRetry \/ Tick

RetrySpec == RetryInit /\ [][RetryNext]_tvars

Completion(a) == LeaseMismatch(a) \/ DeadLettered(a) \/ RetryScheduled(a) \/ TimingRejected(a)

\* The clock runs, the reaper's loop goes on, and a worker that has a failure
\* to report goes on to report it.
RetryFairSpec ==
  /\ RetrySpec /\ WF_tvars(Tick) /\ WF_tvars(ReapTerminal \/ ReapRetry)
  /\ \A a \in Attempts : WF_tvars(Completion(a))

-----------------------------------------------------------------------------
(* Properties.                                                             *)

\* Rows, events and processes have their types.
RetryTypeOK ==
  /\ now \in Nat /\ jitter \in Jitters
  /\ job.status \in {"PENDING", "LEASED", "DEAD_LETTERED"} /\ job.attempt \in 0 .. MaxAttempts
  /\ (job.lease # NoTime) <=> (job.status = "LEASED")
  /\ \A a \in Attempts :
       /\ worker[a].pc \in {"none", "running", "failing", "done"}
       /\ worker[a].failure \in Failures \cup {InvalidTiming, NoFailure}
       /\ audit[a].source \in {"none", "POLICY", "HANDLER_NOT_BEFORE"}

\* The instant a failure asked for, to the nanosecond and before any rounding.
LowerBound(a) ==
  LET t == asked[a].failure.timing
  IN  IF t.type = "after" THEN asked[a].base + t.ns ELSE IF t.type = "at" THEN t.ns ELSE 0

Policy(a) == asked[a].base + audit[a].delay * Milli

Retried(a) == audit[a].source # "none"

\* resolve_retry_timing: the next attempt is scheduled no earlier than the
\* policy's delay and the handler's bound ask for, to the nanosecond, and no
\* more than the rounding to the database's precision later.
ScheduledAsAsked ==
  \A a \in Attempts : Retried(a) =>
    /\ audit[a].effective >= Policy(a) /\ audit[a].effective >= LowerBound(a)
    /\ \/ audit[a].effective = Policy(a)
       \/ audit[a].effective < LowerBound(a) +
            (IF asked[a].failure.timing.type = "after" THEN Milli ELSE Micro)

\* claim_jobs after complete_job_failure or a reaped lease: an attempt starts
\* only when the bound the previous one asked for has passed.
NoAttemptBeforeItsBound ==
  [][\A a \in Attempts : (job.attempt = a - 1 /\ job'.attempt = a /\ a > 1 /\ Retried(a - 1))
       => now >= LowerBound(a - 1) /\ now >= Policy(a - 1)]_tvars

\* The queue row, the audit columns, the RETRY_SCHEDULED event and the
\* disposition the observers get describe one schedule, and the audit says
\* the handler decided exactly when its bound was the later one.
AuditExplainsTheSchedule ==
  \A a \in Attempts :
    LET last == events[a][Len(events[a])]
    IN  /\ told[a].type \in {"RetryScheduled", "RetryScheduledAt"} =>
             /\ last.type = "RETRY_SCHEDULED" /\ last.next = told[a].next
             /\ last.source = audit[a].source /\ last.delay = audit[a].delay
             /\ audit[a].effective \in {NoTime, last.next}
             /\ job.attempt = a => job.next = last.next
        /\ Retried(a) =>
             /\ (audit[a].source = "HANDLER_NOT_BEFORE") <=> (audit[a].requested > Policy(a))
             /\ (audit[a].source = "HANDLER_NOT_BEFORE") <=> (told[a].type = "RetryScheduledAt")

\* A lower bound that no timestamp can express.
Unpersistable(t) ==
  \/ t.type = "after" /\ t.ns > MaxMs * Milli
  \/ t.type = "at" /\ t.ns > (ChronoMax \div Micro) * Micro

\* complete_job_failure_after_handler: the dead letter names what ended the
\* job.  A bound that cannot be stored ends it only when it mattered: a
\* terminal or an exhausting failure keeps its own code whatever it asked for.
DeadLettersNameTheirCause ==
  job.status = "DEAD_LETTERED" =>
    LET a == job.attempt
        f == asked[a].failure
    IN  /\ dead.attempt = a /\ dead.code = audit[a].code
        /\ \/ /\ dead.code = "job.lease_expired" /\ told[a].type = "LEASE_EXPIRED"
              /\ a = MaxAttempts
           \/ /\ dead.code = "job.invalid_retry_timing"
              /\ told[a].type = "FAILURE_KIND_NON_RETRYABLE"
              /\ IsRetryable(f.kind) /\ a < MaxAttempts /\ Unpersistable(f.timing)
           \/ /\ dead.code = f.code /\ audit[a].outcome = f.kind
              /\ told[a].type = IF IsRetryable(f.kind) THEN "ATTEMPTS_EXHAUSTED"
                                ELSE "FAILURE_KIND_NON_RETRYABLE"

\* compute_retry_delay_ms: a later attempt of a job never waits less than an
\* earlier one, unless an override or a direct caller chose the delay.
BackoffNeverShrinks ==
  \A a, b \in Attempts :
    (/\ a < b /\ Retried(a) /\ Retried(b)
     /\ \A c \in {a, b} : asked[c].failure.by = "runtime" /\ asked[c].failure.code \notin DOMAIN Overrides)
      => audit[a].delay <= audit[b].delay

\* complete_job_failure against the reaper: an attempt fails once, and what
\* is recorded of it does not change afterwards.
AttemptsFailOnce ==
  [][\A a \in Attempts : events[a] # <<>> =>
       audit'[a] = audit[a] /\ events'[a] = events[a] /\ told'[a] = told[a]]_tvars

\* Whatever a handler asks for, and whether or not its failure can be written,
\* a failed attempt does not keep its lease.
FailuresSettle ==
  \A a \in Attempts :
    worker[a].pc = "failing" ~> ~(job.status = "LEASED" /\ job.attempt = a)

(* A failed attempt is retried no earlier than its policy and its handler  *)
(* ask for and no later than rounding makes it, row, audit and event agree *)
(* on when, and the dead letter of the last one names its cause.           *)
RetriesAreAsAsked ==
  /\ RetryTypeOK
  /\ ScheduledAsAsked
  /\ AuditExplainsTheSchedule
  /\ DeadLettersNameTheirCause
=============================================================================
