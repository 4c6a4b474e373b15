------------------------ MODULE WorkflowLocksProofs ------------------------
(***************************************************************************)
(* The safety properties of module WorkflowLocks for every workflow graph  *)
(* and every set of clients.                                               *)
(*                                                                         *)
(* A transaction is followed by its story: what its record tx[c] says      *)
(* about the rows it wrote, the rows it has locked and the steps it has    *)
(* still to look at, given the committed rows.  The statements of c keep   *)
(* the story of c; the only statement of another client that could spoil   *)
(* it is a commit, and the locks keep that from happening.                 *)
(***************************************************************************)
EXTENDS WorkflowLocks, FiniteSetTheorems, NaturalsInduction, WellFoundedInduction, TLAPS

Open == {"ENQUEUED", "RUNNING", "WAITING_FOR_EXTERNAL"}
Statuses == {"ABSENT", "BLOCKED"} \cup Open \cup Terminal
StepRow == [status : Statuses, pending : Nat, unsatisfied : Nat, job : BOOLEAN]
Locks == [row : {"job", "step"} \X Steps, mode : {"X"}] \cup [row : {"release", "run"} \X {0}, mode : {"X", "S"}]

Cascading == {"cascade", "dependents", "allows", "recompute"}
Canceling == {"cancel_jobs", "cancel_release", "cancel_jobs_again", "cancel_steps", "cancel_run", "sweep"}
Reading == {"job", "step", "steps", "external_step", "external", "append"} \cup Canceling
Pcs == {"idle", "release", "commit"} \cup Reading \cup Cascading

(* What a transaction x wrote, and what it sees of the committed rows.     *)
Mine(x) == DOMAIN x.mine
See(x, rows) == [s \in Steps |-> IF s \in DOMAIN x.mine THEN x.mine[s] ELSE rows[s]]
Knows(x, rows) == {s \in Steps : See(x, rows)[s].status # "ABSENT"}

(* The locks it has, and the ones it has or has asked for.                 *)
Asked(x) == x.held \cup x.want
HasStep(x, s) == Exclusive("step", s) \in x.held
HasRun(x) == Exclusive("run", 0) \in x.held
Releases(x) == Shared("release") \in x.held
Stops(x) == Exclusive("release", 0) \in x.held

Tx(pc, want, held, mine, status, goal, queue, ready) ==
  [pc |-> pc, want |-> want, held |-> held, mine |-> mine, run |-> status,
   goal |-> goal, queue |-> queue, ready |-> ready]

Shaped(x) == x = Tx(x.pc, x.want, x.held, x.mine, x.run, x.goal, x.queue, x.ready)

TxTyped(x) ==
  /\ Shaped(x)
  /\ x.pc \in Pcs /\ x.want \subseteq Locks /\ x.held \subseteq Locks
  /\ x.queue \in Seq(Steps) /\ x.ready \subseteq Steps
  /\ Mine(x) \subseteq Steps /\ \A s \in Mine(x) : x.mine[s] \in StepRow
  /\ x.run \in OpenRun \cup ClosedRun \cup {"same"}

RowsTyped ==
  /\ step \in [Steps -> StepRow]
  /\ run \in OpenRun \cup ClosedRun
  /\ jobs \in [Steps -> Nat]
  /\ DOMAIN tx = Clients

(* Two clients have locks on one row only if both are shared.              *)
LocksApart ==
  \A c, o \in Clients : c # o =>
    \A h \in tx[c].held, k \in tx[o].held : h.row = k.row => h.mode = "S" /\ k.mode = "S"

(* The steps that x ended, and the ones among them whose dependents it has *)
(* still to count down.                                                    *)
Elements(queue) == {queue[i] : i \in DOMAIN queue}
Queued(x) == Elements(x.queue)
Ended(x, rows) == {p \in Mine(x) : x.mine[p].status \in Terminal /\ rows[p].status \notin Terminal}
Unapplied(c, x) == Queued(x) \cup IF x.pc = "release" THEN {c[2]} ELSE {}

(* The prerequisites of d that its counters count, in rows where the ends  *)
(* of the steps in todo are not counted yet.                               *)
Pending(rows, todo, d) == {p \in Prereqs(d) : rows[p].status \notin Terminal \/ p \in todo}
Unsatisfied(rows, todo, d) ==
  {p \in Prereqs(d) : <<p, d>> \in OnSuccess /\ rows[p].status \in {"FAILED", "CANCELED"} /\ p \notin todo}

(* What a transaction may make of a row.                                   *)
Moves(old, new) ==
  /\ new.status # "ABSENT"
  /\ old.status \in Terminal => new.status = old.status
  /\ old.status \in {"ENQUEUED", "RUNNING"} => new.status \in {"ENQUEUED", "RUNNING"} \cup Terminal
  /\ old.status = "WAITING_FOR_EXTERNAL" => new.status \in {"WAITING_FOR_EXTERNAL"} \cup Terminal
  /\ new.status \in {"ENQUEUED", "RUNNING"} => new.job = TRUE
  /\ new.status = "BLOCKED" => new.job = FALSE
  /\ old.job = TRUE => new.job = TRUE

(* The rows that c wrote: it has them locked, the dependents of the steps  *)
(* it ended are among them or will be, their counters are right in its     *)
(* view, and those that are ready are still on its list.                   *)
Owns(c, x, rows) ==
  /\ \A s \in Mine(x) : HasStep(x, s) /\ Moves(rows[s], x.mine[s])
  /\ \A s \in Mine(x) : rows[s].status = "ABSENT" => c[1] = "append"
Follows(c, x, rows) ==
  /\ Unapplied(c, x) \subseteq Ended(x, rows)
  /\ \A p \in Ended(x, rows) \ Unapplied(c, x) : \A d \in Knows(x, rows) : p \in Prereqs(d) => d \in Mine(x)
Counts(c, x, rows) ==
  \A d \in Mine(x) :
    /\ x.mine[d].pending = Cardinality(Pending(See(x, rows), Unapplied(c, x), d))
    /\ x.mine[d].unsatisfied = Cardinality(Unsatisfied(See(x, rows), Unapplied(c, x), d))
Lists(x) ==
  \A d \in Mine(x) : x.mine[d].status = "BLOCKED" /\ x.mine[d].pending = 0 => d \in x.ready

(* Why the run is open while c writes: there is a step that is not over,   *)
(* and c has it locked.                                                    *)
OpenStory(c, x, rows) ==
  Mine(x) # {} =>
    /\ c[1] \in {"job", "external"} => c[2] \in Mine(x) /\ rows[c[2]].status \in Open
    /\ c[1] = "append" => HasStep(x, Window) /\ rows[Window].status = "WAITING_FOR_EXTERNAL" /\ Releases(x)

(* The status that c is about to give the run.                             *)
CommitStory(x, rows) ==
  /\ x.run = "same" /\ x.pc = "commit" =>
       \A s \in Mine(x) : {rows[s].status, x.mine[s].status} \subseteq {"ENQUEUED", "RUNNING"}
  /\ x.run # "same" => HasRun(x)
  /\ x.run \notin {"same", "CANCELED"} => x.run = StatusOf(See(x, rows))
  /\ x.run = "CANCELED" => \A s \in Knows(x, rows) : s \in Mine(x) /\ x.mine[s].status \in Terminal

(* Where c is, and what it has on its lists.                               *)
ControlStory(c, x, rows) ==
  /\ x.pc = "idle" => x = Idle
  /\ x.pc \in {"job", "step", "release"} => c[1] = "job"
  /\ x.pc \in {"external_step", "external"} => c[1] = "external"
  /\ x.pc = "append" => c[1] = "append"
  /\ x.pc = "steps" => c[1] \in {"external", "append"}
  /\ x.pc \in Canceling => c[1] = "cancel"
  /\ x.pc \in Cascading => c[1] # "cancel" /\ Releases(x)
  /\ c[1] = "external" /\ x.pc # "idle" => x.goal \in {"SUCCEEDED", "FAILED"}
  /\ x.pc \in Reading \cup {"idle"} => Mine(x) = {}
  /\ x.pc # "commit" => x.run = "same"

Releasable(row) == row.status = "BLOCKED" /\ row.pending = 0 /\ row.unsatisfied = 0

Distinct(queue) == \A i, j \in DOMAIN queue : queue[i] = queue[j] => i = j

ListStory(c, x, rows) ==
  /\ x.pc \notin {"cascade", "dependents", "allows"} => x.queue = <<>> /\ x.ready = {}
  /\ Distinct(x.queue)
  /\ x.pc \in {"cascade", "allows"} => x.ready \subseteq Mine(x)
  /\ x.pc = "dependents" => x.queue # <<>> /\ x.ready = Dependents(Head(x.queue)) \cap Knows(x, rows)
  /\ x.pc = "allows" => x.ready # {} /\ Releasable(x.mine[Least(x.ready)])

(* The locks that c has or has asked for where it is.                      *)
LockStory(c, x, rows) ==
  /\ \A s \in Steps : Exclusive("step", s) \in Asked(x) => s \in Knows(x, rows)
  /\ x.pc \in {"idle", "cascade", "commit", "sweep"} => x.want = {}
  /\ x.pc = "step" => Exclusive("step", c[2]) \in Asked(x) /\ rows[c[2]].job = TRUE
  /\ x.pc = "external_step" => Exclusive("step", c[2]) \in Asked(x)
  /\ x.pc = "external" => HasStep(x, c[2])
  /\ x.pc = "release" => Shared("release") \in Asked(x)
  /\ x.pc = "dependents" => \A d \in x.ready : Exclusive("step", d) \in Asked(x)
  /\ x.pc = "recompute" => Exclusive("run", 0) \in Asked(x)

(* An append and a cancellation have every step of the run locked.         *)
WholeRun(c, x, rows) ==
  /\ c[1] = "append" /\ x.pc = "steps" => \A s \in Knows(x, rows) : Exclusive("step", s) \in Asked(x)
  /\ c[1] = "append" /\ x.pc \notin {"idle", "steps"} => \A s \in Knows(x, rows) : HasStep(x, s)
  /\ x.pc = "cancel_release" => Exclusive("release", 0) \in Asked(x)
  /\ x.pc \in {"cancel_jobs_again", "cancel_steps", "cancel_run", "sweep"} => Stops(x)
  /\ x.pc = "cancel_steps" => \A s \in Knows(x, rows) : Exclusive("step", s) \in Asked(x)
  /\ x.pc \in {"cancel_run", "sweep"} => \A s \in Knows(x, rows) : HasStep(x, s)
  /\ x.pc = "cancel_run" => Exclusive("run", 0) \in Asked(x)
  /\ x.pc = "sweep" => HasRun(x)

WriteStory(c, x, rows) == Owns(c, x, rows) /\ Follows(c, x, rows) /\ Counts(c, x, rows) /\ Lists(x)

Story(c, x, rows) ==
  /\ TxTyped(x)
  /\ ControlStory(c, x, rows) /\ ListStory(c, x, rows) /\ LockStory(c, x, rows) /\ WholeRun(c, x, rows)
  /\ WriteStory(c, x, rows) /\ OpenStory(c, x, rows) /\ CommitStory(x, rows)

(* The committed rows: NoEndIsLost, and what the jobs of steps are.        *)
Agree(rows) ==
  \A d \in Steps : rows[d].status # "ABSENT" =>
    /\ rows[d].pending = Cardinality(Pending(rows, {}, d))
    /\ rows[d].unsatisfied = Cardinality(Unsatisfied(rows, {}, d))

Sound(rows, status) ==
  /\ Agree(rows)
  /\ \A d \in Steps : rows[d].status = "BLOCKED" => rows[d].pending # 0 /\ rows[d].job = FALSE
  /\ \A d \in Steps : rows[d].status \in {"ENQUEUED", "RUNNING"} => rows[d].job = TRUE
  /\ \A d \in Steps : rows[d].status = "ABSENT" => rows[d].job = FALSE
  /\ status = "CANCELED" => \A s \in Steps : rows[s].status \in Terminal \cup {"ABSENT"}
  /\ status # "CANCELED" => status = StatusOf(rows)

LocksInv == RowsTyped /\ LocksApart /\ Sound(step, run) /\ \A c \in Clients : Story(c, tx[c], step)

-----------------------------------------------------------------------------
(* Rows, locks and lists.                                                  *)

LEMMA LeastIn ==
  ASSUME NEW S \in SUBSET Nat, S # {}
  PROVE  Least(S) \in S /\ \A x \in S : Least(S) <= x
<1> DEFINE R == OpToRel(<, Nat)
<1>1. IsWellFoundedOn(R, Nat)
  BY NatLessThanWellFounded
<1>2. \A x, y \in Nat : x < y => <<x, y>> \in R
  BY DEF OpToRel
<1> HIDE DEF R
<1>3. PICK x \in S : \A y \in S : ~(<<y, x>> \in R)
  BY <1>1, WFMin
<1>4. ASSUME NEW y \in S PROVE x <= y
  <2>1. x \in Nat /\ y \in Nat
    OBVIOUS
  <2>2. ~(y < x)
    BY <1>2, <1>3, <2>1, Zenon
  <2> QED BY <2>1, <2>2
<1> QED BY <1>4 DEF Least

LEMMA PlaceIsNat ==
  ASSUME jobs \in [Steps -> Nat], NEW l \in Locks
  PROVE  Place(l) \in Nat
<1>1. Steps \subseteq Nat /\ (l.row \in {"job", "step"} \X Steps \/ l.row \in {"release", "run"} \X {0})
  BY LocksAssumption DEF Locks
<1>2. CASE l.row \in {"job", "step"} \X Steps
  <2>1. PICK k \in {"job", "step"}, s \in Steps : l.row = <<k, s>>
    BY <1>2
  <2> QED BY <1>1, <2>1 DEF Place
<1>3. CASE l.row \in {"release", "run"} \X {0}
  <2>1. PICK k \in {"release", "run"} : l.row = <<k, 0>>
    BY <1>3
  <2> QED BY <2>1 DEF Place
<1> QED BY <1>1, <1>2, <1>3

LEMMA NextLockIn ==
  ASSUME jobs \in [Steps -> Nat], NEW c, tx[c].want \subseteq Locks, tx[c].want # {}
  PROVE  /\ NextLock(c) \in tx[c].want
         /\ \A o \in tx[c].want : Place(NextLock(c)) <= Place(o)
<1> DEFINE S == {Place(l) : l \in tx[c].want}
<1>1. S \in SUBSET Nat /\ S # {}
  BY PlaceIsNat
<1>2. PICK m \in S : \A x \in S : m <= x
  BY <1>1, LeastIn
<1>3. PICK l \in tx[c].want : m = Place(l)
  BY <1>2
<1>4. \A o \in tx[c].want : Place(l) <= Place(o)
  BY <1>2, <1>3
<1> QED BY <1>3, <1>4, Zenon DEF NextLock

LEMMA StepsFinite ==
  ASSUME NEW S \in SUBSET Steps
  PROVE  IsFiniteSet(S) /\ Cardinality(S) \in Nat
BY LocksAssumption, FS_Subset, FS_CardinalityType

LEMMA ClientKinds ==
  ASSUME NEW c \in Clients
  PROVE  /\ c[1] \in {"job", "external"} => c[2] \in Steps
         /\ c[1] \in {"job", "external", "append", "cancel"}
         /\ \A o \in Clients : c[1] = "append" /\ o[1] = "append" => c = o
<1>1. \A a \in Clients : a \in {"job", "external"} \X Steps \/ a \in {"append", "cancel"} \X {0}
  BY LocksAssumption, Zenon
<1>2. \A a \in {"job", "external"} \X Steps : a[1] \in {"job", "external"} /\ a[2] \in Steps
  OBVIOUS
<1>3. \A a \in {"append", "cancel"} \X {0} : a[1] \in {"append", "cancel"} /\ a = <<a[1], 0>>
  OBVIOUS
<1>4. \A a \in Clients : \/ a[1] \in {"job", "external"} /\ a[2] \in Steps
                         \/ a[1] \in {"append", "cancel"} /\ a = <<a[1], 0>>
  BY <1>1, <1>2, <1>3, Zenon
<1>5. \A o \in Clients : c[1] = "append" /\ o[1] = "append" => c = o
  BY <1>4
<1> QED BY <1>4, <1>5

(* What a transaction sees of a step.                                      *)
LEMMA SeeRow ==
  ASSUME NEW x, NEW rows, NEW s \in Steps
  PROVE  /\ s \in Mine(x) => See(x, rows)[s] = x.mine[s]
         /\ s \notin Mine(x) => See(x, rows)[s] = rows[s]
BY DEF See, Mine

LEMMA KnowsRow ==
  ASSUME NEW c, NEW x, NEW rows, TxTyped(x), Owns(c, x, rows)
  PROVE  Knows(x, rows) = {s \in Steps : rows[s].status # "ABSENT"} \cup Mine(x)
BY SeeRow DEF Knows, TxTyped, Owns, Moves

(* A step that x did not end is over in its view just as it was before.    *)
LEMMA SeeEnded ==
  ASSUME NEW c, NEW x, NEW rows, TxTyped(x), Owns(c, x, rows), NEW p \in Steps
  PROVE  /\ p \in Ended(x, rows) => p \in Mine(x) /\ rows[p].status \notin Terminal /\ See(x, rows)[p].status \in Terminal
         /\ p \notin Ended(x, rows) => /\ See(x, rows)[p].status \in Terminal <=> rows[p].status \in Terminal
                                       /\ rows[p].status \in Terminal => See(x, rows)[p].status = rows[p].status
<1>1. CASE p \in Mine(x)
  <2>1. See(x, rows)[p] = x.mine[p] /\ Moves(rows[p], x.mine[p])
    BY <1>1, SeeRow DEF Owns
  <2> QED BY <1>1, <2>1 DEF Ended, Moves
<1>2. CASE p \notin Mine(x)
  <2>1. See(x, rows)[p] = rows[p] /\ p \notin Ended(x, rows)
    BY <1>2, SeeRow DEF Ended
  <2> QED BY <2>1
<1> QED BY <1>1, <1>2

LEMMA AgreeIs == CountersAgree <=> Agree(step)
<1>1. \A d : Pending(step, {}, d) = {p \in Prereqs(d) : step[p].status \notin Terminal}
  BY Zenon DEF Pending
<1>2. \A d : Unsatisfied(step, {}, d) =
               {p \in Prereqs(d) : <<p, d>> \in OnSuccess /\ step[p].status \in {"FAILED", "CANCELED"}}
  BY Zenon DEF Unsatisfied
<1> QED BY <1>1, <1>2, Zenon DEF CountersAgree, Agree

(* The counters count the same if no prerequisite ends or is counted.      *)
LEMMA SameCounters ==
  ASSUME NEW rows, NEW todo, NEW rows2, NEW todo2, NEW d,
         \A p \in Prereqs(d) :
           /\ rows[p].status \notin Terminal \/ p \in todo <=> rows2[p].status \notin Terminal \/ p \in todo2
           /\ rows[p].status \in {"FAILED", "CANCELED"} /\ p \notin todo <=>
                rows2[p].status \in {"FAILED", "CANCELED"} /\ p \notin todo2
  PROVE  /\ Pending(rows, todo, d) = Pending(rows2, todo2, d)
         /\ Unsatisfied(rows, todo, d) = Unsatisfied(rows2, todo2, d)
<1>1. Pending(rows, todo, d) = Pending(rows2, todo2, d)
  BY Zenon DEF Pending
<1>2. Unsatisfied(rows, todo, d) = Unsatisfied(rows2, todo2, d)
  BY Zenon DEF Unsatisfied
<1> QED BY <1>1, <1>2

LEMMA PrereqsAre == \A d, p : (p \in Prereqs(d) <=> p \in Steps /\ <<p, d>> \in Edges) /\ (d \in Dependents(p) <=> d \in Steps /\ <<p, d>> \in Edges)
BY Zenon DEF Prereqs, Dependents

(* Every counter that a transaction sees is right in its view.             *)
LEMMA CountersInView ==
  ASSUME NEW c, NEW x, NEW rows, TxTyped(x), Owns(c, x, rows), Follows(c, x, rows), Counts(c, x, rows), Agree(rows),
         NEW d \in Knows(x, rows)
  PROVE  /\ See(x, rows)[d].pending = Cardinality(Pending(See(x, rows), Unapplied(c, x), d))
         /\ See(x, rows)[d].unsatisfied = Cardinality(Unsatisfied(See(x, rows), Unapplied(c, x), d))
<1>1. CASE d \in Mine(x)
  BY <1>1, SeeRow DEF Counts, Knows
<1>2. CASE d \notin Mine(x)
  <2>1. See(x, rows)[d] = rows[d] /\ rows[d].status # "ABSENT" /\ d \in Steps
    BY <1>2, SeeRow DEF Knows
  <2>2. ASSUME NEW p \in Prereqs(d)
        PROVE  /\ See(x, rows)[p].status \notin Terminal \/ p \in Unapplied(c, x) <=> rows[p].status \notin Terminal \/ p \in {}
               /\ See(x, rows)[p].status \in {"FAILED", "CANCELED"} /\ p \notin Unapplied(c, x) <=>
                    rows[p].status \in {"FAILED", "CANCELED"} /\ p \notin {}
    <3>1. p \in Steps
      BY PrereqsAre
    <3>2. p \in Ended(x, rows) <=> p \in Unapplied(c, x)
      BY <1>2 DEF Follows
    <3>3. {"FAILED", "CANCELED"} \subseteq Terminal
      BY DEF Terminal
    <3> QED BY <3>1, <3>2, <3>3, SeeEnded, Zenon
  <2>3. /\ Pending(See(x, rows), Unapplied(c, x), d) = Pending(rows, {}, d)
        /\ Unsatisfied(See(x, rows), Unapplied(c, x), d) = Unsatisfied(rows, {}, d)
    BY <2>2, SameCounters
  <2> QED BY <2>1, <2>3, Zenon DEF Agree
<1> QED BY <1>1, <1>2

(* A transaction that has not begun has a story.                           *)
LEMMA IdleStory ==
  ASSUME NEW c, NEW rows
  PROVE  Story(c, Idle, rows)
<1>1. /\ Mine(Idle) = {} /\ Idle.queue = <<>> /\ Idle.ready = {} /\ Idle.want = {} /\ Idle.held = {}
      /\ Idle.pc = "idle" /\ Idle.run = "same" /\ Idle.goal = "none"
  BY DEF Idle, Mine, NoRows
<1>2. TxTyped(Idle)
  <2>1. Shaped(Idle)
    BY DEF Idle, Tx, Shaped
  <2>2. Idle.pc \in Pcs /\ Idle.queue \in Seq(Steps)
    BY <1>1 DEF Pcs
  <2> QED BY <1>1, <2>1, <2>2, Zenon DEF TxTyped
<1>3. ControlStory(c, Idle, rows)
  BY <1>1 DEF ControlStory, Canceling, Cascading
<1>4. ListStory(c, Idle, rows)
  BY <1>1 DEF ListStory, Distinct
<1>5. LockStory(c, Idle, rows) /\ WholeRun(c, Idle, rows)
  BY <1>1 DEF LockStory, WholeRun, Asked
<1>6. Owns(c, Idle, rows) /\ Counts(c, Idle, rows) /\ Lists(Idle) /\ OpenStory(c, Idle, rows)
  BY <1>1, Zenon DEF Owns, Counts, Lists, OpenStory
<1>7. Unapplied(c, Idle) = {} /\ Ended(Idle, rows) = {}
  BY <1>1 DEF Unapplied, Queued, Elements, Ended
<1>8. Follows(c, Idle, rows) /\ CommitStory(Idle, rows)
  BY <1>1, <1>7 DEF Follows, CommitStory
<1> QED BY <1>2, <1>3, <1>4, <1>5, <1>6, <1>8, Zenon DEF Story, WriteStory

(* A transaction that has written nothing, and its lists are empty.        *)
LEMMA NothingWritten ==
  ASSUME NEW c, NEW x, NEW rows, Mine(x) = {}, x.queue = <<>>, x.pc # "release", x.run = "same"
  PROVE  WriteStory(c, x, rows) /\ OpenStory(c, x, rows) /\ CommitStory(x, rows)
<1>1. Unapplied(c, x) = {} /\ Ended(x, rows) = {}
  BY DEF Unapplied, Queued, Elements, Ended
<1>2. Owns(c, x, rows) /\ Counts(c, x, rows) /\ Lists(x) /\ OpenStory(c, x, rows)
  BY Zenon DEF Owns, Counts, Lists, OpenStory
<1>3. Follows(c, x, rows) /\ CommitStory(x, rows)
  BY <1>1 DEF Follows, CommitStory
<1> QED BY <1>2, <1>3 DEF WriteStory

LEMMA SameMine ==
  ASSUME NEW x, NEW y, NEW rows, y.mine = x.mine
  PROVE  /\ Mine(y) = Mine(x) /\ See(y, rows) = See(x, rows) /\ Knows(y, rows) = Knows(x, rows)
         /\ Ended(y, rows) = Ended(x, rows)
BY Zenon DEF Mine, See, Knows, Ended

(* A statement that writes no row.                                         *)
LEMMA WritesKept ==
  ASSUME NEW c, NEW x, NEW y, NEW rows, y.mine = x.mine, x.held \subseteq y.held, Unapplied(c, y) = Unapplied(c, x),
         WriteStory(c, x, rows), OpenStory(c, x, rows),
         \A d \in Mine(x) : x.mine[d].status = "BLOCKED" /\ x.mine[d].pending = 0 => d \in y.ready
  PROVE  WriteStory(c, y, rows) /\ OpenStory(c, y, rows)
<1>1. /\ Mine(y) = Mine(x) /\ See(y, rows) = See(x, rows) /\ Knows(y, rows) = Knows(x, rows)
      /\ Ended(y, rows) = Ended(x, rows)
  BY SameMine
<1>2. \A s : HasStep(x, s) => HasStep(y, s)
  BY DEF HasStep
<1>3. Releases(x) => Releases(y)
  BY DEF Releases
<1>4. Owns(c, y, rows)
  BY <1>1, <1>2, Zenon DEF Owns, WriteStory
<1>5. Follows(c, y, rows)
  BY <1>1, Zenon DEF Follows, WriteStory
<1>6. Counts(c, y, rows)
  BY <1>1, Zenon DEF Counts, WriteStory
<1>7. Lists(y)
  BY <1>1, Zenon DEF Lists
<1>8. OpenStory(c, y, rows)
  BY <1>1, <1>2, <1>3, Zenon DEF OpenStory
<1> QED BY <1>4, <1>5, <1>6, <1>7, <1>8 DEF WriteStory

(* A lock is granted.                                                      *)
LEMMA LockKeeps ==
  ASSUME NEW c, NEW x, NEW y, NEW rows, Story(c, x, rows), NEW n \in x.want,
         y = Tx(x.pc, x.want \ {n}, x.held \cup {n}, x.mine, x.run, x.goal, x.queue, x.ready)
  PROVE  Story(c, y, rows)
<1>1. /\ y.pc = x.pc /\ y.want = x.want \ {n} /\ y.held = x.held \cup {n} /\ y.mine = x.mine /\ y.run = x.run
      /\ y.goal = x.goal /\ y.queue = x.queue /\ y.ready = x.ready
  BY DEF Tx
<1>2. Asked(y) = Asked(x) /\ x.held \subseteq y.held /\ y.want \subseteq x.want /\ x.want # {}
  BY <1>1 DEF Asked
<1>3. /\ Mine(y) = Mine(x) /\ See(y, rows) = See(x, rows) /\ Knows(y, rows) = Knows(x, rows)
      /\ Unapplied(c, y) = Unapplied(c, x)
  <2>1. Unapplied(c, y) = Unapplied(c, x)
    BY <1>1, Zenon DEF Unapplied, Queued, Elements
  <2> QED BY <1>1, <2>1, SameMine
<1>4. /\ \A s : HasStep(x, s) => HasStep(y, s)
      /\ HasRun(x) => HasRun(y)
      /\ Releases(x) => Releases(y)
      /\ Stops(x) => Stops(y)
  BY <1>2 DEF HasStep, HasRun, Releases, Stops
<1>5. TxTyped(y)
  <2>1. Mine(y) \subseteq Steps /\ \A s \in Mine(y) : y.mine[s] \in StepRow
    BY <1>1, <1>3 DEF Story, TxTyped
  <2>2. Shaped(y)
    BY <1>1 DEF Shaped
  <2> QED BY <1>1, <2>1, <2>2 DEF Story, TxTyped
<1>6. ControlStory(c, y, rows)
  <2>1. x.pc # "idle"
    BY <1>2 DEF Story, ControlStory, Idle
  <2> QED BY <1>1, <1>3, <1>4, <2>1, Zenon DEF Story, ControlStory
<1>7. ListStory(c, y, rows)
  BY <1>1, <1>3, Zenon DEF Story, ListStory
<1>8. LockStory(c, y, rows)
  BY <1>1, <1>2, <1>3, <1>4 DEF Story, LockStory
<1>9. WholeRun(c, y, rows)
  BY <1>1, <1>2, <1>3, <1>4 DEF Story, WholeRun
<1>10. WriteStory(c, y, rows) /\ OpenStory(c, y, rows)
  <2>1. \A d \in Mine(x) : x.mine[d].status = "BLOCKED" /\ x.mine[d].pending = 0 => d \in y.ready
    BY <1>1 DEF Story, WriteStory, Lists
  <2> QED BY <1>1, <1>2, <1>3, <2>1, WritesKept DEF Story
<1>11. CommitStory(y, rows)
  BY <1>1, <1>3, <1>4, ZenonT(40) DEF Story, CommitStory
<1> QED BY <1>5, <1>6, <1>7, <1>8, <1>9, <1>10, <1>11 DEF Story

-----------------------------------------------------------------------------
(* What a commit of another client does to a transaction.                  *)

Apart(x, z) == \A h \in x.held, k \in z.held : h.row = k.row => h.mode = "S" /\ k.mode = "S"

LEMMA ApartRows ==
  ASSUME NEW x, NEW z, Apart(x, z)
  PROVE  /\ \A s : ~(HasStep(x, s) /\ HasStep(z, s))
         /\ ~(HasRun(x) /\ HasRun(z))
         /\ ~(Releases(x) /\ Stops(z)) /\ ~(Stops(x) /\ Releases(z))
BY DEF Apart, HasStep, HasRun, Releases, Stops, Exclusive, Shared

(* Of what a transaction sees, its status only depends on what is open.    *)
LEMMA SameStatus ==
  ASSUME NEW rows, NEW rows2, DOMAIN rows = Steps, DOMAIN rows2 = Steps,
         \A s \in Steps : \/ rows[s].status = rows2[s].status
                          \/ {rows[s].status, rows2[s].status} \subseteq {"ENQUEUED", "RUNNING"}
  PROVE  StatusOf(rows) = StatusOf(rows2)
<1>1. \A S \in {{"BLOCKED", "ENQUEUED", "RUNNING"}, {"WAITING_FOR_EXTERNAL"}, {"FAILED", "CANCELED"}} :
        (\E s \in Steps : rows[s].status \in S) <=> (\E s \in Steps : rows2[s].status \in S)
  OBVIOUS
<1> QED BY <1>1, Zenon DEF StatusOf

(* z is at its commit: the rows it writes are not those of x.              *)
LEMMA CommitApart ==
  ASSUME NEW c \in Clients, NEW o \in Clients, c # o, NEW x, NEW z, NEW rows,
         Story(c, x, rows), Story(o, z, rows), z.pc = "commit", Apart(x, z)
  PROVE  /\ \A s \in Mine(z) : s \notin Mine(x) /\ ~HasStep(x, s) /\ Moves(rows[s], z.mine[s])
         /\ Unapplied(o, z) = {}
         /\ o[1] = "append" /\ Mine(z) # {} =>
              Mine(x) = {} /\ Releases(z) /\ (\A s \in Steps : ~HasStep(x, s)) /\ c[1] # "append"
         /\ o[1] # "append" => \A s \in Mine(z) : rows[s].status # "ABSENT"
<1>1. \A s \in Mine(z) : HasStep(z, s) /\ Moves(rows[s], z.mine[s])
  BY DEF Story, WriteStory, Owns
<1>2. \A s \in Mine(x) : HasStep(x, s)
  BY DEF Story, WriteStory, Owns
<1>3. \A s \in Mine(z) : s \notin Mine(x) /\ ~HasStep(x, s) /\ Moves(rows[s], z.mine[s])
  BY <1>1, <1>2, ApartRows
<1>4. Unapplied(o, z) = {}
  <2>1. z.queue = <<>>
    BY DEF Story, ListStory
  <2> QED BY <2>1 DEF Unapplied, Queued, Elements
<1>5. ASSUME o[1] = "append", Mine(z) # {}
      PROVE  Mine(x) = {} /\ Releases(z) /\ (\A s \in Steps : ~HasStep(x, s)) /\ c[1] # "append"
  <2>1. Releases(z)
    BY <1>5 DEF Story, OpenStory
  <2>2. c[1] # "append"
    BY <1>5, ClientKinds
  <2>3. ASSUME NEW s \in Steps, HasStep(x, s) PROVE FALSE
    <3>1. s \in Knows(x, rows)
      BY <2>3 DEF HasStep, Story, LockStory, Asked
    <3>2. rows[s].status # "ABSENT"
      BY <2>2, <3>1, KnowsRow DEF Story, WriteStory, Owns
    <3>3. s \in Knows(z, rows)
      BY <3>2, KnowsRow DEF Story, WriteStory
    <3>4. HasStep(z, s)
      BY <1>5, <3>3 DEF Story, WholeRun
    <3> QED BY <2>3, <3>4, ApartRows
  <2>4. Mine(x) \subseteq Steps
    BY DEF Story, TxTyped
  <2> QED BY <1>2, <2>1, <2>2, <2>3, <2>4
<1>6. o[1] # "append" => \A s \in Mine(z) : rows[s].status # "ABSENT"
  BY DEF Story, WriteStory, Owns
<1> QED BY <1>3, <1>4, <1>5, <1>6

(* What x sees after the commit of z.                                      *)
LEMMA SeeCommit ==
  ASSUME NEW x, NEW z, NEW rows, NEW s \in Steps, Mine(z) \subseteq Steps, \A r \in Mine(z) : r \notin Mine(x)
  PROVE  /\ s \in Mine(z) => See(z, rows)[s] = z.mine[s] /\ See(x, See(z, rows))[s] = z.mine[s] /\ See(x, rows)[s] = rows[s]
         /\ s \notin Mine(z) => See(z, rows)[s] = rows[s] /\ See(x, See(z, rows))[s] = See(x, rows)[s]
<1>1. CASE s \in Mine(z)
  BY <1>1, SeeRow
<1>2. CASE s \notin Mine(z)
  BY <1>2, SeeRow
<1> QED BY <1>1, <1>2

(* x knows the steps that it knew, except for those that were appended.    *)
LEMMA KnowsCommit ==
  ASSUME NEW c \in Clients, NEW o \in Clients, c # o, NEW x, NEW z, NEW rows,
         Story(c, x, rows), Story(o, z, rows), z.pc = "commit", Apart(x, z)
  PROVE  /\ Knows(x, rows) \subseteq Knows(x, See(z, rows))
         /\ o[1] # "append" \/ Mine(z) = {} => Knows(x, See(z, rows)) = Knows(x, rows)
<1>1. Mine(z) \subseteq Steps /\ \A r \in Mine(z) : r \notin Mine(x) /\ Moves(rows[r], z.mine[r])
  BY CommitApart DEF Story, TxTyped
<1>2. ASSUME NEW s \in Steps
      PROVE  /\ s \in Knows(x, rows) => s \in Knows(x, See(z, rows))
             /\ o[1] # "append" \/ Mine(z) = {} => (s \in Knows(x, See(z, rows)) => s \in Knows(x, rows))
  <2>1. CASE s \in Mine(z)
    <3>1. See(x, See(z, rows))[s].status # "ABSENT"
      BY <1>1, <2>1, SeeCommit DEF Moves
    <3>2. o[1] # "append" => See(x, rows)[s].status # "ABSENT"
      <4>1. o[1] # "append" => rows[s].status # "ABSENT"
        BY <2>1, CommitApart
      <4>2. See(x, rows)[s] = rows[s]
        BY <1>1, <2>1, SeeCommit
      <4> QED BY <4>1, <4>2
    <3> QED BY <2>1, <3>1, <3>2 DEF Knows
  <2>2. CASE s \notin Mine(z)
    BY <1>1, <2>2, SeeCommit DEF Knows
  <2> QED BY <2>1, <2>2
<1>3. Knows(x, rows) \subseteq Steps /\ Knows(x, See(z, rows)) \subseteq Steps
  BY DEF Knows
<1> QED BY <1>2, <1>3

LEMMA Rely ==
  ASSUME NEW c \in Clients, NEW o \in Clients, c # o, NEW x, NEW z, NEW rows,
         Story(c, x, rows), Story(o, z, rows), z.pc = "commit", Apart(x, z)
  PROVE  Story(c, x, See(z, rows))
<1> DEFINE new == See(z, rows)
<1>1. Mine(z) \subseteq Steps /\ Mine(x) \subseteq Steps /\ TxTyped(x)
  BY DEF Story, TxTyped
<1>2. /\ \A s \in Mine(z) : s \notin Mine(x) /\ ~HasStep(x, s) /\ Moves(rows[s], z.mine[s])
      /\ Unapplied(o, z) = {}
      /\ o[1] = "append" /\ Mine(z) # {} =>
              Mine(x) = {} /\ Releases(z) /\ (\A s \in Steps : ~HasStep(x, s)) /\ c[1] # "append"
      /\ o[1] # "append" => \A s \in Mine(z) : rows[s].status # "ABSENT"
  BY CommitApart
<1>3. ASSUME NEW s \in Mine(x) PROVE new[s] = rows[s]
  <2>1. s \in Steps /\ s \notin Mine(z)
    BY <1>1, <1>2
  <2> QED BY <2>1, SeeRow
<1>4. /\ Knows(x, rows) \subseteq Knows(x, new)
      /\ o[1] # "append" \/ Mine(z) = {} => Knows(x, new) = Knows(x, rows)
  BY KnowsCommit
<1>5. Ended(x, new) = Ended(x, rows)
  BY <1>3, Zenon DEF Ended
<1>6. ControlStory(c, x, new)
  BY Zenon DEF Story, ControlStory
<1>7. ListStory(c, x, new)
  <2>1. CASE Knows(x, new) = Knows(x, rows)
    BY <2>1, Zenon DEF Story, ListStory
  <2>2. CASE Knows(x, new) # Knows(x, rows)
    <3>1. Mine(x) = {}
      BY <1>2, <1>4, <2>2
    <3>2. x.queue = <<>>
      <4>1. Queued(x) = {}
        BY <3>1 DEF Story, WriteStory, Follows, Unapplied, Ended
      <4>2. x.queue \in Seq(Steps)
        BY DEF Story, TxTyped
      <4>3. x.queue # <<>> => 1 \in DOMAIN x.queue
        BY <4>2
      <4> QED BY <4>1, <4>3 DEF Queued, Elements
    <3> QED BY <3>2, Zenon DEF Story, ListStory
  <2> QED BY <2>1, <2>2
<1>8. LockStory(c, x, new)
  <2>1. x.pc = "step" => rows[c[2]].job = TRUE /\ c[2] \in Steps
    BY ClientKinds DEF Story, LockStory, ControlStory
  <2>2. x.pc = "step" => new[c[2]].job = TRUE
    <3>1. c[2] \in Mine(z) /\ c[2] \in Steps => new[c[2]] = z.mine[c[2]] /\ Moves(rows[c[2]], z.mine[c[2]])
      BY <1>2, SeeRow
    <3>2. c[2] \notin Mine(z) /\ c[2] \in Steps => new[c[2]] = rows[c[2]]
      BY SeeRow
    <3> QED BY <2>1, <3>1, <3>2 DEF Moves
  <2> QED BY <1>4, <2>2 DEF Story, LockStory
<1>9. WholeRun(c, x, new)
  <2>1. CASE Knows(x, new) = Knows(x, rows)
    BY <2>1, Zenon DEF Story, WholeRun
  <2>2. CASE Knows(x, new) # Knows(x, rows)
    <3>1. c[1] # "append" /\ Releases(z)
      BY <1>2, <1>4, <2>2
    <3>2. x.pc \notin {"cancel_jobs_again", "cancel_steps", "cancel_run", "sweep"}
      BY <3>1, ApartRows DEF Story, WholeRun
    <3> QED BY <3>1, <3>2 DEF Story, WholeRun
  <2> QED BY <2>1, <2>2
<1>10. Owns(c, x, new)
  BY <1>3, Zenon DEF Story, WriteStory, Owns
<1>11. Follows(c, x, new)
  <2>1. CASE Knows(x, new) = Knows(x, rows)
    BY <1>5, <2>1, Zenon DEF Story, WriteStory, Follows
  <2>2. CASE Knows(x, new) # Knows(x, rows)
    <3>1. Mine(x) = {}
      BY <1>2, <1>4, <2>2
    <3>2. Ended(x, new) = {}
      BY <3>1 DEF Ended
    <3> QED BY <1>5, <3>2 DEF Story, WriteStory, Follows
  <2> QED BY <2>1, <2>2
<1>12. Counts(c, x, new)
  <2>1. ASSUME NEW d \in Mine(x)
        PROVE  /\ Pending(See(x, new), Unapplied(c, x), d) = Pending(See(x, rows), Unapplied(c, x), d)
               /\ Unsatisfied(See(x, new), Unapplied(c, x), d) = Unsatisfied(See(x, rows), Unapplied(c, x), d)
    <3>1. ASSUME NEW p \in Prereqs(d), p \in Mine(z) PROVE p \notin Ended(z, rows)
      <4>1. o[1] # "append" /\ rows[p].status # "ABSENT"
        BY <1>2, <2>1, <3>1
      <4>2. p \in Knows(x, rows) /\ p \in Steps
        BY <1>1, <3>1, <4>1, KnowsRow DEF Story, WriteStory
      <4>3. c[1] # "append"
        <5>1. x.pc \notin {"idle", "steps"}
          BY <2>1 DEF Story, ControlStory, Reading
        <5> QED BY <1>2, <3>1, <4>2, <5>1 DEF Story, WholeRun
      <4>4. d \in Knows(z, rows)
        BY <1>1, <2>1, <4>3, KnowsRow DEF Story, WriteStory, Owns
      <4>5. d \notin Mine(z)
        BY <1>2, <2>1
      <4> QED BY <1>2, <4>4, <4>5 DEF Story, WriteStory, Follows
    <3>2. ASSUME NEW p \in Prereqs(d)
          PROVE  /\ See(x, new)[p].status \in Terminal <=> See(x, rows)[p].status \in Terminal
                 /\ See(x, rows)[p].status \in Terminal => See(x, new)[p].status = See(x, rows)[p].status
      <4>1. p \in Steps
        BY PrereqsAre
      <4>2. CASE p \in Mine(z)
        <5>1. See(x, new)[p] = z.mine[p] /\ See(x, rows)[p] = rows[p] /\ See(z, rows)[p] = z.mine[p]
          BY <1>1, <1>2, <4>1, <4>2, SeeCommit
        <5>2. p \notin Ended(z, rows)
          BY <3>1, <4>2
        <5>3. TxTyped(z) /\ Owns(o, z, rows)
          BY DEF Story, WriteStory
        <5> QED BY <4>1, <5>1, <5>2, <5>3, SeeEnded
      <4>3. CASE p \notin Mine(z)
        BY <1>1, <1>2, <4>1, <4>3, SeeCommit
      <4> QED BY <4>2, <4>3
    <3>3. {"FAILED", "CANCELED"} \subseteq Terminal
      BY DEF Terminal
    <3>4. \A p \in Prereqs(d) :
           /\ See(x, new)[p].status \notin Terminal \/ p \in Unapplied(c, x) <=>
                See(x, rows)[p].status \notin Terminal \/ p \in Unapplied(c, x)
           /\ See(x, new)[p].status \in {"FAILED", "CANCELED"} /\ p \notin Unapplied(c, x) <=>
                See(x, rows)[p].status \in {"FAILED", "CANCELED"} /\ p \notin Unapplied(c, x)
      BY <3>2, <3>3, Zenon
    <3> HIDE DEF new
    <3> QED BY <3>4, SameCounters
  <2> QED BY <2>1, Zenon DEF Story, WriteStory, Counts
<1>13. OpenStory(c, x, new)
  <2>1. Mine(x) # {} /\ c[1] = "append" => new[Window] = rows[Window]
    <3>1. Mine(x) # {} /\ c[1] = "append" => Window \in Steps /\ HasStep(x, Window)
      BY LocksAssumption DEF Story, OpenStory
    <3> QED BY <1>1, <1>2, <3>1, SeeCommit
  <2> QED BY <1>3, <2>1, Zenon DEF Story, OpenStory
<1>14. CommitStory(x, new)
  <2>1. ASSUME x.run # "same"
        PROVE  Knows(x, new) = Knows(x, rows) /\ StatusOf(See(x, new)) = StatusOf(See(x, rows))
    <3>1. z.run = "same"
      BY <2>1, ApartRows DEF Story, CommitStory
    <3>2. \A s \in Mine(z) : {rows[s].status, z.mine[s].status} \subseteq {"ENQUEUED", "RUNNING"}
      BY <3>1 DEF Story, CommitStory
    <3>3. ASSUME NEW s \in Steps
          PROVE  \/ See(x, new)[s].status = See(x, rows)[s].status
                 \/ {See(x, new)[s].status, See(x, rows)[s].status} \subseteq {"ENQUEUED", "RUNNING"}
      <4>1. CASE s \in Mine(z)
        <5>1. See(x, new)[s] = z.mine[s] /\ See(x, rows)[s] = rows[s]
          BY <1>1, <1>2, <4>1, SeeCommit
        <5> QED BY <3>2, <4>1, <5>1
      <4>2. CASE s \notin Mine(z)
        BY <1>1, <1>2, <4>2, SeeCommit
      <4> QED BY <4>1, <4>2
    <3>4. DOMAIN See(x, new) = Steps /\ DOMAIN See(x, rows) = Steps
      BY DEF See
    <3>5. StatusOf(See(x, new)) = StatusOf(See(x, rows))
      <4> HIDE DEF new
      <4> QED BY <3>3, <3>4, SameStatus
    <3>6. Knows(x, new) = Knows(x, rows)
      <4> HIDE DEF new
      <4> QED BY <3>3 DEF Knows
    <3> QED BY <3>5, <3>6
  <2> QED BY <1>3, <2>1, Zenon DEF Story, CommitStory
<1> QED BY <1>1, <1>6, <1>7, <1>8, <1>9, <1>10, <1>11, <1>12, <1>13, <1>14, Zenon DEF Story, WriteStory, Lists

(* What a commit makes of the committed rows.                              *)
LEMMA CommitSound ==
  ASSUME NEW o, NEW z, NEW rows \in [Steps -> StepRow], NEW status, Story(o, z, rows), z.pc = "commit", Sound(rows, status)
  PROVE  Sound(See(z, rows), IF z.run = "same" THEN status ELSE z.run)
<1> DEFINE new == See(z, rows)
           status2 == IF z.run = "same" THEN status ELSE z.run
<1>1. /\ Mine(z) \subseteq Steps /\ TxTyped(z) /\ Owns(o, z, rows) /\ Follows(o, z, rows) /\ Counts(o, z, rows) /\ Lists(z)
      /\ CommitStory(z, rows)
  BY DEF Story, TxTyped, WriteStory
<1>2. Unapplied(o, z) = {} /\ z.ready = {}
  <2>1. z.queue = <<>> /\ z.ready = {}
    BY DEF Story, ListStory
  <2> QED BY <2>1 DEF Unapplied, Queued, Elements
<1>3. \A s \in Steps : (s \in Mine(z) => new[s] = z.mine[s] /\ Moves(rows[s], z.mine[s])) /\ (s \notin Mine(z) => new[s] = rows[s])
  BY <1>1, SeeRow DEF Owns
<1>4. Agree(new)
  <2>1. ASSUME NEW d \in Steps, new[d].status # "ABSENT"
        PROVE  /\ new[d].pending = Cardinality(Pending(new, {}, d))
               /\ new[d].unsatisfied = Cardinality(Unsatisfied(new, {}, d))
    <3>1. Agree(rows) /\ d \in Knows(z, rows)
      BY <2>1 DEF Sound, Knows
    <3>2. /\ new[d].pending = Cardinality(Pending(new, Unapplied(o, z), d))
          /\ new[d].unsatisfied = Cardinality(Unsatisfied(new, Unapplied(o, z), d))
      BY <1>1, <3>1, CountersInView
    <3> HIDE DEF new
    <3> QED BY <1>2, <3>2, Zenon
  <2> QED BY <2>1 DEF Agree
<1>5. ASSUME NEW d \in Steps
      PROVE  /\ new[d].status = "BLOCKED" => new[d].pending # 0 /\ new[d].job = FALSE
             /\ new[d].status \in {"ENQUEUED", "RUNNING"} => new[d].job = TRUE
             /\ new[d].status = "ABSENT" => new[d].job = FALSE
  <2>1. CASE d \in Mine(z)
    <3>1. new[d] = z.mine[d] /\ Moves(rows[d], z.mine[d])
      BY <1>3, <2>1
    <3>2. ~(z.mine[d].status = "BLOCKED" /\ z.mine[d].pending = 0)
      BY <1>1, <1>2, <2>1 DEF Lists
    <3> QED BY <3>1, <3>2 DEF Moves
  <2>2. CASE d \notin Mine(z)
    BY <1>3, <2>2 DEF Sound
  <2> QED BY <2>1, <2>2
<1>6. ASSUME z.run = "same"
      PROVE  \A s \in Steps : \/ new[s].status = rows[s].status
                              \/ {new[s].status, rows[s].status} \subseteq {"ENQUEUED", "RUNNING"}
  BY <1>1, <1>3, <1>6 DEF CommitStory
<1>7. status2 = "CANCELED" => \A s \in Steps : new[s].status \in Terminal \cup {"ABSENT"}
  <2>1. CASE z.run = "same"
    BY <1>6, <2>1 DEF Sound, Terminal
  <2>2. CASE z.run # "same"
    <3>1. z.run = "CANCELED" => \A s \in Knows(z, rows) : s \in Mine(z) /\ z.mine[s].status \in Terminal
      BY <1>1 DEF CommitStory
    <3>2. \A s \in Steps : s \in Knows(z, rows) \/ new[s].status = "ABSENT"
      BY DEF Knows
    <3> QED BY <1>3, <2>2, <3>1, <3>2
  <2> QED BY <2>1, <2>2
<1>8. status2 # "CANCELED" => status2 = StatusOf(new)
  <2>1. CASE z.run = "same"
    <3>1. DOMAIN new = Steps /\ DOMAIN rows = Steps
      BY DEF See
    <3>2. StatusOf(new) = StatusOf(rows)
      <4> HIDE DEF new
      <4> QED BY <1>6, <2>1, <3>1, SameStatus
    <3> QED BY <2>1, <3>2 DEF Sound
  <2>2. CASE z.run # "same"
    BY <1>1, <2>2 DEF CommitStory
  <2> QED BY <2>1, <2>2
<1> HIDE DEF new, status2
<1>9. Sound(new, status2)
  BY <1>4, <1>5, <1>7, <1>8, Zenon DEF Sound
<1> QED BY <1>9 DEF new, status2

LEMMA SeeTyped ==
  ASSUME NEW x, NEW rows \in [Steps -> StepRow], TxTyped(x)
  PROVE  See(x, rows) \in [Steps -> StepRow]
BY DEF See, TxTyped, Mine

(* While a client other than a cancellation writes, the run is open.       *)
LEMMA RunIsOpen ==
  ASSUME NEW c \in Clients, NEW x, NEW rows \in [Steps -> StepRow], NEW status, OpenStory(c, x, rows), Sound(rows, status),
         Mine(x) # {}, c[1] # "cancel"
  PROVE  status \in OpenRun
<1>1. PICK s \in Steps : rows[s].status \in Open
  <2>1. CASE c[1] \in {"job", "external"}
    BY <2>1, ClientKinds DEF OpenStory
  <2>2. CASE c[1] = "append"
    BY <2>2, LocksAssumption DEF OpenStory, Open
  <2> QED BY <2>1, <2>2, ClientKinds
<1>2. status # "CANCELED"
  BY <1>1 DEF Sound, Terminal, Open
<1>3. status = StatusOf(rows)
  BY <1>2 DEF Sound
<1> QED BY <1>1, <1>3 DEF StatusOf, Open, OpenRun

-----------------------------------------------------------------------------
(* The statements of a transaction keep its story.                         *)

(* c goes on as y.                                                         *)
Goes(c, y) == tx' = [tx EXCEPT ![c] = y] /\ UNCHANGED <<step, run, jobs, tries>>

(* c goes on as y, which has a story and locks that nobody else has.       *)
Keeps(c, y) ==
  /\ tx' = [tx EXCEPT ![c] = y] /\ UNCHANGED <<step, run>> /\ jobs' \in [Steps -> Nat]
  /\ Story(c, y, step)
  /\ \A o \in Clients \ {c} : Apart(y, tx[o])

LEMMA Fields ==
  ASSUME NEW pc, NEW want, NEW held, NEW mine, NEW status, NEW goal, NEW queue, NEW ready, NEW y,
         y = Tx(pc, want, held, mine, status, goal, queue, ready)
  PROVE  /\ y.pc = pc /\ y.want = want /\ y.held = held /\ y.mine = mine /\ y.run = status
         /\ y.goal = goal /\ y.queue = queue /\ y.ready = ready
         /\ Shaped(y)
BY DEF Tx, Shaped

LEMMA GoesOn ==
  ASSUME NEW c, NEW t, NEW pc, NEW want,
         Shaped(t), GoTo(c, t, pc, want)
  PROVE  Goes(c, Tx(pc, want, t.held, t.mine, t.run, t.goal, t.queue, t.ready))
<1>1. [t EXCEPT !.pc = pc, !.want = want] = Tx(pc, want, t.held, t.mine, t.run, t.goal, t.queue, t.ready)
  <2>1. PICK held, mine, status, goal, queue, ready :
          /\ held = t.held /\ mine = t.mine /\ status = t.run /\ goal = t.goal /\ queue = t.queue /\ ready = t.ready
    BY Zenon
  <2>2. PICK p, w : t = Tx(p, w, held, mine, status, goal, queue, ready)
    BY <2>1, Zenon DEF Shaped
  <2>3. PICK u : u = [Tx(p, w, held, mine, status, goal, queue, ready) EXCEPT !.pc = pc, !.want = want]
    OBVIOUS
  <2>4. u = Tx(pc, want, held, mine, status, goal, queue, ready)
    BY <2>3 DEF Tx
  <2> QED BY <2>1, <2>2, <2>3, <2>4, Zenon
<1> QED BY <1>1, Zenon DEF GoTo, Goes

LEMMA ViewIs ==
  ASSUME NEW c, NEW x, x = tx[c]
  PROVE  View(c) = See(x, step) /\ Known(c) = Knows(x, step)
BY Zenon DEF View, Known, See, Knows

LEMMA ApartNow ==
  ASSUME LocksInv, NEW c \in Clients, NEW y, y.held \subseteq tx[c].held
  PROVE  \A o \in Clients \ {c} : Apart(y, tx[o])
BY DEF LocksInv, LocksApart, Apart

(* A statement of a transaction that has only read.                        *)
LEMMA ReadStory ==
  ASSUME NEW c, NEW y, NEW rows, TxTyped(y), Mine(y) = {}, y.queue = <<>>, y.ready = {}, y.run = "same",
         y.pc \in Reading \cup {"commit"}, ControlStory(c, y, rows), LockStory(c, y, rows), WholeRun(c, y, rows)
  PROVE  Story(c, y, rows)
<1>1. y.pc \notin {"cascade", "dependents", "allows", "release"}
  BY DEF Reading, Canceling
<1>2. ListStory(c, y, rows)
  BY <1>1 DEF ListStory, Distinct
<1>3. WriteStory(c, y, rows) /\ OpenStory(c, y, rows) /\ CommitStory(y, rows)
  BY <1>1, NothingWritten
<1> QED BY <1>2, <1>3 DEF Story

LEMMA ReadKeeps ==
  ASSUME LocksInv, NEW c \in Clients, NEW x, x = tx[c], x.pc \in Reading, NEW pc \in Reading \cup {"commit"},
         NEW want \in SUBSET Locks, GoTo(c, x, pc, want),
         NEW y, y = Tx(pc, want, x.held, x.mine, x.run, x.goal, x.queue, x.ready),
         ControlStory(c, y, step), LockStory(c, y, step), WholeRun(c, y, step)
  PROVE  Keeps(c, y)
<1>1. /\ y.pc = pc /\ y.want = want /\ y.held = x.held /\ y.mine = x.mine /\ y.run = x.run
      /\ y.goal = x.goal /\ y.queue = x.queue /\ y.ready = x.ready
      /\ Shaped(y)
  BY Fields
<1>2. Story(c, x, step) /\ TxTyped(x)
  BY DEF LocksInv, Story
<1>3. x.pc \notin {"cascade", "dependents", "allows", "commit"} /\ pc \in Pcs
  BY DEF Reading, Canceling, Pcs
<1>4. Mine(x) = {} /\ x.queue = <<>> /\ x.ready = {} /\ x.run = "same"
  BY <1>2, <1>3 DEF Story, ControlStory, ListStory
<1>5. Mine(y) = {}
  BY <1>1, <1>4 DEF Mine
<1>6. TxTyped(y)
  BY <1>1, <1>2, <1>3, <1>5, Zenon DEF TxTyped
<1>7. Story(c, y, step)
  BY <1>1, <1>4, <1>5, <1>6, ReadStory
<1>8. Goes(c, y)
  BY <1>2, GoesOn DEF TxTyped
<1>9. \A o \in Clients \ {c} : Apart(y, tx[o])
  BY <1>1, ApartNow
<1> QED BY <1>7, <1>8, <1>9 DEF Keeps, Goes, LocksInv, RowsTyped

LEMMA EachIs ==
  ASSUME NEW kind, NEW set
  PROVE  /\ \A s : Exclusive(kind, s) \in Each(kind, set) <=> s \in set
         /\ \A k, s : k # kind => Exclusive(k, s) \notin Each(kind, set)
         /\ \A l \in Each(kind, set) : \E s \in set : l = Exclusive(kind, s)
BY DEF Each, Exclusive

LEMMA ExclusiveLocks ==
  /\ \A s \in Steps : Exclusive("job", s) \in Locks /\ Exclusive("step", s) \in Locks
  /\ Exclusive("run", 0) \in Locks /\ Exclusive("release", 0) \in Locks
  /\ Shared("run") \in Locks /\ Shared("release") \in Locks
  /\ \A S \in SUBSET Steps : Each("job", S) \subseteq Locks /\ Each("step", S) \subseteq Locks
  /\ \A k, l, s, t : Exclusive(k, s) = Exclusive(l, t) <=> k = l /\ s = t
  /\ \A k, l, s : Exclusive(k, s) # Shared(l)
  /\ \A k, l : k # l => Shared(k) # Shared(l)
BY DEF Exclusive, Shared, Locks, Each

(* A transaction begins.                                                   *)
LEMMA BeginKeeps ==
  ASSUME LocksInv, NEW c \in Clients, NEW goal, NEW pc \in {"job", "steps", "cancel_jobs"}, NEW want \in SUBSET Locks,
         Begin(c, goal, pc, want),
         pc = "job" => c[1] = "job",
         pc = "steps" => c[1] \in {"external", "append"},
         pc = "cancel_jobs" => c[1] = "cancel",
         c[1] = "external" => goal \in {"SUCCEEDED", "FAILED"},
         \A s \in Steps : Exclusive("step", s) \in want => step[s].status # "ABSENT",
         c[1] = "append" => \A s \in Steps : step[s].status # "ABSENT" => Exclusive("step", s) \in want
  PROVE  \E y : Keeps(c, y)
<1>1. PICK t : t = [Idle EXCEPT !.goal = goal]
  OBVIOUS
<1>2. t = Tx("idle", {}, {}, NoRows, "same", goal, <<>>, {})
  BY <1>1 DEF Idle, Tx
<1>3. /\ t.held = {} /\ t.mine = NoRows /\ t.run = "same" /\ t.goal = goal /\ t.queue = <<>> /\ t.ready = {}
      /\ Shaped(t)
  BY <1>2, Fields
<1>4. GoTo(c, t, pc, want)
  BY <1>1, Zenon DEF Begin
<1>5. PICK y : y = Tx(pc, want, {}, NoRows, "same", goal, <<>>, {})
  OBVIOUS
<1>6. /\ y.pc = pc /\ y.want = want /\ y.held = {} /\ y.mine = NoRows /\ y.run = "same"
      /\ y.goal = goal /\ y.queue = <<>> /\ y.ready = {}
      /\ Shaped(y)
  BY <1>5, Fields
<1>7. Goes(c, y)
  BY <1>3, <1>4, <1>5, GoesOn
<1>8. Mine(y) = {}
  BY <1>6 DEF Mine, NoRows
<1>9. Knows(y, step) = {s \in Steps : step[s].status # "ABSENT"}
  BY <1>8, SeeRow DEF Knows
<1>10. TxTyped(y)
  <2>1. y.pc \in Pcs /\ y.queue \in Seq(Steps)
    BY <1>6 DEF Pcs, Reading, Canceling
  <2> QED BY <1>6, <1>8, <2>1, Zenon DEF TxTyped
<1>11. ControlStory(c, y, step)
  BY <1>6, <1>8 DEF ControlStory, Canceling, Cascading
<1>12. LockStory(c, y, step)
  BY <1>6, <1>9 DEF LockStory, Asked
<1>13. WholeRun(c, y, step)
  BY <1>6, <1>9 DEF WholeRun, Asked
<1>14. Story(c, y, step)
  BY <1>6, <1>8, <1>10, <1>11, <1>12, <1>13, ReadStory DEF Reading, Canceling
<1>15. \A o \in Clients \ {c} : Apart(y, tx[o])
  BY <1>6 DEF Apart
<1> QED BY <1>7, <1>14, <1>15 DEF Keeps, Goes, LocksInv, RowsTyped

LEMMA AskedIsHeld ==
  ASSUME NEW x, x.want = {}
  PROVE  Asked(x) = x.held
BY DEF Asked

(* A transaction that has nothing to do.                                   *)
LEMMA QuitKeeps ==
  ASSUME LocksInv, NEW c \in Clients, tx[c].pc \in Reading, tx[c].want = {}, GoTo(c, tx[c], "commit", {})
  PROVE  \E y : Keeps(c, y)
<1>1. PICK x : x = tx[c]
  OBVIOUS
<1>2. PICK y : y = Tx("commit", {}, x.held, x.mine, x.run, x.goal, x.queue, x.ready)
  OBVIOUS
<1>3. /\ y.pc = "commit" /\ y.want = {} /\ y.held = x.held /\ y.mine = x.mine /\ y.run = x.run
      /\ y.goal = x.goal /\ y.queue = x.queue /\ y.ready = x.ready
  BY <1>2, Fields
<1>4. Story(c, x, step) /\ x.pc # "idle"
  BY <1>1 DEF LocksInv, Reading, Canceling
<1>5. Knows(y, step) = Knows(x, step) /\ Mine(y) = Mine(x)
  BY <1>3, SameMine
<1>6. Asked(y) = x.held /\ Asked(x) = x.held
  BY <1>1, <1>3, AskedIsHeld
<1>7. ControlStory(c, y, step)
  BY <1>1, <1>3, <1>4, <1>5 DEF Story, ControlStory, Reading, Canceling, Cascading
<1>8. LockStory(c, y, step)
  BY <1>3, <1>4, <1>5, <1>6 DEF Story, LockStory
<1>9. WholeRun(c, y, step)
  BY <1>1, <1>3, <1>4, <1>5, <1>6 DEF Story, WholeRun, HasStep
<1>10. {} \in SUBSET Locks
  OBVIOUS
<1> QED BY <1>1, <1>2, <1>7, <1>8, <1>9, <1>10, ReadKeeps

(* The next statement of a transaction that has only read.                 *)
LEMMA NextRead ==
  ASSUME LocksInv, NEW c \in Clients, NEW x, x = tx[c], x.pc \in Reading, x.want = {},
         NEW pc \in Reading, NEW want \in SUBSET Locks, GoTo(c, x, pc, want),
         pc = "step" => c[1] = "job" /\ Exclusive("step", c[2]) \in want /\ step[c[2]].job = TRUE,
         pc = "external_step" => c[1] = "external" /\ Exclusive("step", c[2]) \in want,
         pc = "external" => c[1] = "external" /\ HasStep(x, c[2]),
         pc = "append" => c[1] = "append",
         pc \in Canceling => c[1] = "cancel",
         pc \notin {"job", "steps"},
         \A s \in Steps : Exclusive("step", s) \in want => s \in Knows(x, step),
         pc = "cancel_release" => Exclusive("release", 0) \in want,
         pc \in {"cancel_jobs_again", "cancel_steps", "cancel_run", "sweep"} => Stops(x),
         pc = "cancel_steps" => \A s \in Knows(x, step) : Exclusive("step", s) \in want,
         pc \in {"cancel_run", "sweep"} => \A s \in Knows(x, step) : HasStep(x, s),
         pc = "cancel_run" => Exclusive("run", 0) \in want,
         pc = "sweep" => HasRun(x) /\ want = {}
  PROVE  \E y : Keeps(c, y)
<1>2. PICK y : y = Tx(pc, want, x.held, x.mine, x.run, x.goal, x.queue, x.ready)
  OBVIOUS
<1>3. /\ y.pc = pc /\ y.want = want /\ y.held = x.held /\ y.mine = x.mine /\ y.run = x.run
      /\ y.goal = x.goal /\ y.queue = x.queue /\ y.ready = x.ready
  BY <1>2, Fields
<1>4. Story(c, x, step) /\ x.pc \notin {"idle", "commit"} /\ pc \notin {"idle", "release", "commit"} \cup Cascading
  BY DEF LocksInv, Reading, Canceling, Cascading
<1>5. Knows(y, step) = Knows(x, step) /\ Mine(y) = Mine(x)
  BY <1>3, SameMine
<1>6. Asked(y) = x.held \cup want /\ Asked(x) = x.held
  BY <1>3, AskedIsHeld DEF Asked
<1>7. ControlStory(c, y, step)
  BY <1>3, <1>4, <1>5 DEF Story, ControlStory
<1>8. LockStory(c, y, step)
  BY <1>3, <1>4, <1>5, <1>6 DEF Story, LockStory, HasStep, Cascading
<1>9. WholeRun(c, y, step)
  BY <1>3, <1>4, <1>5, <1>6 DEF Story, WholeRun, HasStep, HasRun, Stops
<1> QED BY <1>2, <1>7, <1>8, <1>9, ReadKeeps

LEMMA StepRowsAre ==
  ASSUME NEW c, NEW x, x = tx[c]
  PROVE  /\ StepRows(c) \in SUBSET Locks /\ JobRows(c) \in SUBSET Locks
         /\ \A s : Exclusive("step", s) \in StepRows(c) <=> s \in Knows(x, step)
         /\ \A s : Exclusive("step", s) \notin JobRows(c)
<1>1. Known(c) = Knows(x, step) /\ Known(c) \in SUBSET Steps
  BY ViewIs DEF Knows
<1>2. {s \in Steps : View(c)[s].job} \in SUBSET Steps
  OBVIOUS
<1> QED BY <1>1, <1>2, EachIs, ExclusiveLocks DEF StepRows, JobRows

LEMMA JobReads ==
  ASSUME LocksInv, NEW c \in Clients, c[1] = "job", BeginJob(c, c[2]) \/ JobLocked(c, c[2])
  PROVE  \E y : Keeps(c, y)
<1>1. c[2] \in Steps
  BY ClientKinds
<1>2. CASE BeginJob(c, c[2])
  <2>1. PICK goal : Begin(c, goal, "job", {Exclusive("job", c[2])})
    BY <1>2, Zenon DEF BeginJob
  <2>2. {Exclusive("job", c[2])} \in SUBSET Locks /\ \A s : Exclusive("step", s) \notin {Exclusive("job", c[2])}
    BY <1>1, ExclusiveLocks
  <2> QED BY <2>1, <2>2, BeginKeeps
<1>3. CASE JobLocked(c, c[2])
  <2>1. tx[c].pc = "job" /\ tx[c].want = {} /\ tx[c].pc \in Reading
    BY <1>3 DEF JobLocked, At, Reading
  <2>2. CASE GoTo(c, tx[c], "commit", {})
    BY <2>1, <2>2, QuitKeeps
  <2>3. CASE step[c[2]].status \in {"ENQUEUED", "RUNNING"} /\ GoTo(c, tx[c], "step", {Exclusive("step", c[2])})
    <3>1. PICK x : x = tx[c]
      OBVIOUS
    <3>2. step[c[2]].job = TRUE
      BY <1>1, <2>3 DEF LocksInv, Sound
    <3>3. Story(c, x, step) /\ Mine(x) = {}
      BY <2>1, <3>1 DEF LocksInv, Story, ControlStory
    <3>4. c[2] \in Knows(x, step)
      BY <1>1, <2>3, <3>3, SeeRow DEF Knows
    <3>5. PICK want \in SUBSET Locks : want = {Exclusive("step", c[2])}
      <4>1. {Exclusive("step", c[2])} \in SUBSET Locks
        BY <1>1, ExclusiveLocks
      <4> QED BY <4>1, Zenon
    <3>6. Exclusive("step", c[2]) \in want /\ \A s \in Steps : Exclusive("step", s) \in want => s \in Knows(x, step)
      BY <3>4, <3>5, ExclusiveLocks
    <3>7. "step" \in Reading /\ "step" \notin Canceling
      BY DEF Reading, Canceling
    <3>8. x.want = {} /\ x.pc \in Reading /\ GoTo(c, x, "step", want)
      BY <2>1, <2>3, <3>1, <3>5
    <3> QED BY <3>1, <3>2, <3>6, <3>7, <3>8, NextRead
  <2> QED BY <1>3, <2>2, <2>3 DEF JobLocked
<1> QED BY <1>2, <1>3

LEMMA ExternalReads ==
  ASSUME LocksInv, NEW c \in Clients, c[1] = "external",
         BeginExternal(c, c[2]) \/ ExternalStepsLocked(c, c[2]) \/ ExternalStepLocked(c, c[2])
  PROVE  \E y : Keeps(c, y)
<1>1. c[2] \in Steps
  BY ClientKinds
<1>2. PICK x : x = tx[c]
  OBVIOUS
<1>3. Story(c, x, step) /\ Known(c) = Knows(x, step)
  BY <1>2, ViewIs DEF LocksInv
<1>4. CASE BeginExternal(c, c[2])
  <2>1. PICK goal \in {"SUCCEEDED", "FAILED"} : Begin(c, goal, "steps", StepRows(c))
    BY <1>4 DEF BeginExternal
  <2>2. x = Idle
    BY <1>2, <2>1 DEF Begin
  <2>3. Knows(x, step) = {s \in Steps : step[s].status # "ABSENT"}
    BY <2>2, SeeRow DEF Knows, Mine, Idle, NoRows
  <2> QED BY <1>2, <2>1, <2>3, StepRowsAre, BeginKeeps
<1>5. CASE ExternalStepsLocked(c, c[2])
  <2>1. x.pc = "steps" /\ x.want = {} /\ x.pc \in Reading
    BY <1>2, <1>5 DEF ExternalStepsLocked, At, Reading
  <2>2. CASE GoTo(c, tx[c], "commit", {})
    BY <1>2, <2>1, <2>2, QuitKeeps
  <2>3. CASE c[2] \in Known(c) /\ GoTo(c, tx[c], "external_step", {Exclusive("step", c[2])})
    <3>1. PICK want \in SUBSET Locks : want = {Exclusive("step", c[2])}
      <4>1. {Exclusive("step", c[2])} \in SUBSET Locks
        BY <1>1, ExclusiveLocks
      <4> QED BY <4>1, Zenon
    <3>2. "external_step" \in Reading /\ "external_step" \notin Canceling
      BY DEF Reading, Canceling
    <3>3. GoTo(c, x, "external_step", want)
      BY <1>2, <2>3, <3>1
    <3>4. Exclusive("step", c[2]) \in want /\ \A s \in Steps : Exclusive("step", s) \in want => s \in Knows(x, step)
      BY <1>3, <2>3, <3>1, ExclusiveLocks
    <3> QED BY <1>2, <2>1, <3>2, <3>3, <3>4, NextRead
  <2> QED BY <1>5, <2>2, <2>3, Zenon DEF ExternalStepsLocked
<1>6. CASE ExternalStepLocked(c, c[2])
  <2>1. x.pc = "external_step" /\ x.want = {} /\ x.pc \in Reading /\ GoTo(c, x, "external", {Exclusive("run", 0)})
    BY <1>2, <1>6 DEF ExternalStepLocked, At, Reading
  <2>2. HasStep(x, c[2])
    BY <1>3, <2>1, AskedIsHeld DEF Story, LockStory, HasStep
  <2>3. {Exclusive("run", 0)} \in SUBSET Locks /\ \A s : Exclusive("step", s) \notin {Exclusive("run", 0)}
    BY ExclusiveLocks
  <2>4. "external" \in Reading /\ "external" \notin Canceling
    BY DEF Reading, Canceling
  <2> QED BY <1>2, <2>1, <2>2, <2>3, <2>4, NextRead
<1> QED BY <1>4, <1>5, <1>6

LEMMA AppendReads ==
  ASSUME LocksInv, NEW c \in Clients, c[1] = "append", BeginAppend(c) \/ AppendStepsLocked(c)
  PROVE  \E y : Keeps(c, y)
<1>2. PICK x : x = tx[c]
  OBVIOUS
<1>4. CASE BeginAppend(c)
  <2>1. Begin(c, "APPEND", "steps", StepRows(c))
    BY <1>4 DEF BeginAppend
  <2>2. x = Idle
    BY <1>2, <2>1 DEF Begin
  <2>3. Knows(x, step) = {s \in Steps : step[s].status # "ABSENT"}
    BY <2>2, SeeRow DEF Knows, Mine, Idle, NoRows
  <2> QED BY <1>2, <2>1, <2>3, StepRowsAre, BeginKeeps
<1>5. CASE AppendStepsLocked(c)
  <2>1. x.pc = "steps" /\ x.want = {} /\ x.pc \in Reading /\ GoTo(c, x, "append", {Exclusive("run", 0)})
    BY <1>2, <1>5 DEF AppendStepsLocked, At, Reading
  <2>2. Story(c, x, step)
    BY <1>2 DEF LocksInv
  <2>3. PICK y : y = Tx("append", {Exclusive("run", 0)}, x.held, x.mine, x.run, x.goal, x.queue, x.ready)
    OBVIOUS
  <2>4. /\ y.pc = "append" /\ y.want = {Exclusive("run", 0)} /\ y.held = x.held /\ y.mine = x.mine /\ y.run = x.run
        /\ y.goal = x.goal /\ y.queue = x.queue /\ y.ready = x.ready
    BY <2>3, Fields
  <2>5. Knows(y, step) = Knows(x, step) /\ Mine(y) = Mine(x)
    BY <2>4, SameMine
  <2>6. Asked(x) = x.held /\ Asked(y) = x.held \cup {Exclusive("run", 0)}
    BY <2>1, <2>4, AskedIsHeld DEF Asked
  <2>7. ControlStory(c, y, step)
    BY <2>1, <2>2, <2>4, <2>5 DEF Story, ControlStory, Canceling, Cascading
  <2>8. LockStory(c, y, step)
    BY <2>2, <2>4, <2>5, <2>6, ExclusiveLocks DEF Story, LockStory
  <2>9. WholeRun(c, y, step)
    BY <2>1, <2>2, <2>4, <2>5, <2>6 DEF Story, WholeRun, HasStep
  <2>10. {Exclusive("run", 0)} \in SUBSET Locks /\ "append" \in Reading
    BY ExclusiveLocks DEF Reading
  <2> QED BY <1>2, <2>1, <2>3, <2>7, <2>8, <2>9, <2>10, ReadKeeps
<1> QED BY <1>4, <1>5

LEMMA CancelReads ==
  ASSUME LocksInv, NEW c \in Clients, c[1] = "cancel", BeginCancel(c) \/ CancelLocked(c)
  PROVE  \E y : Keeps(c, y)
<1>1. PICK x : x = tx[c]
  OBVIOUS
<1>2. Story(c, x, step)
  BY <1>1 DEF LocksInv
<1>3. CASE BeginCancel(c)
  <2>1. CancelOrder("begin") = "cancel_jobs" /\ CancelRows(c, "cancel_jobs") = JobRows(c)
    BY DEF CancelOrder, CancelRows
  <2>2. Begin(c, "CANCEL", "cancel_jobs", JobRows(c))
    BY <1>3, <2>1, Zenon DEF BeginCancel
  <2> QED BY <1>1, <2>2, StepRowsAre, BeginKeeps
<1>4. CASE CancelLocked(c)
  <2>1. /\ x.pc \in {"cancel_jobs", "cancel_release", "cancel_jobs_again", "cancel_steps", "cancel_run"} /\ x.want = {}
        /\ GoTo(c, x, CancelOrder(x.pc), CancelRows(c, CancelOrder(x.pc)))
    BY <1>1, <1>4, Zenon DEF CancelLocked, At
  <2>2. Asked(x) = x.held /\ x.pc \in Reading
    BY <2>1, AskedIsHeld DEF Reading, Canceling
  <2>3. /\ {"cancel_release", "cancel_jobs_again", "cancel_steps", "cancel_run", "sweep"} \subseteq Reading
        /\ {Exclusive("release", 0)} \in SUBSET Locks /\ {Exclusive("run", 0)} \in SUBSET Locks /\ {} \in SUBSET Locks
        /\ \A s : Exclusive("step", s) \notin {Exclusive("release", 0)} /\ Exclusive("step", s) \notin {Exclusive("run", 0)}
    BY ExclusiveLocks DEF Reading, Canceling
  <2>4. CASE x.pc = "cancel_jobs"
    <3>1. GoTo(c, x, "cancel_release", {Exclusive("release", 0)})
      BY <2>1, <2>4 DEF CancelOrder, CancelRows
    <3> QED BY <1>1, <2>1, <2>2, <2>3, <3>1, NextRead
  <2>5. CASE x.pc = "cancel_release"
    <3>1. GoTo(c, x, "cancel_jobs_again", JobRows(c))
      BY <2>1, <2>5 DEF CancelOrder, CancelRows
    <3>2. Stops(x)
      BY <1>2, <2>2, <2>5 DEF Story, WholeRun, Stops
    <3>3. PICK want \in SUBSET Locks : want = JobRows(c)
      BY <1>1, StepRowsAre, Zenon
    <3>4. GoTo(c, x, "cancel_jobs_again", want) /\ \A s \in Steps : Exclusive("step", s) \notin want
      BY <1>1, <3>1, <3>3, StepRowsAre, Zenon
    <3> QED BY <1>1, <2>1, <2>2, <2>3, <3>2, <3>4, NextRead, ZenonT(40)
  <2>6. CASE x.pc = "cancel_jobs_again"
    <3>1. GoTo(c, x, "cancel_steps", StepRows(c))
      BY <2>1, <2>6 DEF CancelOrder, CancelRows
    <3>2. Stops(x)
      BY <1>2, <2>6 DEF Story, WholeRun
    <3>3. PICK want \in SUBSET Locks : want = StepRows(c)
      BY <1>1, StepRowsAre, Zenon
    <3>4. GoTo(c, x, "cancel_steps", want) /\ \A s : Exclusive("step", s) \in want <=> s \in Knows(x, step)
      BY <1>1, <3>1, <3>3, StepRowsAre, Zenon
    <3> QED BY <1>1, <2>1, <2>2, <2>3, <3>2, <3>4, NextRead
  <2>7. CASE x.pc = "cancel_steps"
    <3>1. GoTo(c, x, "cancel_run", {Exclusive("run", 0)})
      BY <2>1, <2>7 DEF CancelOrder, CancelRows
    <3>2. Stops(x) /\ \A s \in Knows(x, step) : HasStep(x, s)
      BY <1>2, <2>2, <2>7 DEF Story, WholeRun, HasStep
    <3> QED BY <1>1, <2>1, <2>2, <2>3, <3>1, <3>2, NextRead, ZenonT(40)
  <2>8. CASE x.pc = "cancel_run"
    <3>1. GoTo(c, x, "sweep", {})
      BY <2>1, <2>8 DEF CancelOrder, CancelRows
    <3>2. Stops(x) /\ HasRun(x) /\ \A s \in Knows(x, step) : HasStep(x, s)
      BY <1>2, <2>2, <2>8 DEF Story, WholeRun, HasRun
    <3> QED BY <1>1, <2>1, <2>2, <2>3, <3>1, <3>2, NextRead
  <2> QED BY <2>1, <2>4, <2>5, <2>6, <2>7, <2>8
<1> QED BY <1>3, <1>4

(* A row that a worker or an external completion wrote first.              *)
LEMMA FirstWrite ==
  ASSUME NEW c, NEW x, NEW y, NEW rows \in [Steps -> StepRow], NEW status, NEW new, NEW s \in Steps, Sound(rows, status),
         c[1] \in {"job", "external"}, s = c[2], Mine(x) = {}, HasStep(y, s), rows[s].status \in Open,
         new \in Open \cup Terminal,
         Mine(y) = {s}, Moves(rows[s], y.mine[s]), y.mine[s].status = new,
         y.mine[s].pending = rows[s].pending, y.mine[s].unsatisfied = rows[s].unsatisfied,
         Unapplied(c, y) = IF new \in Terminal THEN {s} ELSE {}
  PROVE  WriteStory(c, y, rows) /\ OpenStory(c, y, rows) /\ Knows(y, rows) = Knows(x, rows)
<1>1. Mine(y) = {s} /\ rows[s] \in StepRow
  OBVIOUS
<1>2. y.mine[s].status = new /\ y.mine[s].pending = rows[s].pending /\ y.mine[s].unsatisfied = rows[s].unsatisfied
  OBVIOUS
<1>3. rows[s].status \notin Terminal \cup {"ABSENT", "BLOCKED"} /\ new \notin {"ABSENT", "BLOCKED"}
  BY DEF Open, Terminal
<1>4. Owns(c, y, rows)
  BY <1>1, <1>3 DEF Owns
<1>5. Ended(y, rows) = Unapplied(c, y)
  <2>1. Ended(y, rows) = IF new \in Terminal THEN {s} ELSE {}
    BY <1>1, <1>2, <1>3, SMTT(30) DEF Ended
  <2> QED BY <2>1
<1>6. Follows(c, y, rows)
  BY <1>5 DEF Follows
<1>7. Counts(c, y, rows)
  <2>1. ASSUME NEW p \in Prereqs(s)
        PROVE  /\ See(y, rows)[p].status \notin Terminal \/ p \in Unapplied(c, y) <=> rows[p].status \notin Terminal \/ p \in {}
               /\ See(y, rows)[p].status \in {"FAILED", "CANCELED"} /\ p \notin Unapplied(c, y) <=>
                    rows[p].status \in {"FAILED", "CANCELED"} /\ p \notin {}
    <3>1. p \in Steps
      BY PrereqsAre
    <3>2. CASE p = s
      <4>1. See(y, rows)[s].status = new
        BY <1>1, <1>2, SeeRow
      <4> QED BY <1>3, <3>2, <4>1 DEF Terminal
    <3>3. CASE p # s
      <4>1. See(y, rows)[p] = rows[p] /\ p \notin Unapplied(c, y)
        BY <1>1, <3>1, <3>3, SeeRow
      <4> QED BY <4>1
    <3> QED BY <3>2, <3>3
  <2>2. /\ Pending(See(y, rows), Unapplied(c, y), s) = Pending(rows, {}, s)
        /\ Unsatisfied(See(y, rows), Unapplied(c, y), s) = Unsatisfied(rows, {}, s)
    BY SMTT(40), <2>1, SameCounters
  <2>3. /\ rows[s].pending = Cardinality(Pending(rows, {}, s))
        /\ rows[s].unsatisfied = Cardinality(Unsatisfied(rows, {}, s))
    BY <1>3, Zenon DEF Sound, Agree
  <2> QED BY <1>1, <1>2, <2>2, <2>3 DEF Counts
<1>8. Lists(y)
  BY <1>1, <1>2, <1>3 DEF Lists
<1>9. OpenStory(c, y, rows)
  BY <1>1 DEF OpenStory
<1>10. Knows(y, rows) = Knows(x, rows)
  <2>1. \A r \in Steps : See(y, rows)[r].status # "ABSENT" <=> See(x, rows)[r].status # "ABSENT"
    <3>1. \A r \in Steps : See(x, rows)[r] = rows[r] /\ (r # s => See(y, rows)[r] = rows[r])
      BY <1>1, SeeRow
    <3>2. See(y, rows)[s].status = new
      BY <1>1, <1>2, SeeRow
    <3> QED BY <1>3, <3>1, <3>2
  <2> QED BY <2>1, Zenon DEF Knows
<1> QED BY <1>4, <1>6, <1>7, <1>8, <1>9, <1>10 DEF WriteStory

(* What Write makes of the rows that were written before.                  *)
Over(new, old) == [s \in DOMAIN new \cup DOMAIN old |-> IF s \in DOMAIN new THEN new[s] ELSE old[s]]

LEMMA WriteTx ==
  ASSUME NEW t, NEW rows, Shaped(t)
  PROVE  Write(t, rows) = Tx(t.pc, t.want, t.held, Over(rows, t.mine), t.run, t.goal, t.queue, t.ready)
<1>1. PICK pc, want, held, mine, status, goal, queue, ready :
        /\ pc = t.pc /\ want = t.want /\ held = t.held /\ mine = t.mine /\ status = t.run /\ goal = t.goal
        /\ queue = t.queue /\ ready = t.ready
  BY Zenon
<1>2. t = Tx(pc, want, held, mine, status, goal, queue, ready)
  BY <1>1, Zenon DEF Shaped
<1>3. Write(t, rows) = [t EXCEPT !.mine = Over(rows, t.mine)]
  BY Zenon DEF Write, Over
<1>4. PICK m : m = Over(rows, t.mine)
  OBVIOUS
<1>5. [t EXCEPT !.mine = m] = Tx(pc, want, held, m, status, goal, queue, ready)
  BY <1>2 DEF Tx
<1> QED BY <1>1, <1>3, <1>4, <1>5, Zenon

LEMMA OverNothing ==
  ASSUME NEW old, NEW s, NEW row, DOMAIN old = {}
  PROVE  Over([r \in {s} |-> row], old) = [r \in {s} |-> row]
BY DEF Over

LEMMA ApartFree ==
  ASSUME LocksInv, NEW c \in Clients, ReleaseIsFree(c), NEW y, y.held \subseteq tx[c].held \cup {Shared("release")}
  PROVE  \A o \in Clients \ {c} : Apart(y, tx[o])
<1>1. ASSUME NEW o \in Clients \ {c}, NEW k \in tx[o].held, k.row = Shared("release").row PROVE k.mode = "S"
  <2>1. k.mode # "X"
    BY <1>1 DEF ReleaseIsFree, Holders
  <2>2. k \in Locks
    BY DEF LocksInv, Story, TxTyped
  <2> QED BY <2>1, <2>2 DEF Locks
<1>2. \A o \in Clients \ {c} : \A h \in tx[c].held, k \in tx[o].held : h.row = k.row => h.mode = "S" /\ k.mode = "S"
  BY DEF LocksInv, LocksApart
<1>3. Shared("release").mode = "S"
  BY DEF Shared
<1>4. ASSUME NEW o \in Clients \ {c}, NEW h \in y.held, NEW k \in tx[o].held, h.row = k.row
      PROVE  h.mode = "S" /\ k.mode = "S"
  <2>1. CASE h = Shared("release")
    BY <1>1, <1>3, <1>4, <2>1
  <2>2. CASE h \in tx[c].held
    BY <1>2, <1>4, <2>2
  <2> QED BY <2>1, <2>2
<1> QED BY <1>4 DEF Apart

(* A worker writes its step.                                               *)
LEMMA JobWrites ==
  ASSUME NEW c \in Clients, NEW x, NEW y, NEW rows \in [Steps -> StepRow], NEW status, Sound(rows, status),
         Story(c, x, rows), c[1] = "job", x.pc = "step", x.want = {},
         NEW new \in {"ENQUEUED", "RUNNING"} \cup Terminal,
         rows[c[2]].status \notin Terminal, new \in Terminal \/ rows[c[2]].status \in {"ENQUEUED", "RUNNING"},
         NEW pc, NEW want, pc = (IF new \in Terminal THEN "release" ELSE "commit"),
         want = (IF new \in Terminal THEN {Shared("release")} ELSE {}),
         y = Tx(pc, want, x.held, [r \in {c[2]} |-> [rows[c[2]] EXCEPT !.status = new]], x.run, x.goal, x.queue, x.ready)
  PROVE  Story(c, y, rows)
<1>1. PICK s \in Steps : s = c[2]
  BY ClientKinds
<1>2. PICK m : m = [r \in {s} |-> [rows[s] EXCEPT !.status = new]]
  OBVIOUS
<1>3. y = Tx(pc, want, x.held, m, x.run, x.goal, x.queue, x.ready)
  BY <1>1, <1>2, Zenon
<1>4. /\ y.pc = pc /\ y.want = want /\ y.held = x.held /\ y.mine = m /\ y.run = x.run
      /\ y.goal = x.goal /\ y.queue = x.queue /\ y.ready = x.ready
      /\ Shaped(y)
  BY <1>3, Fields
<1>5. TxTyped(x) /\ Mine(x) = {} /\ x.run = "same" /\ x.queue = <<>> /\ x.ready = {}
  BY DEF Story, ControlStory, ListStory, Reading
<1>6. HasStep(x, s) /\ rows[s].job = TRUE
  BY <1>1, AskedIsHeld DEF Story, LockStory, HasStep
<1>7. rows[s] \in StepRow /\ rows[s].status \in Open
  <2>1. rows[s] \in StepRow
    OBVIOUS
  <2>2. rows[s].status \notin {"BLOCKED", "ABSENT"}
    BY <1>6 DEF Sound
  <2> QED BY <1>1, <2>1, <2>2 DEF StepRow, Statuses
<1>8. Mine(y) = {s} /\ y.mine[s] = [rows[s] EXCEPT !.status = new]
  BY <1>2, <1>4 DEF Mine
<1>9. /\ y.mine[s].status = new /\ y.mine[s].job = TRUE /\ y.mine[s] \in StepRow
      /\ y.mine[s].pending = rows[s].pending /\ y.mine[s].unsatisfied = rows[s].unsatisfied
  <2>1. new \in Statuses
    BY DEF Statuses, Open
  <2> QED BY <1>6, <1>7, <1>8, <2>1 DEF StepRow
<1>10. Moves(rows[s], y.mine[s])
  BY <1>1, <1>7, <1>9 DEF Moves, Open, Terminal
<1>11. Unapplied(c, y) = IF new \in Terminal THEN {s} ELSE {}
  <2>1. Queued(y) = {}
    BY <1>4, <1>5 DEF Queued, Elements
  <2> QED BY <1>1, <1>4, <2>1 DEF Unapplied
<1>12. WriteStory(c, y, rows) /\ OpenStory(c, y, rows) /\ Knows(y, rows) = Knows(x, rows)
  <2>1. HasStep(y, s) /\ new \in Open \cup Terminal
    BY <1>4, <1>6 DEF HasStep, Open
  <2>2. Mine(y) = {s} /\ c[1] \in {"job", "external"}
    BY <1>8
  <2> QED BY SMTT(40), <1>1, <1>5, <1>7, <1>9, <1>10, <1>11, <2>1, <2>2, FirstWrite
<1>13. pc \in {"release", "commit"}
  OBVIOUS
<1>14. TxTyped(y)
  <2>1. pc \in Pcs /\ want \subseteq Locks
    BY <1>13, ExclusiveLocks DEF Pcs
  <2>2. Mine(y) \subseteq Steps /\ \A r \in Mine(y) : y.mine[r] \in StepRow
    BY <1>8, <1>9
  <2> QED BY <1>4, <1>5, <2>1, <2>2, Zenon DEF TxTyped
<1>15. ControlStory(c, y, rows)
  BY <1>4, <1>5, <1>13 DEF ControlStory, Reading, Canceling, Cascading
<1>16. ListStory(c, y, rows)
  BY <1>4, <1>5, <1>13 DEF ListStory, Distinct
<1>17. LockStory(c, y, rows)
  <2>1. \A r \in Steps : Exclusive("step", r) \in Asked(y) => r \in Knows(y, rows)
    BY <1>4, <1>12, ExclusiveLocks DEF Story, LockStory, Asked
  <2>2. pc = "commit" => want = {}
    BY DEF Terminal
  <2>3. pc = "release" => Shared("release") \in Asked(y)
    BY <1>4 DEF Asked
  <2> QED BY <1>4, <1>13, <2>1, <2>2, <2>3 DEF LockStory
<1>18. WholeRun(c, y, rows)
  BY <1>4, <1>13 DEF WholeRun
<1>19. CommitStory(y, rows)
  <2>1. pc = "commit" => {rows[s].status, y.mine[s].status} \subseteq {"ENQUEUED", "RUNNING"}
    BY <1>1, <1>9
  <2>2. Mine(y) = {s}
    BY <1>8
  <2>3. y.pc = pc /\ y.run = "same"
    BY <1>4, <1>5
  <2> QED BY <2>1, <2>2, <2>3 DEF CommitStory
<1> QED BY <1>12, <1>14, <1>15, <1>16, <1>17, <1>18, <1>19 DEF Story

(* An external completion writes its step.                                 *)
LEMMA ExternalWrites ==
  ASSUME NEW c \in Clients, NEW x, NEW y, NEW rows \in [Steps -> StepRow], NEW status, Sound(rows, status),
         Story(c, x, rows), c[1] = "external", x.pc = "external", x.want = {},
         rows[c[2]].status = "WAITING_FOR_EXTERNAL",
         y = Tx("cascade", {}, x.held \cup {Shared("release")},
                [r \in {c[2]} |-> [rows[c[2]] EXCEPT !.status = x.goal]], x.run, x.goal, <<c[2]>>, x.ready)
  PROVE  Story(c, y, rows)
<1>1. PICK s \in Steps : s = c[2]
  BY ClientKinds
<1>2. PICK m : m = [r \in {s} |-> [rows[s] EXCEPT !.status = x.goal]]
  OBVIOUS
<1>3. y = Tx("cascade", {}, x.held \cup {Shared("release")}, m, x.run, x.goal, <<s>>, x.ready)
  BY <1>1, <1>2, Zenon
<1>4. /\ y.pc = "cascade" /\ y.want = {} /\ y.held = x.held \cup {Shared("release")} /\ y.mine = m /\ y.run = x.run
      /\ y.goal = x.goal /\ y.queue = <<s>> /\ y.ready = x.ready
      /\ Shaped(y)
  BY <1>3, Fields
<1>5. TxTyped(x) /\ Mine(x) = {} /\ x.run = "same" /\ x.queue = <<>> /\ x.ready = {} /\ x.goal \in {"SUCCEEDED", "FAILED"}
  BY DEF Story, ControlStory, ListStory, Reading
<1>6. HasStep(x, s)
  BY <1>1 DEF Story, LockStory
<1>7. rows[s] \in StepRow /\ rows[s].status \in Open /\ rows[s].status = "WAITING_FOR_EXTERNAL"
  BY <1>1 DEF Open
<1>8. Mine(y) = {s} /\ y.mine[s] = [rows[s] EXCEPT !.status = x.goal]
  BY <1>2, <1>4 DEF Mine
<1>9. /\ y.mine[s].status = x.goal /\ y.mine[s].job = rows[s].job /\ y.mine[s] \in StepRow
      /\ y.mine[s].pending = rows[s].pending /\ y.mine[s].unsatisfied = rows[s].unsatisfied
  <2>1. x.goal \in Statuses
    BY <1>5 DEF Statuses, Terminal
  <2> QED BY <1>7, <1>8, <2>1 DEF StepRow
<1>10. Moves(rows[s], y.mine[s])
  BY <1>5, <1>7, <1>9 DEF Moves, Terminal
<1>11. Unapplied(c, y) = {s}
  <2>1. Queued(y) = {s}
    BY <1>4 DEF Queued, Elements
  <2> QED BY <1>4, <2>1 DEF Unapplied
<1>12. WriteStory(c, y, rows) /\ OpenStory(c, y, rows) /\ Knows(y, rows) = Knows(x, rows)
  <2>1. HasStep(y, s) /\ x.goal \in Terminal
    BY <1>4, <1>5, <1>6 DEF HasStep, Terminal
  <2>2. Mine(y) = {s} /\ c[1] \in {"job", "external"}
    BY <1>8
  <2>3. PICK new : new = x.goal
    OBVIOUS
  <2>4. Unapplied(c, y) = (IF new \in Terminal THEN {s} ELSE {}) /\ new \in Open \cup Terminal /\ y.mine[s].status = new
    BY <1>9, <1>11, <2>1, <2>3
  <2>5. /\ s = c[2] /\ Mine(x) = {} /\ HasStep(y, s) /\ rows[s].status \in Open
        /\ y.mine[s].pending = rows[s].pending /\ y.mine[s].unsatisfied = rows[s].unsatisfied
    BY <1>1, <1>5, <1>7, <1>9, <2>1
  <2> QED BY <1>10, <2>2, <2>4, <2>5, FirstWrite
<1>14. TxTyped(y)
  <2>1. y.pc \in Pcs /\ y.held \subseteq Locks /\ y.queue \in Seq(Steps)
    BY <1>4, <1>5, ExclusiveLocks DEF Pcs, Cascading, TxTyped
  <2>2. Mine(y) \subseteq Steps /\ \A r \in Mine(y) : y.mine[r] \in StepRow
    BY <1>8, <1>9
  <2> QED BY <1>4, <1>5, <2>1, <2>2, Zenon DEF TxTyped
<1>15. ControlStory(c, y, rows)
  BY <1>4, <1>5 DEF ControlStory, Reading, Canceling, Cascading, Releases
<1>16. ListStory(c, y, rows)
  BY <1>4, <1>5 DEF ListStory, Distinct
<1>17. LockStory(c, y, rows)
  <2>1. \A r \in Steps : Exclusive("step", r) \in Asked(y) => r \in Knows(y, rows)
    BY <1>4, <1>12, ExclusiveLocks DEF Story, LockStory, Asked
  <2> QED BY <1>4, <2>1 DEF LockStory
<1>18. WholeRun(c, y, rows)
  BY <1>4 DEF WholeRun
<1>19. CommitStory(y, rows)
  BY <1>4, <1>5 DEF CommitStory
<1> QED BY <1>12, <1>14, <1>15, <1>16, <1>17, <1>18, <1>19 DEF Story

-----------------------------------------------------------------------------
(* The cascade.                                                            *)

LEMMA QueueTail ==
  ASSUME NEW q \in Seq(Steps), q # <<>>, Distinct(q)
  PROVE  /\ Head(q) \in Steps /\ Tail(q) \in Seq(Steps) /\ Distinct(Tail(q))
         /\ Head(q) \in Elements(q) /\ Elements(Tail(q)) = Elements(q) \ {Head(q)}
<1>1. /\ Len(q) \in Nat \ {0} /\ DOMAIN q = 1 .. Len(q) /\ Head(q) = q[1] /\ Tail(q) \in Seq(Steps)
      /\ Len(Tail(q)) = Len(q) - 1 /\ \A i \in 1 .. Len(q) - 1 : Tail(q)[i] = q[i + 1]
  OBVIOUS
<1>2. DOMAIN Tail(q) = 1 .. Len(q) - 1
  BY <1>1
<1>3. \A i, j \in 1 .. Len(q) : q[i] = q[j] => i = j
  BY <1>1 DEF Distinct
<1>4. Distinct(Tail(q))
  <2>1. ASSUME NEW i \in 1 .. Len(q) - 1, NEW j \in 1 .. Len(q) - 1, Tail(q)[i] = Tail(q)[j] PROVE i = j
    <3>1. i + 1 \in 1 .. Len(q) /\ j + 1 \in 1 .. Len(q)
      BY <1>1
    <3>2. q[i + 1] = q[j + 1]
      BY <1>1, <2>1
    <3>3. i + 1 = j + 1
      BY <1>3, <3>1, <3>2
    <3> QED BY <3>3
  <2> QED BY <1>2, <2>1 DEF Distinct
<1>5. ASSUME NEW s PROVE s \in {Tail(q)[i] : i \in DOMAIN Tail(q)} <=> s \in {q[i] : i \in DOMAIN q} \ {Head(q)}
  <2>1. ASSUME NEW i \in 1 .. Len(q) - 1, s = Tail(q)[i] PROVE s \in {q[j] : j \in DOMAIN q} /\ s # q[1]
    <3>1. i + 1 \in 1 .. Len(q) /\ 1 \in 1 .. Len(q) /\ i + 1 # 1
      BY <1>1
    <3>2. s = q[i + 1]
      BY <1>1, <2>1
    <3> QED BY <1>1, <1>3, <3>1, <3>2
  <2>2. ASSUME NEW i \in 1 .. Len(q), s = q[i], s # q[1] PROVE s \in {Tail(q)[j] : j \in DOMAIN Tail(q)}
    <3>1. i - 1 \in 1 .. Len(q) - 1 /\ (i - 1) + 1 = i
      BY <1>1, <2>2
    <3>2. Tail(q)[i - 1] = q[i]
      BY <1>1, <3>1
    <3> QED BY <1>2, <2>2, <3>1, <3>2
  <2> QED BY <1>1, <1>2, <2>1, <2>2
<1>6. {Tail(q)[i] : i \in DOMAIN Tail(q)} = {q[i] : i \in DOMAIN q} \ {Head(q)}
  BY <1>5
<1>7. 1 \in DOMAIN q /\ q[1] \in Steps
  BY <1>1
<1>8. Head(q) \in Steps /\ Head(q) \in {q[i] : i \in DOMAIN q}
  BY <1>1, <1>7
<1> QED BY <1>1, <1>4, <1>6, <1>8 DEF Elements

LEMMA QueueAppend ==
  ASSUME NEW q \in Seq(Steps), Distinct(q), NEW d \in Steps, d \notin Elements(q)
  PROVE  /\ Append(q, d) \in Seq(Steps) /\ Distinct(Append(q, d))
         /\ Elements(Append(q, d)) = Elements(q) \cup {d}
<1> DEFINE r == Append(q, d)
<1>1. /\ r \in Seq(Steps) /\ Len(r) = Len(q) + 1 /\ Len(q) \in Nat
      /\ (\A i \in 1 .. Len(q) : r[i] = q[i]) /\ r[Len(q) + 1] = d
  OBVIOUS
<1>2. DOMAIN r = 1 .. Len(q) + 1 /\ DOMAIN q = 1 .. Len(q)
  BY <1>1
<1> HIDE DEF r
<1>3. \A i \in 1 .. Len(q) + 1 : i = Len(q) + 1 \/ i \in 1 .. Len(q)
  BY <1>1
<1>4. \A i, j \in 1 .. Len(q) + 1 : r[i] = r[j] => i = j
  BY <1>1, <1>2, <1>3 DEF Distinct, Elements
<1>5. Distinct(r)
  BY <1>2, <1>4 DEF Distinct
<1>6. {r[i] : i \in DOMAIN r} = {q[i] : i \in DOMAIN q} \cup {d}
  BY <1>1, <1>2, <1>3
<1> QED BY <1>1, <1>5, <1>6 DEF r, Elements

KnowsThese(y, rows, known) == Knows(y, rows) = known

(* The dependents of p are counted down.                                   *)
CountedDown(x, row, rows, p, d) ==
  /\ row.status = See(x, rows)[d].status /\ row.job = See(x, rows)[d].job
  /\ row.pending = See(x, rows)[d].pending - 1
  /\ row.unsatisfied = See(x, rows)[d].unsatisfied +
       IF <<p, d>> \in OnSuccess /\ See(x, rows)[p].status # "SUCCEEDED" THEN 1 ELSE 0

CountsDown(c, x, y, rows, p, D) ==
  /\ p \in Unapplied(c, x) /\ Unapplied(c, y) = Unapplied(c, x) \ {p}
  /\ D = Dependents(p) \cap Knows(x, rows) /\ Mine(y) = Mine(x) \cup D
  /\ \A d \in Mine(x) \ D : y.mine[d] = x.mine[d]
  /\ \A d \in D : HasStep(y, d) /\ CountedDown(x, y.mine[d], rows, p, d)
  /\ \A d \in Mine(x) : x.mine[d].status = "BLOCKED" /\ x.mine[d].pending = 0 => d \in y.ready
  /\ D \subseteq y.ready /\ x.held \subseteq y.held

LEMMA CountDown ==
  ASSUME NEW c, NEW x, NEW y, NEW rows \in [Steps -> StepRow], NEW status, Sound(rows, status), TxTyped(x),
         WriteStory(c, x, rows), OpenStory(c, x, rows), NEW p, NEW D, CountsDown(c, x, y, rows, p, D)
  PROVE  /\ WriteStory(c, y, rows) /\ OpenStory(c, y, rows) /\ KnowsThese(y, rows, Knows(x, rows))
         /\ \A d \in D : y.mine[d].pending \in Nat /\ y.mine[d].unsatisfied \in Nat
<1>0. /\ p \in Unapplied(c, x) /\ Unapplied(c, y) = Unapplied(c, x) \ {p}
      /\ D = Dependents(p) \cap Knows(x, rows) /\ Mine(y) = Mine(x) \cup D
      /\ \A d \in Mine(x) \ D : y.mine[d] = x.mine[d]
      /\ \A d \in D : HasStep(y, d) /\ CountedDown(x, y.mine[d], rows, p, d)
      /\ \A d \in Mine(x) : x.mine[d].status = "BLOCKED" /\ x.mine[d].pending = 0 => d \in y.ready
      /\ D \subseteq y.ready /\ x.held \subseteq y.held
  BY DEF CountsDown
<1> USE <1>0 DEF CountedDown
<1>1. /\ Owns(c, x, rows) /\ Follows(c, x, rows) /\ Counts(c, x, rows) /\ Lists(x)
      /\ Mine(x) \subseteq Steps /\ D \subseteq Steps /\ D \subseteq Knows(x, rows) /\ Agree(rows)
  BY DEF WriteStory, TxTyped, Knows, Sound
<1>2. ASSUME NEW s \in Steps PROVE See(y, rows)[s].status = See(x, rows)[s].status
  <2>1. CASE s \in D
    <3>1. See(y, rows)[s] = y.mine[s]
      BY <2>1, SeeRow
    <3> QED BY <2>1, <3>1
  <2>2. CASE s \in Mine(x) \ D
    <3>1. See(y, rows)[s] = y.mine[s] /\ See(x, rows)[s] = x.mine[s]
      BY <2>2, SeeRow
    <3> QED BY <2>2, <3>1
  <2>3. CASE s \notin Mine(x) \cup D
    <3>1. See(y, rows)[s] = rows[s] /\ See(x, rows)[s] = rows[s]
      BY <2>3, SeeRow
    <3> QED BY <3>1
  <2> QED BY <2>1, <2>2, <2>3
<1>3. Knows(y, rows) = Knows(x, rows)
  BY <1>2, Zenon DEF Knows
<1>4. ASSUME NEW d \in Mine(x) PROVE y.mine[d].status = x.mine[d].status /\ y.mine[d].job = x.mine[d].job
  <2>1. See(x, rows)[d] = x.mine[d]
    BY <1>1, SeeRow
  <2> QED BY <2>1
<1>5. \A d \in D \ Mine(x) : y.mine[d].status = rows[d].status /\ y.mine[d].job = rows[d].job /\ rows[d].status # "ABSENT"
  <2>1. \A d \in D \ Mine(x) : See(x, rows)[d] = rows[d]
    BY <1>1, SeeRow
  <2> QED BY <1>1, <2>1 DEF Knows
<1>6. Ended(y, rows) = Ended(x, rows)
  BY <1>4, <1>5, SMTT(30) DEF Ended
<1>7. Owns(c, y, rows)
  <2>1. ASSUME NEW s \in Mine(x) PROVE HasStep(y, s) /\ Moves(rows[s], y.mine[s])
    <3>1. HasStep(x, s) /\ Moves(rows[s], x.mine[s])
      BY <1>1 DEF Owns
    <3> QED BY <1>4, <3>1 DEF HasStep, Moves
  <2>2. ASSUME NEW s \in D \ Mine(x) PROVE HasStep(y, s) /\ Moves(rows[s], y.mine[s])
    <3>1. /\ rows[s].status \in {"ENQUEUED", "RUNNING"} => rows[s].job = TRUE
          /\ rows[s].status = "BLOCKED" => rows[s].job = FALSE
      BY <1>1 DEF Sound
    <3> QED BY <1>5, <3>1 DEF Moves
  <2>3. \A s \in Mine(y) : rows[s].status = "ABSENT" => c[1] = "append"
    BY <1>1, <1>5 DEF Owns
  <2> QED BY <2>1, <2>2, <2>3 DEF Owns
<1>8. p \in Ended(x, rows) /\ p \in Steps /\ See(x, rows)[p].status \in Terminal
  <2>1. p \in Ended(x, rows)
    BY <1>1 DEF Follows
  <2>2. p \in Steps
    BY <1>1, <2>1 DEF Ended
  <2> QED BY <1>1, <2>1, <2>2, SeeEnded
<1>9. \A d \in Knows(x, rows) : p \in Prereqs(d) <=> d \in D
  BY <1>8, PrereqsAre DEF Knows
<1>10. Follows(c, y, rows)
  BY <1>1, <1>3, <1>6, <1>9 DEF Follows
<1>11. ASSUME NEW d \in D
       PROVE  /\ y.mine[d].pending = Cardinality(Pending(See(y, rows), Unapplied(c, y), d)) /\ y.mine[d].pending \in Nat
              /\ y.mine[d].unsatisfied = Cardinality(Unsatisfied(See(y, rows), Unapplied(c, y), d))
              /\ y.mine[d].unsatisfied \in Nat
  <2> DEFINE P == Pending(See(x, rows), Unapplied(c, x), d)
             Q == Unsatisfied(See(x, rows), Unapplied(c, x), d)
             P2 == Pending(See(y, rows), Unapplied(c, y), d)
             Q2 == Unsatisfied(See(y, rows), Unapplied(c, y), d)
             fails == <<p, d>> \in OnSuccess /\ See(x, rows)[p].status # "SUCCEEDED"
  <2>1. See(x, rows)[d].pending = Cardinality(P) /\ See(x, rows)[d].unsatisfied = Cardinality(Q)
    BY <1>1, CountersInView
  <2>2. p \in Prereqs(d) /\ Prereqs(d) \subseteq Steps
    BY <1>1, <1>9, PrereqsAre
  <2>3. P \in SUBSET Steps /\ Q \in SUBSET Steps
    BY <2>2 DEF Pending, Unsatisfied
  <2>4. p \in P /\ p \notin Q
    BY <2>2 DEF Pending, Unsatisfied
  <2>5. P2 = P \ {p}
    <3>1. \A r \in Prereqs(d) : r \in P2 <=> r \in P \ {p}
      BY <1>2, <1>8, <2>2 DEF Pending
    <3> QED BY <3>1, <2>2, Zenon DEF Pending
  <2>6. Q2 = IF fails THEN Q \cup {p} ELSE Q
    <3>1. See(x, rows)[p].status # "SUCCEEDED" <=> See(x, rows)[p].status \in {"FAILED", "CANCELED"}
      BY <1>8 DEF Terminal
    <3>2. \A r \in Prereqs(d) : r \in Q2 <=> r \in Q \/ (fails /\ r = p)
      BY <1>2, <1>8, <2>2, <3>1 DEF Unsatisfied
    <3>3. Q2 \subseteq Prereqs(d) /\ Q \subseteq Prereqs(d)
      BY DEF Unsatisfied
    <3> HIDE DEF Q, Q2, fails
    <3> QED BY <2>2, <3>2, <3>3
  <2> HIDE DEF P, Q, P2, Q2, fails
  <2>7. IsFiniteSet(P) /\ IsFiniteSet(Q) /\ Cardinality(P) \in Nat /\ Cardinality(Q) \in Nat
    BY <2>3, StepsFinite
  <2>8. Cardinality(P2) = Cardinality(P) - 1
    BY <2>4, <2>5, <2>7, FS_RemoveElement
  <2>9. Cardinality(P2) \in Nat
    <3>1. P2 \in SUBSET Steps
      BY <2>3, <2>5
    <3> QED BY <3>1, StepsFinite
  <2>10. Cardinality(Q2) = Cardinality(Q) + IF fails THEN 1 ELSE 0
    <3>1. CASE fails
      <4>1. Cardinality(Q \cup {p}) = Cardinality(Q) + 1
        BY <2>4, <2>7, FS_AddElement
      <4> QED BY <2>6, <3>1, <4>1
    <3>2. CASE ~fails
      BY <2>6, <2>7, <3>2
    <3> QED BY <3>1, <3>2
  <2>11. y.mine[d].pending = See(x, rows)[d].pending - 1
    OBVIOUS
  <2>12. y.mine[d].unsatisfied = See(x, rows)[d].unsatisfied + IF fails THEN 1 ELSE 0
    BY Zenon DEF fails
  <2>13. y.mine[d].pending = Cardinality(P2) /\ y.mine[d].pending \in Nat
    BY <2>1, <2>8, <2>9, <2>11
  <2>14. y.mine[d].unsatisfied = Cardinality(Q2) /\ y.mine[d].unsatisfied \in Nat
    BY <2>1, <2>7, <2>10, <2>12
  <2> QED BY <2>13, <2>14 DEF P2, Q2
<1>12. ASSUME NEW d \in Mine(x) \ D
       PROVE  /\ y.mine[d].pending = Cardinality(Pending(See(y, rows), Unapplied(c, y), d))
              /\ y.mine[d].unsatisfied = Cardinality(Unsatisfied(See(y, rows), Unapplied(c, y), d))
  <2>1. p \notin Prereqs(d)
    BY <1>1, <1>9, KnowsRow
  <2>2. \A r \in Prereqs(d) : r \in Steps /\ (r \in Unapplied(c, y) <=> r \in Unapplied(c, x))
    BY <2>1, PrereqsAre
  <2>3. \A r \in Prereqs(d) :
           /\ See(y, rows)[r].status \notin Terminal \/ r \in Unapplied(c, y) <=>
                See(x, rows)[r].status \notin Terminal \/ r \in Unapplied(c, x)
           /\ See(y, rows)[r].status \in {"FAILED", "CANCELED"} /\ r \notin Unapplied(c, y) <=>
                See(x, rows)[r].status \in {"FAILED", "CANCELED"} /\ r \notin Unapplied(c, x)
    BY <1>2, <2>2, Zenon
  <2>4. /\ Pending(See(y, rows), Unapplied(c, y), d) = Pending(See(x, rows), Unapplied(c, x), d)
        /\ Unsatisfied(See(y, rows), Unapplied(c, y), d) = Unsatisfied(See(x, rows), Unapplied(c, x), d)
    BY SMTT(40), <2>3, SameCounters
  <2> QED BY <1>1, <2>4, Zenon DEF Counts
<1>13. Counts(c, y, rows)
  BY <1>11, <1>12 DEF Counts
<1>14. Lists(y)
  BY DEF Lists
<1>15. OpenStory(c, y, rows)
  <2>1. p \in Mine(x)
    BY <1>8 DEF Ended
  <2> QED BY <2>1 DEF OpenStory, HasStep, Releases
<1> QED BY <1>3, <1>7, <1>10, <1>11, <1>13, <1>14, <1>15 DEF WriteStory, KnowsThese

(* A dependent that is ready is released or canceled.                      *)
Changes(c, x, y, rows, d, new) ==
  /\ x.held \subseteq y.held /\ d \in Mine(x) /\ x.mine[d].status = "BLOCKED"
  /\ Mine(y) = Mine(x) /\ (\A s \in Mine(x) \ {d} : y.mine[s] = x.mine[s])
  /\ new \in {"CANCELED", "ENQUEUED", "WAITING_FOR_EXTERNAL"} /\ y.mine[d].status = new
  /\ y.mine[d].pending = x.mine[d].pending /\ y.mine[d].unsatisfied = x.mine[d].unsatisfied
  /\ Moves(rows[d], y.mine[d])
  /\ Unapplied(c, y) = Unapplied(c, x) \cup IF new = "CANCELED" THEN {d} ELSE {}
  /\ y.ready = x.ready \ {d}

LEMMA ChangeRow ==
  ASSUME NEW c, NEW x, NEW y, NEW rows \in [Steps -> StepRow], TxTyped(x), WriteStory(c, x, rows), OpenStory(c, x, rows),
         NEW d, NEW new, Changes(c, x, y, rows, d, new)
  PROVE  WriteStory(c, y, rows) /\ OpenStory(c, y, rows) /\ KnowsThese(y, rows, Knows(x, rows))
<1>0. /\ x.held \subseteq y.held /\ d \in Mine(x) /\ x.mine[d].status = "BLOCKED"
      /\ Mine(y) = Mine(x) /\ (\A s \in Mine(x) \ {d} : y.mine[s] = x.mine[s])
      /\ new \in {"CANCELED", "ENQUEUED", "WAITING_FOR_EXTERNAL"} /\ y.mine[d].status = new
      /\ y.mine[d].pending = x.mine[d].pending /\ y.mine[d].unsatisfied = x.mine[d].unsatisfied
      /\ Moves(rows[d], y.mine[d])
      /\ Unapplied(c, y) = Unapplied(c, x) \cup IF new = "CANCELED" THEN {d} ELSE {}
      /\ y.ready = x.ready \ {d}
  BY DEF Changes
<1> USE <1>0
<1>1. /\ Owns(c, x, rows) /\ Follows(c, x, rows) /\ Counts(c, x, rows) /\ Lists(x)
      /\ Mine(x) \subseteq Steps /\ d \in Steps
  BY DEF WriteStory, TxTyped
<1>2. /\ See(x, rows)[d].status = "BLOCKED" /\ See(y, rows)[d].status = new
      /\ \A s \in Steps \ {d} : See(y, rows)[s] = See(x, rows)[s]
  <2>1. See(x, rows)[d] = x.mine[d] /\ See(y, rows)[d] = y.mine[d]
    BY <1>1, SeeRow
  <2>2. ASSUME NEW s \in Steps \ {d} PROVE See(y, rows)[s] = See(x, rows)[s]
    <3>1. CASE s \in Mine(x)
      BY <3>1, SeeRow
    <3>2. CASE s \notin Mine(x)
      BY <3>2, SeeRow
    <3> QED BY <3>1, <3>2
  <2> QED BY <2>1, <2>2
<1>3. Knows(y, rows) = Knows(x, rows)
  <2>1. \A s \in Steps : See(y, rows)[s].status # "ABSENT" <=> See(x, rows)[s].status # "ABSENT"
    BY <1>2
  <2> QED BY <2>1, Zenon DEF Knows
<1>4. rows[d].status \notin Terminal /\ "BLOCKED" \notin Terminal
  <2>1. Moves(rows[d], x.mine[d])
    BY <1>1 DEF Owns
  <2> QED BY <2>1 DEF Moves, Terminal
<1>5. d \notin Ended(x, rows) /\ d \notin Unapplied(c, x)
  BY <1>1, <1>4 DEF Ended, Follows
<1>6. new \in Terminal <=> new = "CANCELED"
  BY DEF Terminal
<1>7. Ended(y, rows) = Ended(x, rows) \cup IF new = "CANCELED" THEN {d} ELSE {}
  <2>1. ASSUME NEW s \in Mine(x) PROVE s \in Ended(y, rows) <=> s \in Ended(x, rows) \/ (s = d /\ new = "CANCELED")
    <3>1. CASE s = d
      BY <1>4, <1>5, <1>6, <3>1 DEF Ended
    <3>2. CASE s # d
      BY <3>2 DEF Ended
    <3> QED BY <3>1, <3>2
  <2>2. Ended(y, rows) \subseteq Mine(x) /\ Ended(x, rows) \subseteq Mine(x)
    BY DEF Ended
  <2> QED BY <2>1, <2>2
<1>8. Owns(c, y, rows)
  BY DEF Owns, WriteStory, HasStep
<1>9. Follows(c, y, rows)
  <2>1. Unapplied(c, y) \subseteq Ended(y, rows)
    BY <1>1, <1>7 DEF Follows
  <2>2. Ended(y, rows) \ Unapplied(c, y) \subseteq Ended(x, rows) \ Unapplied(c, x)
    BY <1>7
  <2>3. \A p \in Ended(x, rows) \ Unapplied(c, x) : \A e \in Knows(x, rows) : p \in Prereqs(e) => e \in Mine(x)
    BY <1>1, Zenon DEF Follows
  <2> QED BY <1>3, <2>1, <2>2, <2>3, Zenon DEF Follows
<1>10. ASSUME NEW e \in Mine(x)
       PROVE  /\ y.mine[e].pending = Cardinality(Pending(See(y, rows), Unapplied(c, y), e))
              /\ y.mine[e].unsatisfied = Cardinality(Unsatisfied(See(y, rows), Unapplied(c, y), e))
  <2>1. ASSUME NEW r \in Prereqs(e)
        PROVE  /\ See(y, rows)[r].status \notin Terminal \/ r \in Unapplied(c, y) <=>
                    See(x, rows)[r].status \notin Terminal \/ r \in Unapplied(c, x)
               /\ See(y, rows)[r].status \in {"FAILED", "CANCELED"} /\ r \notin Unapplied(c, y) <=>
                    See(x, rows)[r].status \in {"FAILED", "CANCELED"} /\ r \notin Unapplied(c, x)
    <3>1. r \in Steps
      BY PrereqsAre
    <3>2. CASE r = d
      BY <1>2, <1>4, <1>5, <1>6, <3>2
    <3>3. CASE r # d
      <4>1. See(y, rows)[r] = See(x, rows)[r] /\ (r \in Unapplied(c, y) <=> r \in Unapplied(c, x))
        BY <1>2, <3>1, <3>3
      <4> QED BY <4>1
    <3> QED BY <3>2, <3>3
  <2>2. /\ Pending(See(y, rows), Unapplied(c, y), e) = Pending(See(x, rows), Unapplied(c, x), e)
        /\ Unsatisfied(See(y, rows), Unapplied(c, y), e) = Unsatisfied(See(x, rows), Unapplied(c, x), e)
    BY <2>1, SameCounters
  <2>3. y.mine[e].pending = x.mine[e].pending /\ y.mine[e].unsatisfied = x.mine[e].unsatisfied
    BY <2>1
  <2> QED BY <1>1, <2>2, <2>3, Zenon DEF Counts
<1>11. Counts(c, y, rows)
  BY <1>10, Zenon DEF Counts
<1>12. Lists(y)
  BY <1>1 DEF Lists
<1>13. OpenStory(c, y, rows)
  BY DEF OpenStory, HasStep, Releases
<1> QED BY <1>3, <1>8, <1>9, <1>11, <1>12, <1>13 DEF WriteStory, KnowsThese

(* The rows of the steps that are appended.                                *)
AppendedRow(rows, d) ==
  LET ended == {p \in Prereqs(d) \ Appended : rows[p].status \in Terminal} IN
  Row("BLOCKED", Cardinality(Prereqs(d) \ ended),
      Cardinality({p \in ended : <<p, d>> \in OnSuccess /\ rows[p].status # "SUCCEEDED"}), FALSE)

Appends(c, x, y, rows) ==
  /\ Mine(x) = {} /\ c[1] = "append" /\ (\A s \in Appended : rows[s].status = "ABSENT") /\ rows[Window].status = "WAITING_FOR_EXTERNAL"
  /\ HasStep(y, Window) /\ Releases(y) /\ (\A s \in Appended : HasStep(y, s)) /\ Mine(y) = Appended /\ Unapplied(c, y) = {}
  /\ \A d \in Appended : y.mine[d] = AppendedRow(rows, d)
  /\ y.ready = {d \in Appended : y.mine[d].pending = 0}

LEMMA AppendRows ==
  ASSUME NEW c, NEW x, NEW y, NEW rows \in [Steps -> StepRow], NEW status, Sound(rows, status), Appends(c, x, y, rows)
  PROVE  /\ WriteStory(c, y, rows) /\ OpenStory(c, y, rows) /\ KnowsThese(y, rows, Knows(x, rows) \cup Appended)
         /\ \A d \in Appended : y.mine[d] \in StepRow
<1>0. /\ Mine(x) = {} /\ c[1] = "append" /\ (\A s \in Appended : rows[s].status = "ABSENT") /\ rows[Window].status = "WAITING_FOR_EXTERNAL"
      /\ HasStep(y, Window) /\ Releases(y) /\ (\A s \in Appended : HasStep(y, s)) /\ Mine(y) = Appended /\ Unapplied(c, y) = {}
      /\ \A d \in Appended : y.mine[d] = AppendedRow(rows, d)
      /\ y.ready = {d \in Appended : y.mine[d].pending = 0}
  BY DEF Appends
<1> USE <1>0 DEF AppendedRow
<1>1. Appended \subseteq Steps /\ "BLOCKED" \notin Terminal /\ "ABSENT" \notin Terminal
  BY LocksAssumption DEF Terminal
<1>2. ASSUME NEW d \in Appended PROVE y.mine[d].status = "BLOCKED" /\ y.mine[d].job = FALSE
  <2>1. PICK a, b : y.mine[d] = Row("BLOCKED", a, b, FALSE)
    BY ZenonT(40)
  <2> QED BY <2>1 DEF Row
<1>3. ASSUME NEW s \in Steps
      PROVE  /\ s \in Appended => See(y, rows)[s].status = "BLOCKED"
             /\ s \notin Appended => See(y, rows)[s] = rows[s]
             /\ See(x, rows)[s] = rows[s]
  <2>1. s \in Appended => See(y, rows)[s] = y.mine[s]
    BY SeeRow
  <2>2. s \notin Appended => See(y, rows)[s] = rows[s]
    BY SeeRow
  <2>3. See(x, rows)[s] = rows[s]
    BY SeeRow
  <2> QED BY <1>2, <2>1, <2>2, <2>3
<1>4. Knows(y, rows) = Knows(x, rows) \cup Appended
  <2>1. \A s \in Steps : s \in Knows(y, rows) <=> s \in Knows(x, rows) \/ s \in Appended
    BY <1>1, <1>3 DEF Knows
  <2>2. Knows(y, rows) \subseteq Steps /\ Knows(x, rows) \subseteq Steps
    BY DEF Knows
  <2> QED BY <1>1, <2>1, <2>2
<1>5. Owns(c, y, rows)
  <2>1. \A s \in Appended : rows[s].job = FALSE
    BY <1>1 DEF Sound
  <2> QED BY <1>1, <1>2, <2>1 DEF Owns, Moves
<1>6. Ended(y, rows) = {}
  BY <1>1, <1>2 DEF Ended
<1>7. Follows(c, y, rows)
  BY <1>6 DEF Follows
<1>8. ASSUME NEW d \in Appended
      PROVE  /\ y.mine[d].pending = Cardinality(Pending(See(y, rows), Unapplied(c, y), d)) /\ y.mine[d].pending \in Nat
             /\ y.mine[d].unsatisfied = Cardinality(Unsatisfied(See(y, rows), Unapplied(c, y), d))
             /\ y.mine[d].unsatisfied \in Nat
  <2> DEFINE ended == {p \in Prereqs(d) \ Appended : rows[p].status \in Terminal}
             bad == {p \in ended : <<p, d>> \in OnSuccess /\ rows[p].status # "SUCCEEDED"}
  <2>1. y.mine[d].pending = Cardinality(Prereqs(d) \ ended) /\ y.mine[d].unsatisfied = Cardinality(bad)
    <3>1. y.mine[d] = Row("BLOCKED", Cardinality(Prereqs(d) \ ended), Cardinality(bad), FALSE)
      BY Zenon
    <3> HIDE DEF ended, bad
    <3> QED BY <3>1 DEF Row
  <2>2. Prereqs(d) \subseteq Steps
    BY PrereqsAre
  <2>3. Pending(See(y, rows), Unapplied(c, y), d) = Prereqs(d) \ ended
    <3>1. ASSUME NEW p \in Prereqs(d) PROVE See(y, rows)[p].status \notin Terminal <=> p \notin ended
      BY <1>1, <1>3, <2>2
    <3> HIDE DEF ended
    <3> QED BY <3>1, Zenon DEF Pending
  <2>4. Unsatisfied(See(y, rows), Unapplied(c, y), d) = bad
    <3>1. ASSUME NEW p \in Prereqs(d)
          PROVE  <<p, d>> \in OnSuccess /\ See(y, rows)[p].status \in {"FAILED", "CANCELED"} <=> p \in bad
      BY <1>1, <1>3, <2>2 DEF Terminal
    <3>2. bad \subseteq Prereqs(d)
      OBVIOUS
    <3> HIDE DEF bad
    <3> QED BY <3>1, <3>2, Zenon DEF Unsatisfied
  <2>5. Prereqs(d) \ ended \in SUBSET Steps /\ bad \in SUBSET Steps
    BY <2>2
  <2> HIDE DEF ended, bad
  <2> QED BY <2>1, <2>3, <2>4, <2>5, StepsFinite
<1>9. Counts(c, y, rows)
  BY <1>8, Zenon DEF Counts
<1>10. Lists(y) /\ OpenStory(c, y, rows)
  BY DEF Lists, OpenStory
<1>11. ASSUME NEW d \in Appended PROVE y.mine[d] \in StepRow
  <2>1. PICK a, b : y.mine[d] = Row("BLOCKED", a, b, FALSE)
    BY ZenonT(40)
  <2>2. a \in Nat /\ b \in Nat
    BY <1>8, <2>1 DEF Row
  <2> QED BY <2>1, <2>2 DEF Row, StepRow, Statuses
<1> QED BY <1>4, <1>5, <1>7, <1>9, <1>10, <1>11 DEF WriteStory, KnowsThese

(* The rows that a cancellation sweeps.                                    *)
Sweeps(c, x, y, rows, K, swept) ==
  /\ Mine(x) = {} /\ c[1] = "cancel" /\ K = Knows(x, rows) /\ (\A s \in K : HasStep(y, s)) /\ Mine(y) = K /\ Unapplied(c, y) = {}
  /\ swept = {s \in K : rows[s].status \notin Terminal}
  /\ \A s \in K :
              /\ y.mine[s].status = (IF s \in swept THEN "CANCELED" ELSE rows[s].status)
              /\ y.mine[s].job = rows[s].job
              /\ y.mine[s].pending = rows[s].pending - Cardinality(Prereqs(s) \cap swept)
              /\ y.mine[s].unsatisfied = rows[s].unsatisfied +
                   Cardinality({p \in Prereqs(s) \cap swept : <<p, s>> \in OnSuccess})

LEMMA SweepRows ==
  ASSUME NEW c, NEW x, NEW y, NEW rows \in [Steps -> StepRow], NEW status, Sound(rows, status),
         NEW K, NEW swept, Sweeps(c, x, y, rows, K, swept)
  PROVE  /\ WriteStory(c, y, rows) /\ OpenStory(c, y, rows) /\ KnowsThese(y, rows, K)
         /\ \A s \in K : y.mine[s].status \in Terminal /\ y.mine[s].pending \in Nat /\ y.mine[s].unsatisfied \in Nat
<1>0. /\ Mine(x) = {} /\ c[1] = "cancel" /\ K = Knows(x, rows) /\ (\A s \in K : HasStep(y, s)) /\ Mine(y) = K /\ Unapplied(c, y) = {}
      /\ swept = {s \in K : rows[s].status \notin Terminal}
      /\ \A s \in K :
              /\ y.mine[s].status = (IF s \in swept THEN "CANCELED" ELSE rows[s].status)
              /\ y.mine[s].job = rows[s].job
              /\ y.mine[s].pending = rows[s].pending - Cardinality(Prereqs(s) \cap swept)
              /\ y.mine[s].unsatisfied = rows[s].unsatisfied +
                   Cardinality({p \in Prereqs(s) \cap swept : <<p, s>> \in OnSuccess})
  BY DEF Sweeps
<1> USE <1>0
<1>1. K = {s \in Steps : rows[s].status # "ABSENT"} /\ "ABSENT" \notin Terminal /\ "CANCELED" \in Terminal
  BY SeeRow DEF Knows, Terminal
<1>2. \A s \in K : y.mine[s].status \in Terminal /\ (rows[s].status \in Terminal => y.mine[s].status = rows[s].status)
  BY <1>1
<1>3. ASSUME NEW s \in Steps
      PROVE  /\ s \in K => See(y, rows)[s] = y.mine[s]
             /\ s \notin K => See(y, rows)[s] = rows[s] /\ rows[s].status = "ABSENT"
  BY <1>1, SeeRow
<1>4. Knows(y, rows) = K
  <2>1. \A s \in Steps : See(y, rows)[s].status # "ABSENT" <=> s \in K
    BY <1>1, <1>2, <1>3
  <2> QED BY <1>1, <2>1 DEF Knows
<1>5. Owns(c, y, rows)
  BY <1>1, <1>2 DEF Owns, Moves, Terminal
<1>6. Follows(c, y, rows)
  BY <1>4 DEF Follows
<1>7. ASSUME NEW d \in K
      PROVE  /\ y.mine[d].pending = Cardinality(Pending(See(y, rows), Unapplied(c, y), d)) /\ y.mine[d].pending \in Nat
             /\ y.mine[d].unsatisfied = Cardinality(Unsatisfied(See(y, rows), Unapplied(c, y), d))
             /\ y.mine[d].unsatisfied \in Nat
  <2> DEFINE P == Pending(rows, {}, d)
             Q == Unsatisfied(rows, {}, d)
             B == Prereqs(d) \cap swept
             S == {p \in B : <<p, d>> \in OnSuccess}
             P2 == Pending(See(y, rows), Unapplied(c, y), d)
             Q2 == Unsatisfied(See(y, rows), Unapplied(c, y), d)
  <2>1. Prereqs(d) \subseteq Steps /\ d \in Steps /\ rows[d].status # "ABSENT"
    BY <1>1, PrereqsAre
  <2>2. rows[d].pending = Cardinality(P) /\ rows[d].unsatisfied = Cardinality(Q)
    BY <2>1, Zenon DEF Sound, Agree
  <2>3. P2 = P \ B /\ B \subseteq P
    <3>1. ASSUME NEW p \in Prereqs(d) PROVE /\ See(y, rows)[p].status \notin Terminal <=> rows[p].status \notin Terminal /\ p \notin B
                                            /\ p \in B => rows[p].status \notin Terminal
      <4>1. p \in Steps
        BY <2>1
      <4>2. CASE p \in K
        BY <1>2, <1>3, <4>1, <4>2
      <4>3. CASE p \notin K
        BY <1>1, <1>3, <4>1, <4>3
      <4> QED BY <4>2, <4>3
    <3>2. B \subseteq Prereqs(d)
      OBVIOUS
    <3> HIDE DEF B
    <3> QED BY <3>1, <3>2 DEF Pending
  <2>4. Q2 = Q \cup S /\ Q \cap S = {}
    <3>1. ASSUME NEW p \in Prereqs(d)
          PROVE  /\ <<p, d>> \in OnSuccess /\ See(y, rows)[p].status \in {"FAILED", "CANCELED"} <=>
                      (<<p, d>> \in OnSuccess /\ rows[p].status \in {"FAILED", "CANCELED"}) \/ p \in S
                 /\ p \in S => rows[p].status \notin {"FAILED", "CANCELED"}
      <4>1. p \in Steps
        BY <2>1
      <4>2. CASE p \in swept
        <5>1. See(y, rows)[p].status = "CANCELED" /\ rows[p].status \notin Terminal
          BY <1>3, <4>1, <4>2
        <5> QED BY <4>2, <5>1 DEF Terminal
      <4>3. CASE p \in K \ swept
        BY <1>2, <1>3, <4>1, <4>3
      <4>4. CASE p \notin K
        BY <1>3, <4>1, <4>4
      <4> QED BY <4>2, <4>3, <4>4
    <3>2. S \subseteq Prereqs(d)
      OBVIOUS
    <3> HIDE DEF S
    <3> QED BY <3>1, <3>2 DEF Unsatisfied
  <2>5. P \in SUBSET Steps /\ Q \in SUBSET Steps /\ S \in SUBSET Steps /\ B \in SUBSET Steps
    BY <2>1 DEF Pending, Unsatisfied
  <2>6. /\ y.mine[d].pending = rows[d].pending - Cardinality(B)
        /\ y.mine[d].unsatisfied = rows[d].unsatisfied + Cardinality(S)
    OBVIOUS
  <2> HIDE DEF P, Q, B, S, P2, Q2
  <2>7. /\ IsFiniteSet(P) /\ IsFiniteSet(Q) /\ IsFiniteSet(S) /\ IsFiniteSet(B)
        /\ Cardinality(P) \in Nat /\ Cardinality(Q) \in Nat /\ Cardinality(S) \in Nat /\ Cardinality(B) \in Nat
    BY <2>5, StepsFinite
  <2>8. Cardinality(P2) = Cardinality(P) - Cardinality(B) /\ Cardinality(P2) \in Nat
    <3>1. P \cap B = B
      BY <2>3
    <3>2. Cardinality(P \ B) = Cardinality(P) - Cardinality(P \cap B)
      BY <2>7, FS_Difference
    <3>3. P \ B \in SUBSET Steps
      BY <2>5
    <3> QED BY <2>3, <3>1, <3>2, <3>3, StepsFinite
  <2>9. Cardinality(Q2) = Cardinality(Q) + Cardinality(S)
    <3>1. Cardinality(Q \cup S) = Cardinality(Q) + Cardinality(S) - Cardinality(Q \cap S)
      BY <2>7, FS_Union
    <3>2. Cardinality(Q \cap S) = 0
      BY <2>4, FS_EmptySet
    <3> QED BY <2>4, <2>7, <3>1, <3>2
  <2> QED BY <2>2, <2>6, <2>7, <2>8, <2>9 DEF P2, Q2
<1>8. Counts(c, y, rows)
  BY <1>7, Zenon DEF Counts
<1>9. Lists(y) /\ OpenStory(c, y, rows)
  BY <1>2 DEF Lists, OpenStory, Terminal
<1> QED BY <1>2, <1>4, <1>5, <1>6, <1>7, <1>8, <1>9 DEF WriteStory, KnowsThese

-----------------------------------------------------------------------------
(* A transaction in the cascade: what every statement of it keeps.         *)

Running(c, x, rows) ==
  /\ c[1] # "cancel" /\ Releases(x) /\ x.run = "same"
  /\ c[1] = "external" => x.goal \in {"SUCCEEDED", "FAILED"}
  /\ \A s \in Steps : HasStep(x, s) => s \in Knows(x, rows)
  /\ c[1] = "append" => \A s \in Knows(x, rows) : HasStep(x, s)

LEMMA RunningIs ==
  ASSUME NEW c, NEW x, NEW rows, Story(c, x, rows), x.pc \in Cascading
  PROVE  Running(c, x, rows)
<1>1. x.pc \notin {"idle", "steps", "commit"}
  BY DEF Cascading
<1>2. \A s \in Steps : HasStep(x, s) => s \in Knows(x, rows)
  BY DEF Story, LockStory, Asked, HasStep
<1> QED BY <1>1, <1>2 DEF Story, ControlStory, WholeRun, Running

LEMMA RunningKept ==
  ASSUME NEW c, NEW x, NEW y, NEW rows, Running(c, x, rows), y.held \ {Shared("release"), Shared("run")} = x.held \ {Shared("release"), Shared("run")},
         x.held \subseteq y.held, y.run = x.run, y.goal = x.goal, Knows(y, rows) = Knows(x, rows)
  PROVE  Running(c, y, rows)
<1>1. \A s : HasStep(y, s) <=> HasStep(x, s)
  BY ExclusiveLocks DEF HasStep
<1>2. Releases(y)
  BY DEF Running, Releases
<1> QED BY <1>1, <1>2 DEF Running

LEMMA RunningStory ==
  ASSUME NEW c, NEW y, NEW rows, Running(c, y, rows), TxTyped(y), y.pc \in Cascading, WriteStory(c, y, rows), OpenStory(c, y, rows),
         y.pc = "cascade" => y.want = {} /\ y.ready \subseteq Mine(y),
         y.pc \in {"allows", "recompute"} => \A s : Exclusive("step", s) \notin y.want,
         y.pc = "dependents" => /\ y.queue # <<>> /\ y.ready = Dependents(Head(y.queue)) \cap Knows(y, rows)
                                /\ \A s \in Steps : Exclusive("step", s) \in y.want <=> s \in y.ready,
         y.pc = "allows" => y.ready # {} /\ y.ready \subseteq Mine(y) /\ Releasable(y.mine[Least(y.ready)]),
         y.pc = "recompute" => y.queue = <<>> /\ y.ready = {} /\ Exclusive("run", 0) \in y.want,
         Distinct(y.queue)
  PROVE  Story(c, y, rows)
<1>1. y.pc \in {"cascade", "dependents", "allows", "recompute"}
  BY DEF Cascading
<1>2. y.pc \notin {"idle", "job", "step", "release", "external_step", "external", "append", "steps", "commit"} \cup Canceling \cup Reading
  BY <1>1 DEF Canceling, Reading
<1>3. ControlStory(c, y, rows)
  BY <1>2 DEF ControlStory, Running
<1>4. ListStory(c, y, rows)
  BY <1>1 DEF ListStory
<1>5. LockStory(c, y, rows)
  <2>1. \A s \in Steps : Exclusive("step", s) \in Asked(y) => s \in Knows(y, rows)
    BY <1>1 DEF Asked, Running, HasStep
  <2>2. y.ready \subseteq Steps
    BY DEF TxTyped
  <2>3. y.pc = "dependents" => \A d \in y.ready : Exclusive("step", d) \in Asked(y)
    BY <2>2 DEF Asked
  <2>4. y.pc = "recompute" => Exclusive("run", 0) \in Asked(y)
    BY DEF Asked
  <2> QED BY <1>1, <2>1, <2>3, <2>4 DEF LockStory
<1>6. WholeRun(c, y, rows)
  BY <1>1 DEF WholeRun, Running
<1>7. CommitStory(y, rows)
  BY <1>2 DEF CommitStory, Running
<1> QED BY <1>3, <1>4, <1>5, <1>6, <1>7 DEF Story

(* A statement of the cascade that writes no row.                          *)
Advances(c, x, pc, want, held, queue, ready) ==
  /\ x.pc \in Cascading /\ pc \in Cascading /\ want \in SUBSET Locks
  /\ held = x.held \/ (held = x.held \cup {Shared("release")} /\ ReleaseIsFree(c))
  /\ queue \in Seq(Steps) /\ ready \in SUBSET Steps /\ Distinct(queue) /\ Elements(queue) = Elements(x.queue)
  /\ \A d \in Mine(x) : x.mine[d].status = "BLOCKED" /\ x.mine[d].pending = 0 => d \in ready
  /\ pc = "cascade" => want = {} /\ ready \subseteq Mine(x)
  /\ pc \in {"allows", "recompute"} => \A s : Exclusive("step", s) \notin want
  /\ pc = "dependents" => /\ queue # <<>> /\ ready = Dependents(Head(queue)) \cap Knows(x, step)
                          /\ \A s \in Steps : Exclusive("step", s) \in want <=> s \in ready
  /\ pc = "allows" => ready # {} /\ ready \subseteq Mine(x) /\ Releasable(x.mine[Least(ready)])
  /\ pc = "recompute" => queue = <<>> /\ ready = {} /\ Exclusive("run", 0) \in want

LEMMA CascadeReads ==
  ASSUME LocksInv, NEW c \in Clients, NEW x, x = tx[c], NEW y, NEW pc, NEW want, NEW held, NEW queue, NEW ready,
         y = Tx(pc, want, held, x.mine, x.run, x.goal, queue, ready), Goes(c, y),
         Advances(c, x, pc, want, held, queue, ready)
  PROVE  Keeps(c, y)
<1>0. /\ x.pc \in Cascading /\ pc \in Cascading /\ want \in SUBSET Locks
      /\ held = x.held \/ (held = x.held \cup {Shared("release")} /\ ReleaseIsFree(c))
      /\ queue \in Seq(Steps) /\ ready \in SUBSET Steps /\ Distinct(queue) /\ Elements(queue) = Elements(x.queue)
      /\ \A d \in Mine(x) : x.mine[d].status = "BLOCKED" /\ x.mine[d].pending = 0 => d \in ready
      /\ pc = "cascade" => want = {} /\ ready \subseteq Mine(x)
      /\ pc \in {"allows", "recompute"} => \A s : Exclusive("step", s) \notin want
      /\ pc = "dependents" => /\ queue # <<>> /\ ready = Dependents(Head(queue)) \cap Knows(x, step)
                              /\ \A s \in Steps : Exclusive("step", s) \in want <=> s \in ready
      /\ pc = "allows" => ready # {} /\ ready \subseteq Mine(x) /\ Releasable(x.mine[Least(ready)])
      /\ pc = "recompute" => queue = <<>> /\ ready = {} /\ Exclusive("run", 0) \in want
  BY DEF Advances
<1> USE <1>0
<1>1. /\ y.pc = pc /\ y.want = want /\ y.held = held /\ y.mine = x.mine /\ y.run = x.run
      /\ y.goal = x.goal /\ y.queue = queue /\ y.ready = ready
      /\ Shaped(y)
  BY Fields
<1>2. Story(c, x, step) /\ TxTyped(x) /\ WriteStory(c, x, step) /\ OpenStory(c, x, step) /\ Running(c, x, step)
  BY RunningIs DEF LocksInv, Story
<1>3. Mine(y) = Mine(x) /\ Knows(y, step) = Knows(x, step)
  <2>1. y.mine = x.mine
    BY <1>1
  <2> QED BY <2>1, Zenon DEF Mine, Knows, See
<1>4. x.pc # "release" /\ pc # "release"
  BY DEF Cascading
<1>5. Unapplied(c, y) = Unapplied(c, x)
  <2>1. Queued(y) = Queued(x)
    BY <1>1 DEF Queued
  <2> QED BY <1>1, <1>4, <2>1 DEF Unapplied
<1>6. x.held \subseteq y.held
  BY <1>1
<1>7. WriteStory(c, y, step) /\ OpenStory(c, y, step)
  BY <1>1, <1>2, <1>3, <1>5, <1>6, WritesKept
<1>8. Running(c, y, step)
  <2>1. y.held \ {Shared("release"), Shared("run")} = x.held \ {Shared("release"), Shared("run")}
    BY <1>1
  <2> QED BY <1>1, <1>2, <1>3, <1>6, <2>1, RunningKept
<1>9. TxTyped(y)
  <2>1. pc \in Pcs /\ held \subseteq Locks
    BY <1>2, ExclusiveLocks DEF Pcs, TxTyped
  <2>2. Mine(y) \subseteq Steps /\ \A s \in Mine(y) : y.mine[s] \in StepRow
    BY <1>1, <1>2, <1>3 DEF TxTyped
  <2>3. x.run \in OpenRun \cup ClosedRun \cup {"same"}
    BY <1>2 DEF TxTyped
  <2> QED BY <1>1, <2>1, <2>2, <2>3 DEF TxTyped
<1>10. Story(c, y, step)
  BY <1>1, <1>3, <1>7, <1>8, <1>9, RunningStory
<1>11. \A o \in Clients \ {c} : Apart(y, tx[o])
  <2>1. CASE held = x.held
    BY <1>1, <2>1, ApartNow
  <2>2. CASE held = x.held \cup {Shared("release")} /\ ReleaseIsFree(c)
    BY <1>1, <2>2, ApartFree
  <2> QED BY <2>1, <2>2
<1> QED BY <1>10, <1>11 DEF Keeps, Goes, LocksInv, RowsTyped

LEMMA FirstWritten ==
  ASSUME NEW c, NEW x, x = tx[c], Mine(x) = {}, NEW s \in Steps, NEW new,
         Shaped(x),
         NEW t, t = Write(x, Written(c, s, new)), NEW m, m = [r \in {s} |-> [step[s] EXCEPT !.status = new]]
  PROVE  t = Tx(x.pc, x.want, x.held, m, x.run, x.goal, x.queue, x.ready)
<1>1. View(c)[s] = step[s]
  BY SeeRow, ViewIs
<1>2. Written(c, s, new) = [r \in {s} |-> [step[s] EXCEPT !.status = new]]
  BY <1>1 DEF Written
<1>3. Over(Written(c, s, new), x.mine) = [r \in {s} |-> [step[s] EXCEPT !.status = new]]
  <2>1. DOMAIN x.mine = {}
    BY DEF Mine
  <2>2. PICK row : row = [step[s] EXCEPT !.status = new]
    OBVIOUS
  <2>3. Over([r \in {s} |-> row], x.mine) = [r \in {s} |-> row]
    BY <2>1 DEF Over
  <2> QED BY <1>2, <2>2, <2>3, Zenon
<1>4. Write(x, Written(c, s, new)) = Tx(x.pc, x.want, x.held, Over(Written(c, s, new), x.mine), x.run, x.goal, x.queue, x.ready)
  BY WriteTx
<1> QED BY <1>3, <1>4, Zenon

(* A transaction is rolled back.                                           *)
LEMMA RollbackKeeps ==
  ASSUME LocksInv, NEW c \in Clients, RolledBack(c)
  PROVE  \E y : Keeps(c, y)
<1>1. PICK y : y = Idle
  OBVIOUS
<1>2. Story(c, y, step)
  BY <1>1, IdleStory, Zenon
<1>3. \A o \in Clients \ {c} : Apart(y, tx[o])
  BY <1>1 DEF Apart, Idle
<1>4. tx' = [tx EXCEPT ![c] = y] /\ UNCHANGED <<step, run, jobs>>
  BY <1>1, Zenon DEF RolledBack
<1> QED BY <1>2, <1>3, <1>4 DEF Keeps, LocksInv, RowsTyped

LEMMA LockGranted ==
  ASSUME LocksInv, NEW c \in Clients, Lock(c)
  PROVE  \E y : Keeps(c, y)
<1>1. PICK x : x = tx[c]
  OBVIOUS
<1>2. PICK n : n = NextLock(c)
  OBVIOUS
<1>3. Story(c, x, step) /\ x.want \subseteq Locks /\ x.want # {} /\ jobs \in [Steps -> Nat] /\ c \in DOMAIN tx
      /\ Shaped(x)
  BY <1>1 DEF LocksInv, Story, TxTyped, RowsTyped, Lock
<1>4. n \in x.want
  BY <1>1, <1>2, <1>3, NextLockIn
<1>5. PICK y : y = Tx(x.pc, x.want \ {n}, x.held \cup {n}, x.mine, x.run, x.goal, x.queue, x.ready)
  OBVIOUS
<1>6. tx' = [tx EXCEPT ![c] = y]
  <2>1. tx' = [tx EXCEPT ![c].held = @ \cup {n}, ![c].want = @ \ {n}]
    BY <1>2, Zenon DEF Lock
  <2>2. DOMAIN tx' = DOMAIN tx /\ tx'[c] = [tx[c] EXCEPT !.held = @ \cup {n}, !.want = @ \ {n}]
        /\ \A o \in DOMAIN tx : o # c => tx'[o] = tx[o]
    BY <1>3, <2>1
  <2>3. tx'[c] = [x EXCEPT !.held = x.held \cup {n}, !.want = x.want \ {n}]
    BY <1>1, <2>2, Zenon
  <2>4. PICK pc, want, held, mine, status, goal, queue, ready :
          /\ pc = x.pc /\ want = x.want /\ held = x.held /\ mine = x.mine /\ status = x.run /\ goal = x.goal
          /\ queue = x.queue /\ ready = x.ready
    BY Zenon
  <2>5. PICK w, h : w = want \ {n} /\ h = held \cup {n}
    BY Zenon
  <2>6. x = Tx(pc, want, held, mine, status, goal, queue, ready)
    BY <1>3, <2>4, Zenon DEF Shaped
  <2>7. PICK u : u = [Tx(pc, want, held, mine, status, goal, queue, ready) EXCEPT !.held = h, !.want = w]
    OBVIOUS
  <2>8. u = Tx(pc, w, h, mine, status, goal, queue, ready)
    BY <2>7 DEF Tx
  <2>9. tx'[c] = y
    <3>1. tx'[c] = [x EXCEPT !.held = h, !.want = w]
      BY <2>3, <2>4, <2>5, Zenon
    <3>2. tx'[c] = u
      BY <2>6, <2>7, <3>1, Zenon
    <3>3. y = Tx(pc, w, h, mine, status, goal, queue, ready)
      BY <1>5, <2>4, <2>5, Zenon
    <3> QED BY <2>8, <3>2, <3>3, Zenon
  <2> HIDE <2>3, <2>4, <2>5, <2>6, <2>7, <2>8
  <2>10. PICK d : d = [tx EXCEPT ![c] = y]
    OBVIOUS
  <2>11. DOMAIN d = DOMAIN tx /\ d[c] = y /\ (\A o \in DOMAIN tx : o # c => d[o] = tx[o]) /\ d = [o \in DOMAIN tx |-> d[o]]
    BY <1>3, <2>10
  <2>12. tx' = [o \in DOMAIN tx |-> tx'[o]]
    BY <2>1
  <2>13. tx' = d
    BY <2>2, <2>9, <2>11, <2>12, ZenonT(40)
  <2> QED BY <2>10, <2>13
<1>7. Story(c, y, step)
  BY <1>3, <1>4, <1>5, LockKeeps
<1>8. \A o \in Clients \ {c} : Apart(y, tx[o])
  <2>1. y.held = x.held \cup {n}
    BY <1>5, Fields
  <2>2. ASSUME NEW o \in Clients \ {c}, NEW h \in y.held, NEW k \in tx[o].held, h.row = k.row
        PROVE  h.mode = "S" /\ k.mode = "S"
    <3>1. CASE h \in x.held
      BY <1>1, <2>2, <3>1 DEF LocksInv, LocksApart
    <3>2. CASE h = n
      <4>1. Holders(c, n) = {}
        BY <1>1, <1>2, <1>3 DEF Lock, WaitsFor
      <4>2. "X" \notin {k.mode, n.mode}
        BY <2>2, <3>2, <4>1 DEF Holders
      <4>3. k \in Locks /\ n \in Locks
        BY <1>3, <1>4 DEF LocksInv, Story, TxTyped
      <4> QED BY <3>2, <4>2, <4>3 DEF Locks
    <3> QED BY <2>1, <2>2, <3>1, <3>2
  <2> QED BY <2>2 DEF Apart
<1> QED BY <1>6, <1>7, <1>8 DEF Keeps, Lock, LocksInv, RowsTyped

(* StepLocked, ReleaseLocked.                                              *)
LEMMA JobStep ==
  ASSUME LocksInv, NEW c \in Clients, c[1] = "job", StepLocked(c, c[2])
  PROVE  \E y : Keeps(c, y)
<1>1. PICK x : x = tx[c]
  OBVIOUS
<1>2. PICK s \in Steps : s = c[2]
  BY ClientKinds
<1>3. x.pc = "step" /\ x.want = {} /\ x.pc \in Reading
  BY <1>1 DEF StepLocked, At, Reading
<1>4. Story(c, x, step) /\ TxTyped(x) /\ Mine(x) = {} /\ step \in [Steps -> StepRow] /\ Sound(step, run)
  BY <1>1, <1>3 DEF LocksInv, RowsTyped, Story, ControlStory
<1>5. View(c)[s] = step[s]
  BY <1>1, <1>4, SeeRow, ViewIs
<1>6. ASSUME NEW new \in {"ENQUEUED", "RUNNING"} \cup Terminal, step[s].status \notin Terminal,
             new \in Terminal \/ step[s].status \in {"ENQUEUED", "RUNNING"}, NEW pc, NEW want,
             pc = (IF new \in Terminal THEN "release" ELSE "commit"), want = (IF new \in Terminal THEN {Shared("release")} ELSE {}),
             GoTo(c, Write(tx[c], Written(c, s, new)), pc, want)
      PROVE  \E y : Keeps(c, y)
  <2>1. PICK t : t = Write(x, Written(c, s, new))
    OBVIOUS
  <2>2. PICK m : m = [r \in {s} |-> [step[s] EXCEPT !.status = new]]
    OBVIOUS
  <2>3. t = Tx(x.pc, x.want, x.held, m, x.run, x.goal, x.queue, x.ready)
    <3>1. Shaped(x)
      BY <1>4 DEF TxTyped
    <3> QED BY <1>1, <1>4, <2>1, <2>2, <3>1, FirstWritten
  <2>4. /\ t.held = x.held /\ t.mine = m /\ t.run = x.run /\ t.goal = x.goal /\ t.queue = x.queue /\ t.ready = x.ready
        /\ Shaped(t)
    BY <2>3, Fields
  <2>5. PICK y : y = Tx(pc, want, x.held, m, x.run, x.goal, x.queue, x.ready)
    OBVIOUS
  <2>6. Goes(c, y)
    <3>1. GoTo(c, t, pc, want)
      BY <1>1, <1>6, <2>1, Zenon
    <3>2. Goes(c, Tx(pc, want, t.held, t.mine, t.run, t.goal, t.queue, t.ready))
      BY <2>4, <3>1, GoesOn
    <3> QED BY <2>4, <2>5, <3>2, Zenon
  <2>7. y = Tx(pc, want, x.held, [r \in {c[2]} |-> [step[c[2]] EXCEPT !.status = new]], x.run, x.goal, x.queue, x.ready)
    BY <1>2, <2>2, <2>5, Zenon
  <2>8. Story(c, y, step)
    BY <1>2, <1>3, <1>4, <1>6, <2>7, JobWrites
  <2>9. y.held = tx[c].held
    BY <1>1, <2>5, Fields
  <2>10. \A o \in Clients \ {c} : Apart(y, tx[o])
    BY <2>9, ApartNow
  <2> QED BY <2>6, <2>8, <2>10 DEF Keeps, Goes, LocksInv, RowsTyped
<1>7. "RUNNING" \notin Terminal /\ "ENQUEUED" \notin Terminal
  BY DEF Terminal
<1>8. CASE step[s].status \in {"ENQUEUED", "RUNNING"} /\ GoTo(c, Write(tx[c], Written(c, s, "RUNNING")), "commit", {})
  BY <1>6, <1>7, <1>8
<1>9. CASE step[s].status = "RUNNING" /\ GoTo(c, Write(tx[c], Written(c, s, "ENQUEUED")), "commit", {})
  BY <1>6, <1>7, <1>9
<1>10. CASE tx[c].goal \in Terminal /\ step[s].status \notin Terminal /\ GoTo(c, Write(tx[c], Written(c, s, tx[c].goal)), "release", {Shared("release")})
  <2>1. PICK new : new = tx[c].goal
    OBVIOUS
  <2> QED BY <1>6, <1>10, <2>1
<1>11. CASE GoTo(c, tx[c], "commit", {})
  BY <1>1, <1>3, <1>11, QuitKeeps
<1> QED BY <1>2, <1>5, <1>8, <1>9, <1>10, <1>11, Zenon DEF StepLocked

LEMMA ExceptTx ==
  ASSUME NEW x, Shaped(x), NEW a
  PROVE  /\ [x EXCEPT !.queue = a] = Tx(x.pc, x.want, x.held, x.mine, x.run, x.goal, a, x.ready)
         /\ [x EXCEPT !.ready = a] = Tx(x.pc, x.want, x.held, x.mine, x.run, x.goal, x.queue, a)
         /\ [x EXCEPT !.held = a] = Tx(x.pc, x.want, a, x.mine, x.run, x.goal, x.queue, x.ready)
         /\ [x EXCEPT !.run = a] = Tx(x.pc, x.want, x.held, x.mine, a, x.goal, x.queue, x.ready)
<1>1. PICK pc, want, held, mine, status, goal, queue, ready :
        /\ pc = x.pc /\ want = x.want /\ held = x.held /\ mine = x.mine /\ status = x.run /\ goal = x.goal
        /\ queue = x.queue /\ ready = x.ready
  BY Zenon
<1>2. PICK t : t = Tx(pc, want, held, mine, status, goal, queue, ready)
  OBVIOUS
<1>3. x = t
  BY <1>1, <1>2, Zenon DEF Shaped
<1>4. /\ [t EXCEPT !.queue = a] = Tx(pc, want, held, mine, status, goal, a, ready)
      /\ [t EXCEPT !.ready = a] = Tx(pc, want, held, mine, status, goal, queue, a)
      /\ [t EXCEPT !.held = a] = Tx(pc, want, a, mine, status, goal, queue, ready)
      /\ [t EXCEPT !.run = a] = Tx(pc, want, held, mine, a, goal, queue, ready)
  BY <1>2 DEF Tx
<1> QED BY <1>1, <1>3, <1>4, Zenon

LEMMA ExceptQueueHeld ==
  ASSUME NEW x, Shaped(x), NEW a, NEW b
  PROVE  [x EXCEPT !.queue = a, !.held = b] = Tx(x.pc, x.want, b, x.mine, x.run, x.goal, a, x.ready)
<1>1. PICK pc, want, held, mine, status, goal, queue, ready :
        /\ pc = x.pc /\ want = x.want /\ held = x.held /\ mine = x.mine /\ status = x.run /\ goal = x.goal
        /\ queue = x.queue /\ ready = x.ready
  BY Zenon
<1>2. x = Tx(pc, want, held, mine, status, goal, queue, ready)
  BY <1>1, Zenon DEF Shaped
<1>3. PICK u : u = [Tx(pc, want, held, mine, status, goal, queue, ready) EXCEPT !.queue = a, !.held = b]
  OBVIOUS
<1>4. u = Tx(pc, want, b, mine, status, goal, a, ready)
  BY <1>3 DEF Tx
<1> QED BY <1>1, <1>2, <1>3, <1>4, Zenon

LEMMA ExceptHeldReady ==
  ASSUME NEW x, Shaped(x), NEW a, NEW b
  PROVE  [x EXCEPT !.held = a, !.ready = b] = Tx(x.pc, x.want, a, x.mine, x.run, x.goal, x.queue, b)
<1>1. PICK pc, want, held, mine, status, goal, queue, ready :
        /\ pc = x.pc /\ want = x.want /\ held = x.held /\ mine = x.mine /\ status = x.run /\ goal = x.goal
        /\ queue = x.queue /\ ready = x.ready
  BY Zenon
<1>2. x = Tx(pc, want, held, mine, status, goal, queue, ready)
  BY <1>1, Zenon DEF Shaped
<1>3. PICK u : u = [Tx(pc, want, held, mine, status, goal, queue, ready) EXCEPT !.held = a, !.ready = b]
  OBVIOUS
<1>4. u = Tx(pc, want, a, mine, status, goal, queue, b)
  BY <1>3 DEF Tx
<1> QED BY <1>1, <1>2, <1>3, <1>4, Zenon

LEMMA ExceptReadyPc ==
  ASSUME NEW x, Shaped(x), NEW a, NEW b
  PROVE  [x EXCEPT !.ready = a, !.pc = b] = Tx(b, x.want, x.held, x.mine, x.run, x.goal, x.queue, a)
<1>1. PICK pc, want, held, mine, status, goal, queue, ready :
        /\ pc = x.pc /\ want = x.want /\ held = x.held /\ mine = x.mine /\ status = x.run /\ goal = x.goal
        /\ queue = x.queue /\ ready = x.ready
  BY Zenon
<1>2. x = Tx(pc, want, held, mine, status, goal, queue, ready)
  BY <1>1, Zenon DEF Shaped
<1>3. PICK u : u = [Tx(pc, want, held, mine, status, goal, queue, ready) EXCEPT !.ready = a, !.pc = b]
  OBVIOUS
<1>4. u = Tx(b, want, held, mine, status, goal, queue, a)
  BY <1>3 DEF Tx
<1> QED BY <1>1, <1>2, <1>3, <1>4, Zenon

LEMMA ReleaseGranted ==
  ASSUME LocksInv, NEW c \in Clients, c[1] = "job", ReleaseLocked(c, c[2])
  PROVE  \E y : Keeps(c, y)
<1>1. PICK x : x = tx[c]
  OBVIOUS
<1>2. PICK s \in Steps : s = c[2]
  BY ClientKinds
<1>3. x.pc = "release" /\ x.want = {} /\ GoTo(c, [x EXCEPT !.queue = <<s>>], "cascade", {})
  BY <1>1, <1>2, Zenon DEF ReleaseLocked, At
<1>4. /\ Story(c, x, step) /\ TxTyped(x) /\ WriteStory(c, x, step) /\ OpenStory(c, x, step) /\ x.queue = <<>> /\ x.ready = {}
      /\ Shaped(x) /\ x.run = "same"
  BY <1>1, <1>3 DEF LocksInv, Story, ListStory, ControlStory, TxTyped
<1>5. PICK t : t = [x EXCEPT !.queue = <<s>>]
  OBVIOUS
<1>6. t = Tx(x.pc, x.want, x.held, x.mine, x.run, x.goal, <<s>>, x.ready)
  BY <1>4, <1>5, ExceptTx, Zenon
<1>7. /\ t.held = x.held /\ t.mine = x.mine /\ t.run = x.run /\ t.goal = x.goal /\ t.queue = <<s>> /\ t.ready = x.ready
      /\ Shaped(t)
  BY <1>6, Fields
<1>8. PICK y : y = Tx("cascade", {}, x.held, x.mine, x.run, x.goal, <<s>>, x.ready)
  OBVIOUS
<1>9. Goes(c, y)
  <2>1. GoTo(c, t, "cascade", {})
    BY <1>3, <1>5, Zenon
  <2>2. Goes(c, Tx("cascade", {}, t.held, t.mine, t.run, t.goal, t.queue, t.ready))
    BY <1>7, <2>1, GoesOn
  <2> QED BY <1>7, <1>8, <2>2, Zenon
<1>10. /\ y.pc = "cascade" /\ y.want = {} /\ y.held = x.held /\ y.mine = x.mine /\ y.run = x.run
       /\ y.goal = x.goal /\ y.queue = <<s>> /\ y.ready = x.ready
       /\ Shaped(y)
  BY <1>8, Fields
<1>11. Mine(y) = Mine(x) /\ Knows(y, step) = Knows(x, step)
  BY <1>10, Zenon DEF Mine, Knows, See
<1>12. Unapplied(c, y) = Unapplied(c, x)
  <2>1. Queued(y) = {s} /\ Queued(x) = {}
    BY <1>4, <1>10 DEF Queued, Elements
  <2> QED BY <1>2, <1>3, <1>10, <2>1 DEF Unapplied
<1>13. WriteStory(c, y, step) /\ OpenStory(c, y, step)
  <2>1. \A d \in Mine(x) : x.mine[d].status = "BLOCKED" /\ x.mine[d].pending = 0 => d \in y.ready
    BY <1>4, <1>10, Zenon DEF WriteStory, Lists
  <2>2. y.mine = x.mine /\ x.held \subseteq y.held
    BY <1>10
  <2> QED BY <1>4, <1>12, <2>1, <2>2, WritesKept
<1>14. Running(c, y, step)
  <2>1. Releases(y)
    BY <1>3, <1>4, <1>10, AskedIsHeld DEF Story, LockStory, Releases
  <2>2. \A r \in Steps : HasStep(y, r) => r \in Knows(y, step)
    BY <1>4, <1>10, <1>11 DEF Story, LockStory, Asked, HasStep
  <2> QED BY <1>4, <1>10, <2>1, <2>2 DEF Running
<1>15. TxTyped(y)
  <2>1. "cascade" \in Pcs /\ <<s>> \in Seq(Steps)
    BY DEF Pcs, Cascading
  <2>2. Mine(y) \subseteq Steps /\ \A r \in Mine(y) : y.mine[r] \in StepRow
    BY <1>4, <1>10, <1>11 DEF TxTyped
  <2> QED BY <1>4, <1>10, <2>1, <2>2 DEF TxTyped
<1>16. Story(c, y, step)
  <2>1. Distinct(y.queue) /\ y.pc \in Cascading /\ y.ready \subseteq Mine(y)
    BY <1>4, <1>10 DEF Distinct, Cascading
  <2> QED BY <1>10, <1>13, <1>14, <1>15, <2>1, RunningStory
<1>17. \A o \in Clients \ {c} : Apart(y, tx[o])
  BY <1>1, <1>10, ApartNow
<1> QED BY <1>9, <1>16, <1>17 DEF Keeps, Goes, LocksInv, RowsTyped

LEMMA ExternalStep ==
  ASSUME LocksInv, NEW c \in Clients, c[1] = "external", ExternalLocked(c, c[2])
  PROVE  \E y : Keeps(c, y)
<1>1. PICK x : x = tx[c]
  OBVIOUS
<1>2. PICK s \in Steps : s = c[2]
  BY ClientKinds
<1>3. x.pc = "external" /\ x.want = {} /\ x.pc \in Reading
  BY <1>1 DEF ExternalLocked, At, Reading
<1>4. Story(c, x, step) /\ TxTyped(x) /\ Mine(x) = {} /\ step \in [Steps -> StepRow] /\ Sound(step, run)
  BY <1>1, <1>3 DEF LocksInv, RowsTyped, Story, ControlStory
<1>5. View(c)[s] = step[s]
  BY <1>1, <1>4, SeeRow, ViewIs
<1>6. CASE GoTo(c, tx[c], "commit", {})
  BY <1>1, <1>3, <1>6, QuitKeeps
<1>7. CASE RolledBack(c)
  BY <1>7, RollbackKeeps
<1>8. CASE /\ step[s].status = "WAITING_FOR_EXTERNAL" /\ ReleaseIsFree(c)
           /\ GoTo(c, [Write(x, Written(c, s, x.goal)) EXCEPT !.queue = <<s>>, !.held = @ \cup {Shared("release")}], "cascade", {})
  <2>1. PICK t : t = Write(x, Written(c, s, x.goal))
    OBVIOUS
  <2>2. PICK m : m = [r \in {s} |-> [step[s] EXCEPT !.status = x.goal]]
    OBVIOUS
  <2>3. t = Tx(x.pc, x.want, x.held, m, x.run, x.goal, x.queue, x.ready)
    <3>1. Shaped(x)
      BY <1>4 DEF TxTyped
    <3>2. PICK new : new = x.goal
      OBVIOUS
    <3> QED BY <1>1, <1>4, <2>1, <2>2, <3>1, <3>2, FirstWritten
  <2>4. /\ t.held = x.held /\ t.mine = m /\ t.run = x.run /\ t.goal = x.goal /\ t.queue = x.queue /\ t.ready = x.ready
        /\ Shaped(t)
    BY <2>3, Fields
  <2>5. PICK u : u = [t EXCEPT !.queue = <<s>>, !.held = x.held \cup {Shared("release")}]
    OBVIOUS
  <2>6. u = Tx(t.pc, t.want, x.held \cup {Shared("release")}, t.mine, t.run, t.goal, <<s>>, t.ready)
    <3>1. PICK q, h : q = <<s>> /\ h = x.held \cup {Shared("release")}
      BY Zenon
    <3>2. u = [t EXCEPT !.queue = q, !.held = h]
      BY <2>5, <3>1, Zenon
    <3>3. Shaped(t)
      BY <2>4
    <3>4. [t EXCEPT !.queue = q, !.held = h] = Tx(t.pc, t.want, h, t.mine, t.run, t.goal, q, t.ready)
      BY <3>3, ExceptQueueHeld, Zenon
    <3> QED BY <3>1, <3>2, <3>4, Zenon
  <2>7. /\ u.held = x.held \cup {Shared("release")} /\ u.mine = m /\ u.run = x.run /\ u.goal = x.goal /\ u.queue = <<s>>
        /\ u.ready = x.ready
        /\ Shaped(u)
    <3>1. /\ u.held = x.held \cup {Shared("release")} /\ u.mine = t.mine /\ u.run = t.run /\ u.goal = t.goal
          /\ u.queue = <<s>> /\ u.ready = t.ready
          /\ Shaped(u)
      BY <2>6, Fields
    <3> QED BY <2>4, <3>1, Zenon
  <2>8. PICK y : y = Tx("cascade", {}, x.held \cup {Shared("release")}, m, x.run, x.goal, <<s>>, x.ready)
    OBVIOUS
  <2>9. Goes(c, y)
    <3>1. GoTo(c, u, "cascade", {})
      BY <1>8, <2>1, <2>4, <2>5, Zenon
    <3>2. Goes(c, Tx("cascade", {}, u.held, u.mine, u.run, u.goal, u.queue, u.ready))
      BY <2>7, <3>1, GoesOn
    <3> QED BY <2>7, <2>8, <3>2, Zenon
  <2>10. y = Tx("cascade", {}, x.held \cup {Shared("release")},
                [r \in {c[2]} |-> [step[c[2]] EXCEPT !.status = x.goal]], x.run, x.goal, <<c[2]>>, x.ready)
    BY <1>2, <2>2, <2>8, Zenon
  <2>11. Story(c, y, step)
    BY <1>2, <1>3, <1>4, <1>8, <2>10, ExternalWrites
  <2>12. y.held \subseteq tx[c].held \cup {Shared("release")}
    BY <1>1, <2>8, Fields
  <2>13. \A o \in Clients \ {c} : Apart(y, tx[o])
    BY <1>8, <2>12, ApartFree
  <2> QED BY <2>9, <2>11, <2>13 DEF Keeps, Goes, LocksInv, RowsTyped
<1> QED BY <1>1, <1>2, <1>5, <1>6, <1>7, <1>8, Zenon DEF ExternalLocked

(* A statement of the cascade that writes rows.                            *)
LEMMA CascadeWrites ==
  ASSUME LocksInv, NEW c \in Clients, NEW x, x = tx[c], x.pc \in Cascading, NEW y, NEW mine, NEW queue, NEW ready,
         y = Tx("cascade", {}, x.held, mine, x.run, x.goal, queue, ready),
         tx' = [tx EXCEPT ![c] = y], UNCHANGED <<step, run>>, jobs' \in [Steps -> Nat],
         DOMAIN mine \subseteq Steps, \A s \in DOMAIN mine : mine[s] \in StepRow,
         queue \in Seq(Steps), Distinct(queue), ready \subseteq DOMAIN mine,
         WriteStory(c, y, step), OpenStory(c, y, step), Knows(y, step) = Knows(x, step)
  PROVE  Keeps(c, y)
<1>1. /\ y.pc = "cascade" /\ y.want = {} /\ y.held = x.held /\ y.mine = mine /\ y.run = x.run
      /\ y.goal = x.goal /\ y.queue = queue /\ y.ready = ready /\ Shaped(y)
  BY Fields
<1>2. Story(c, x, step) /\ TxTyped(x) /\ Running(c, x, step)
  BY RunningIs DEF LocksInv, Story
<1>3. Running(c, y, step)
  <2>1. x.held \subseteq y.held /\ y.held \ {Shared("release"), Shared("run")} = x.held \ {Shared("release"), Shared("run")}
    BY <1>1
  <2> QED BY <1>1, <1>2, <2>1, RunningKept
<1>4. TxTyped(y)
  <2>1. y.pc \in Pcs /\ y.held \subseteq Locks /\ y.run \in OpenRun \cup ClosedRun \cup {"same"}
    BY <1>1, <1>2 DEF Pcs, Cascading, TxTyped
  <2>2. Mine(y) \subseteq Steps /\ \A s \in Mine(y) : y.mine[s] \in StepRow
    BY <1>1 DEF Mine
  <2>3. y.ready \subseteq Steps /\ y.queue \in Seq(Steps) /\ y.want \subseteq Locks
    BY <1>1
  <2> QED BY <1>1, <2>1, <2>2, <2>3, Zenon DEF TxTyped
<1>5. Story(c, y, step)
  <2>1. y.pc \in Cascading /\ y.ready \subseteq Mine(y)
    BY <1>1 DEF Cascading, Mine
  <2> QED BY <1>1, <1>3, <1>4, <2>1, RunningStory
<1>6. \A o \in Clients \ {c} : Apart(y, tx[o])
  BY <1>1, ApartNow
<1> QED BY <1>5, <1>6 DEF Keeps

LEMMA CascadeFacts ==
  ASSUME LocksInv, NEW c \in Clients, NEW x, x = tx[c], x.pc \in Cascading
  PROVE  /\ Story(c, x, step) /\ TxTyped(x) /\ WriteStory(c, x, step) /\ OpenStory(c, x, step) /\ Shaped(x)
         /\ Lists(x) /\ Owns(c, x, step) /\ Mine(x) \subseteq Steps /\ (\A s \in Mine(x) : x.mine[s] \in StepRow)
         /\ x.queue \in Seq(Steps) /\ Distinct(x.queue) /\ x.ready \subseteq Steps /\ Unapplied(c, x) = Elements(x.queue)
         /\ x.pc \in {"cascade", "allows"} => x.ready \subseteq Mine(x)
         /\ step \in [Steps -> StepRow] /\ Sound(step, run) /\ jobs \in [Steps -> Nat] /\ c[1] # "cancel" /\ x.run = "same"
<1>1. Story(c, x, step) /\ TxTyped(x) /\ WriteStory(c, x, step) /\ OpenStory(c, x, step) /\ Shaped(x)
  BY DEF LocksInv, Story, TxTyped
<1>2. /\ Lists(x) /\ Owns(c, x, step) /\ Mine(x) \subseteq Steps /\ (\A s \in Mine(x) : x.mine[s] \in StepRow)
      /\ x.queue \in Seq(Steps) /\ Distinct(x.queue) /\ x.ready \subseteq Steps
      /\ (x.pc \in {"cascade", "allows"} => x.ready \subseteq Mine(x))
  BY <1>1 DEF Story, WriteStory, TxTyped, ListStory
<1>3. Unapplied(c, x) = Elements(x.queue)
  BY DEF Unapplied, Queued, Cascading
<1>4. c[1] # "cancel" /\ x.run = "same"
  BY <1>1 DEF Story, ControlStory, Cascading
<1> QED BY <1>1, <1>2, <1>3, <1>4 DEF LocksInv, RowsTyped

LEMMA NextPrerequisiteKeeps ==
  ASSUME LocksInv, NEW c \in Clients, NextPrerequisite(c)
  PROVE  \E y : Keeps(c, y)
<1>1. PICK x : x = tx[c]
  OBVIOUS
<1>2. x.pc = "cascade" /\ x.want = {} /\ x.ready = {} /\ x.queue # <<>> /\ x.pc \in Cascading
  BY <1>1 DEF NextPrerequisite, At, Cascading
<1>3. PICK p : p = Head(x.queue)
  OBVIOUS
<1>4. /\ Story(c, x, step) /\ TxTyped(x) /\ WriteStory(c, x, step) /\ OpenStory(c, x, step) /\ Shaped(x)
      /\ Lists(x) /\ Owns(c, x, step) /\ Mine(x) \subseteq Steps /\ (\A s \in Mine(x) : x.mine[s] \in StepRow)
      /\ x.queue \in Seq(Steps) /\ Distinct(x.queue) /\ x.ready \subseteq Steps /\ Unapplied(c, x) = Elements(x.queue)
      /\ step \in [Steps -> StepRow] /\ Sound(step, run) /\ jobs \in [Steps -> Nat]
  BY <1>1, <1>2, CascadeFacts
<1>5. /\ p \in Steps /\ Tail(x.queue) \in Seq(Steps) /\ Distinct(Tail(x.queue)) /\ p \in Elements(x.queue)
      /\ Elements(Tail(x.queue)) = Elements(x.queue) \ {p}
  BY <1>2, <1>3, <1>4, QueueTail
<1>6. PICK D \in SUBSET Steps : D = Dependents(p) \cap Knows(x, step)
  BY DEF Knows
<1>7. DependentsOf(c, p) = D
  BY <1>1, <1>6, ViewIs DEF DependentsOf
<1>8. CASE D = {} /\ GoTo(c, [x EXCEPT !.queue = Tail(x.queue)], "cascade", {})
  <2>1. PICK q : q = Tail(x.queue)
    OBVIOUS
  <2>2. PICK t : t = [x EXCEPT !.queue = q]
    OBVIOUS
  <2>3. t = Tx(x.pc, x.want, x.held, x.mine, x.run, x.goal, q, x.ready)
    BY <1>4, <2>2, ExceptTx, Zenon
  <2>4. t.held = x.held /\ t.mine = x.mine /\ t.run = x.run /\ t.goal = x.goal /\ t.queue = q /\ t.ready = x.ready /\ Shaped(t)
    BY <2>3, Fields
  <2>5. PICK y : y = Tx("cascade", {}, x.held, x.mine, x.run, x.goal, q, x.ready)
    OBVIOUS
  <2>6. Goes(c, y)
    <3>1. GoTo(c, t, "cascade", {})
      BY <1>8, <2>1, <2>2, Zenon
    <3>2. Goes(c, Tx("cascade", {}, t.held, t.mine, t.run, t.goal, t.queue, t.ready))
      BY <2>4, <3>1, GoesOn
    <3> QED BY <2>4, <2>5, <3>2, Zenon
  <2>7. y.pc = "cascade" /\ y.held = x.held /\ y.mine = x.mine /\ y.queue = q /\ y.ready = x.ready
    BY <2>5, Fields
  <2>8. Mine(y) = Mine(x)
    BY <2>7 DEF Mine
  <2>9. Unapplied(c, y) = Unapplied(c, x) \ {p} /\ p \in Unapplied(c, x)
    BY <1>4, <1>5, <2>1, <2>7 DEF Unapplied, Queued
  <2>10. /\ WriteStory(c, y, step) /\ OpenStory(c, y, step) /\ Knows(y, step) = Knows(x, step)
    <3>1. \A d \in Mine(x) : x.mine[d].status = "BLOCKED" /\ x.mine[d].pending = 0 => d \in y.ready
      BY <1>4, <2>7 DEF Lists
    <3>2. x.held \subseteq y.held /\ \A d \in Mine(x) : y.mine[d] = x.mine[d]
      BY <2>7
    <3>3. /\ D = Dependents(p) \cap Knows(x, step) /\ Mine(y) = Mine(x) \cup D /\ D \subseteq y.ready
          /\ \A d \in D : HasStep(y, d)
      BY <1>6, <1>8, <2>8
    <3>4. \A d \in D : CountedDown(x, y.mine[d], step, p, d)
      BY <1>8
    <3>5. \A d \in Mine(x) \ D : y.mine[d] = x.mine[d]
      BY <3>2
    <3>6. Sound(step, run) /\ TxTyped(x) /\ WriteStory(c, x, step) /\ OpenStory(c, x, step) /\ step \in [Steps -> StepRow]
      BY <1>4
    <3>7. x.held \subseteq y.held
      BY <3>2
    <3>8. CountsDown(c, x, y, step, p, D)
      BY <2>9, <3>1, <3>3, <3>4, <3>5, <3>7 DEF CountsDown
    <3>9. WriteStory(c, y, step) /\ OpenStory(c, y, step) /\ KnowsThese(y, step, Knows(x, step))
      BY <3>6, <3>8, CountDown
    <3> QED BY <3>9 DEF KnowsThese
  <2>11. tx' = [tx EXCEPT ![c] = y] /\ UNCHANGED <<step, run>> /\ jobs' \in [Steps -> Nat]
    BY <1>4, <2>6 DEF Goes
  <2>12. DOMAIN x.mine \subseteq Steps /\ (\A s \in DOMAIN x.mine : x.mine[s] \in StepRow) /\ x.ready \subseteq DOMAIN x.mine
    BY <1>2, <1>4 DEF Mine
  <2> QED BY <1>1, <1>2, <1>5, <2>1, <2>5, <2>10, <2>11, <2>12, CascadeWrites
<1>9. CASE D # {} /\ GoTo(c, [x EXCEPT !.ready = D], "dependents", Each("step", D))
  <2>1. PICK t : t = [x EXCEPT !.ready = D]
    OBVIOUS
  <2>2. PICK want \in SUBSET Locks : want = Each("step", D)
    BY ExclusiveLocks
  <2>3. t = Tx(x.pc, x.want, x.held, x.mine, x.run, x.goal, x.queue, D)
    BY <1>4, <2>1, ExceptTx, Zenon
  <2>4. t.held = x.held /\ t.mine = x.mine /\ t.run = x.run /\ t.goal = x.goal /\ t.queue = x.queue /\ t.ready = D /\ Shaped(t)
    BY <2>3, Fields
  <2>5. PICK y : y = Tx("dependents", want, x.held, x.mine, x.run, x.goal, x.queue, D)
    OBVIOUS
  <2>6. Goes(c, y)
    <3>1. GoTo(c, t, "dependents", want)
      BY <1>9, <2>1, <2>2, Zenon
    <3>2. Goes(c, Tx("dependents", want, t.held, t.mine, t.run, t.goal, t.queue, t.ready))
      BY <2>4, <3>1, GoesOn
    <3> QED BY <2>4, <2>5, <3>2, Zenon
  <2>7. "dependents" \in Cascading /\ \A s \in Steps : Exclusive("step", s) \in want <=> s \in D
    BY <2>2, EachIs DEF Cascading
  <2>8. \A d \in Mine(x) : ~(x.mine[d].status = "BLOCKED" /\ x.mine[d].pending = 0)
    BY <1>2, <1>4 DEF Lists
  <2>9. D = Dependents(Head(x.queue)) \cap Knows(x, step)
    BY <1>3, <1>6
  <2>10. \A d \in Mine(x) : x.mine[d].status = "BLOCKED" /\ x.mine[d].pending = 0 => d \in D
    BY <2>8
  <2>11. x.queue \in Seq(Steps) /\ Distinct(x.queue) /\ Elements(x.queue) = Elements(x.queue) /\ x.held = x.held
    BY <1>4
  <2>12. PICK pc : pc = "dependents"
    OBVIOUS
  <2>13. pc \in Cascading /\ pc \notin {"cascade", "allows", "recompute"} /\ y = Tx(pc, want, x.held, x.mine, x.run, x.goal, x.queue, D)
    BY <2>5, <2>7, <2>12
  <2>14. x.queue # <<>> /\ x.pc \in Cascading
    BY <1>2
  <2>15. \A s \in Steps : Exclusive("step", s) \in want <=> s \in D
    BY <2>7
  <2>16. Advances(c, x, pc, want, x.held, x.queue, D)
    BY <2>9, <2>10, <2>11, <2>13, <2>14, <2>15 DEF Advances
  <2> QED BY <1>1, <2>6, <2>13, <2>16, CascadeReads
<1> QED BY <1>1, <1>3, <1>7, <1>8, <1>9, Zenon DEF NextPrerequisite, DependentRows


LEMMA QueueWrite ==
  ASSUME NEW c, NEW x, Shaped(x), NEW new, NEW m, m = Over(new, x.mine), NEW q, NEW pc, NEW want,
         GoTo(c, [Write(x, new) EXCEPT !.queue = q], pc, want)
  PROVE  Goes(c, Tx(pc, want, x.held, m, x.run, x.goal, q, x.ready))
<1>1. PICK t : t = Write(x, new)
  OBVIOUS
<1>2. t = Tx(x.pc, x.want, x.held, m, x.run, x.goal, x.queue, x.ready)
  BY <1>1, WriteTx, Zenon
<1>3. t.held = x.held /\ t.mine = m /\ t.run = x.run /\ t.goal = x.goal /\ t.ready = x.ready /\ Shaped(t)
  BY <1>2, Fields
<1>4. PICK u : u = [t EXCEPT !.queue = q]
  OBVIOUS
<1>5. u = Tx(t.pc, t.want, t.held, t.mine, t.run, t.goal, q, t.ready)
  BY <1>3, <1>4, ExceptTx, Zenon
<1>6. u.held = t.held /\ u.mine = t.mine /\ u.run = t.run /\ u.goal = t.goal /\ u.queue = q /\ u.ready = t.ready /\ Shaped(u)
  BY <1>5, Fields
<1>7. GoTo(c, u, pc, want)
  BY <1>1, <1>4, Zenon
<1>8. Goes(c, Tx(pc, want, u.held, u.mine, u.run, u.goal, u.queue, u.ready))
  BY <1>6, <1>7, GoesOn
<1> QED BY <1>3, <1>6, <1>8, Zenon

LEMMA UpdateDependentsKeeps ==
  ASSUME LocksInv, NEW c \in Clients, UpdateDependents(c)
  PROVE  \E y : Keeps(c, y)
<1>1. PICK x : x = tx[c]
  OBVIOUS
<1>2. x.pc = "dependents" /\ x.want = {} /\ x.pc \in Cascading
  BY <1>1 DEF UpdateDependents, At, Cascading
<1>3. PICK p : p = Head(x.queue)
  OBVIOUS
<1>4. /\ Story(c, x, step) /\ TxTyped(x) /\ WriteStory(c, x, step) /\ OpenStory(c, x, step) /\ Shaped(x)
      /\ Lists(x) /\ Owns(c, x, step) /\ Mine(x) \subseteq Steps /\ (\A s \in Mine(x) : x.mine[s] \in StepRow)
      /\ x.queue \in Seq(Steps) /\ Distinct(x.queue) /\ x.ready \subseteq Steps /\ Unapplied(c, x) = Elements(x.queue)
      /\ step \in [Steps -> StepRow] /\ Sound(step, run) /\ jobs \in [Steps -> Nat]
  BY <1>1, <1>2, CascadeFacts
<1>5. x.queue # <<>> /\ x.ready = Dependents(p) \cap Knows(x, step) /\ \A d \in x.ready : HasStep(x, d)
  <2>1. x.queue # <<>> /\ x.ready = Dependents(p) \cap Knows(x, step)
    BY <1>2, <1>3, <1>4 DEF Story, ListStory
  <2>2. \A d \in x.ready : Exclusive("step", d) \in Asked(x)
    BY <1>2, <1>4 DEF Story, LockStory
  <2> QED BY <1>2, <2>1, <2>2, AskedIsHeld DEF HasStep
<1>6. /\ p \in Steps /\ Tail(x.queue) \in Seq(Steps) /\ Distinct(Tail(x.queue)) /\ p \in Elements(x.queue)
      /\ Elements(Tail(x.queue)) = Elements(x.queue) \ {p}
  BY <1>3, <1>4, <1>5, QueueTail
<1>7. PICK new : new = [d \in x.ready |->
                    [See(x, step)[d] EXCEPT !.pending = @ - 1,
                                       !.unsatisfied = @ + IF <<p, d>> \in OnSuccess /\ See(x, step)[p].status # "SUCCEEDED" THEN 1 ELSE 0]]
  OBVIOUS
<1>8. PICK q : q = Tail(x.queue)
  OBVIOUS
<1>9. GoTo(c, [Write(x, new) EXCEPT !.queue = q], "cascade", {})
  <2>1. View(c) = See(x, step)
    BY <1>1, ViewIs
  <2>2. PICK t : t = Write(x, new)
    OBVIOUS
  <2>3. t.queue = x.queue
    <3>1. t = Tx(x.pc, x.want, x.held, Over(new, x.mine), x.run, x.goal, x.queue, x.ready)
      BY <1>4, <2>2, WriteTx, Zenon
    <3> QED BY <3>1, Fields
  <2>4. GoTo(c, [t EXCEPT !.queue = Tail(t.queue)], "cascade", {})
    BY <1>1, <1>3, <1>7, <2>1, <2>2, Zenon DEF UpdateDependents
  <2> QED BY <1>8, <2>2, <2>3, <2>4, Zenon
<1>10. PICK m : m = Over(new, x.mine)
  OBVIOUS
<1>11. PICK y : y = Tx("cascade", {}, x.held, m, x.run, x.goal, q, x.ready)
  OBVIOUS
<1>12. Goes(c, y)
  BY <1>4, <1>9, <1>10, <1>11, QueueWrite, Zenon
<1>13. y.pc = "cascade" /\ y.held = x.held /\ y.mine = m /\ y.queue = q /\ y.ready = x.ready
  BY <1>11, Fields
<1>14. /\ DOMAIN m = Mine(x) \cup x.ready
       /\ \A d \in x.ready : m[d] = new[d]
       /\ \A d \in Mine(x) \ x.ready : m[d] = x.mine[d]
  <2>1. DOMAIN new = x.ready
    BY <1>7
  <2>2. PICK old : old = x.mine
    OBVIOUS
  <2>3. /\ DOMAIN m = DOMAIN new \cup DOMAIN old
        /\ \A s \in DOMAIN new : m[s] = new[s]
        /\ \A s \in DOMAIN old \ DOMAIN new : m[s] = old[s]
    <3>1. m = Over(new, old)
      BY <1>10, <2>2, Zenon
    <3> QED BY <3>1 DEF Over
  <2>4. Mine(x) = DOMAIN old
    BY <2>2 DEF Mine
  <2> QED BY <2>1, <2>2, <2>3, <2>4
<1>15. ASSUME NEW d \in x.ready
       PROVE  CountedDown(x, m[d], step, p, d) /\ (m[d].pending \in Nat /\ m[d].unsatisfied \in Nat => m[d] \in StepRow)
  <2>1. PICK row \in StepRow : row = See(x, step)[d]
    <3>1. See(x, step) \in [Steps -> StepRow]
      BY <1>4, SeeTyped
    <3> QED BY <1>4, <3>1
  <2>2. PICK n : n = IF <<p, d>> \in OnSuccess /\ See(x, step)[p].status # "SUCCEEDED" THEN 1 ELSE 0
    OBVIOUS
  <2>3. m[d] = [row EXCEPT !.pending = @ - 1, !.unsatisfied = @ + n]
    <3>1. new[d] = [See(x, step)[d] EXCEPT !.pending = @ - 1,
                      !.unsatisfied = @ + IF <<p, d>> \in OnSuccess /\ See(x, step)[p].status # "SUCCEEDED" THEN 1 ELSE 0]
      BY <1>7, Zenon
    <3> QED BY <1>14, <2>1, <2>2, <3>1, Zenon
  <2>4. /\ m[d].status = row.status /\ m[d].job = row.job /\ m[d].pending = row.pending - 1 /\ m[d].unsatisfied = row.unsatisfied + n
        /\ m[d] = [status |-> m[d].status, pending |-> m[d].pending, unsatisfied |-> m[d].unsatisfied, job |-> m[d].job]
        /\ m[d].status \in Statuses /\ m[d].job \in BOOLEAN
    BY <2>3 DEF StepRow
  <2>5. CountedDown(x, m[d], step, p, d)
    BY <2>1, <2>2, <2>4, Zenon DEF CountedDown
  <2>6. m[d].pending \in Nat /\ m[d].unsatisfied \in Nat => m[d] \in StepRow
    <3>1. PICK a, b, e, f : a = m[d].status /\ b = m[d].pending /\ e = m[d].unsatisfied /\ f = m[d].job
      BY Zenon
    <3>2. a \in Statuses /\ f \in BOOLEAN
      BY <2>4, <3>1, Zenon
    <3>3. b \in Nat /\ e \in Nat => [status |-> a, pending |-> b, unsatisfied |-> e, job |-> f] \in StepRow
      BY <3>2 DEF StepRow
    <3> QED BY <2>4, <3>1, <3>3, Zenon
  <2> QED BY <2>5, <2>6
<1>16. CountsDown(c, x, y, step, p, x.ready)
  <2>1. p \in Unapplied(c, x) /\ Unapplied(c, y) = Unapplied(c, x) \ {p}
    BY <1>4, <1>6, <1>8, <1>13 DEF Unapplied, Queued
  <2>2. Mine(y) = Mine(x) \cup x.ready
    BY <1>13, <1>14 DEF Mine
  <2>3. \A d \in x.ready : HasStep(y, d) /\ CountedDown(x, y.mine[d], step, p, d)
    BY <1>5, <1>13, <1>15, Zenon DEF HasStep
  <2>4. \A d \in Mine(x) \ x.ready : y.mine[d] = x.mine[d]
    BY <1>13, <1>14
  <2>5. \A d \in Mine(x) : x.mine[d].status = "BLOCKED" /\ x.mine[d].pending = 0 => d \in y.ready
    BY <1>4, <1>13 DEF Lists
  <2>6. x.ready \subseteq y.ready /\ x.held \subseteq y.held
    BY <1>13
  <2> QED BY <1>5, <2>1, <2>2, <2>3, <2>4, <2>5, <2>6, Zenon DEF CountsDown
<1>17. /\ WriteStory(c, y, step) /\ OpenStory(c, y, step) /\ KnowsThese(y, step, Knows(x, step))
       /\ \A d \in x.ready : y.mine[d].pending \in Nat /\ y.mine[d].unsatisfied \in Nat
  BY <1>4, <1>16, CountDown
<1>18. Knows(y, step) = Knows(x, step)
  BY <1>17 DEF KnowsThese
<1>19. DOMAIN m \subseteq Steps /\ (\A s \in DOMAIN m : m[s] \in StepRow) /\ x.ready \subseteq DOMAIN m
  <2>1. \A s \in x.ready : m[s] \in StepRow
    BY <1>13, <1>15, <1>17
  <2>2. \A s \in Mine(x) \ x.ready : m[s] \in StepRow
    BY <1>4, <1>14
  <2> QED BY <1>4, <1>14, <2>1, <2>2
<1>20. tx' = [tx EXCEPT ![c] = y] /\ UNCHANGED <<step, run>> /\ jobs' \in [Steps -> Nat]
  BY <1>4, <1>12 DEF Goes
<1> QED BY <1>1, <1>2, <1>6, <1>8, <1>11, <1>17, <1>18, <1>19, <1>20, CascadeWrites

(* The step that the cascade looks at next.                                *)
LEMMA NextReady ==
  ASSUME LocksInv, NEW c \in Clients, NEW x, x = tx[c], x.pc \in {"cascade", "allows"}, x.ready # {}, NEW d, d = Least(x.ready)
  PROVE  /\ d \in x.ready /\ d \in Mine(x) /\ d \in Steps /\ View(c)[d] = x.mine[d] /\ x.mine[d] \in StepRow
         /\ Moves(step[d], x.mine[d]) /\ HasStep(x, d)
<1>1. /\ Owns(c, x, step) /\ Mine(x) \subseteq Steps /\ x.ready \subseteq Steps /\ x.ready \subseteq Mine(x)
      /\ (\A s \in Mine(x) : x.mine[s] \in StepRow)
  BY CascadeFacts DEF Cascading
<1>2. d \in x.ready
  <2>1. x.ready \in SUBSET Nat
    BY <1>1, LocksAssumption
  <2> QED BY <2>1, LeastIn
<1>3. d \in Mine(x) /\ d \in Steps /\ x.mine[d] \in StepRow
  BY <1>1, <1>2
<1>4. View(c)[d] = x.mine[d]
  <2>1. See(x, step)[d] = x.mine[d]
    BY <1>3, SeeRow
  <2> QED BY <2>1, ViewIs
<1>5. Moves(step[d], x.mine[d]) /\ HasStep(x, d)
  BY <1>1, <1>3 DEF Owns
<1> QED BY <1>2, <1>3, <1>4, <1>5

LEMMA NextDependentKeeps ==
  ASSUME LocksInv, NEW c \in Clients, NextDependent(c)
  PROVE  \E y : Keeps(c, y)
<1>1. PICK x : x = tx[c]
  OBVIOUS
<1>2. x.pc = "cascade" /\ x.want = {} /\ x.ready # {} /\ x.pc \in Cascading
  BY <1>1 DEF NextDependent, At, Cascading
<1>3. PICK d : d = Least(x.ready)
  OBVIOUS
<1>4. /\ Story(c, x, step) /\ TxTyped(x) /\ WriteStory(c, x, step) /\ OpenStory(c, x, step) /\ Shaped(x)
      /\ Lists(x) /\ Owns(c, x, step) /\ Mine(x) \subseteq Steps /\ (\A s \in Mine(x) : x.mine[s] \in StepRow)
      /\ x.queue \in Seq(Steps) /\ Distinct(x.queue) /\ x.ready \subseteq Steps /\ Unapplied(c, x) = Elements(x.queue)
      /\ x.ready \subseteq Mine(x) /\ step \in [Steps -> StepRow] /\ Sound(step, run) /\ jobs \in [Steps -> Nat]
  BY <1>1, <1>2, CascadeFacts
<1>5. /\ d \in x.ready /\ d \in Mine(x) /\ d \in Steps /\ View(c)[d] = x.mine[d] /\ x.mine[d] \in StepRow
      /\ Moves(step[d], x.mine[d]) /\ HasStep(x, d)
  BY <1>1, <1>2, <1>3, NextReady
<1>6. PICK row : row = x.mine[d]
  OBVIOUS
<1>7. PICK ready \in SUBSET Steps : ready = x.ready \ {d}
  BY <1>4
<1>8. PICK rest : rest = [x EXCEPT !.ready = ready]
  OBVIOUS
<1>9. /\ rest.held = x.held /\ rest.mine = x.mine /\ rest.run = x.run /\ rest.goal = x.goal /\ rest.queue = x.queue
      /\ rest.ready = ready /\ Shaped(rest)
  <2>1. rest = Tx(x.pc, x.want, x.held, x.mine, x.run, x.goal, x.queue, ready)
    BY <1>4, <1>8, ExceptTx, Zenon
  <2> QED BY <2>1, Fields
<1>10. CASE (row.pending # 0 \/ row.status # "BLOCKED") /\ GoTo(c, rest, "cascade", {})
  <2>1. PICK pc, want : pc = "cascade" /\ want = {}
    BY Zenon
  <2>2. PICK y : y = Tx(pc, want, x.held, x.mine, x.run, x.goal, x.queue, ready)
    OBVIOUS
  <2>3. Goes(c, y)
    <3>1. Goes(c, Tx("cascade", {}, rest.held, rest.mine, rest.run, rest.goal, rest.queue, rest.ready))
      BY <1>9, <1>10, GoesOn
    <3> QED BY <1>9, <2>1, <2>2, <3>1, Zenon
  <2>4. \A e \in Mine(x) : x.mine[e].status = "BLOCKED" /\ x.mine[e].pending = 0 => e \in ready
    BY <1>4, <1>6, <1>7, <1>10 DEF Lists
  <2>5. pc \in Cascading /\ pc = "cascade" /\ want = {} /\ want \in SUBSET Locks /\ ready \subseteq Mine(x)
    BY <1>4, <1>7, <2>1 DEF Cascading
  <2>6. x.queue \in Seq(Steps) /\ Distinct(x.queue) /\ Elements(x.queue) = Elements(x.queue) /\ x.held = x.held
    BY <1>4
  <2>7. x.pc \in Cascading
    BY <1>2
  <2>8. Advances(c, x, pc, want, x.held, x.queue, ready)
    BY <2>4, <2>5, <2>6, <2>7 DEF Advances
  <2> QED BY <1>1, <2>2, <2>3, <2>8, CascadeReads
<1>11. CASE /\ row.pending = 0 /\ row.status = "BLOCKED" /\ row.unsatisfied # 0
            /\ GoTo(c, [Write(rest, Written(c, d, "CANCELED")) EXCEPT !.queue = Append(x.queue, d)], "cascade", {})
  <2>1. PICK new : new = [r \in {d} |-> [row EXCEPT !.status = "CANCELED"]]
    OBVIOUS
  <2>2. Written(c, d, "CANCELED") = new
    <3>1. Written(c, d, "CANCELED") = [r \in {d} |-> [View(c)[d] EXCEPT !.status = "CANCELED"]]
      BY DEF Written
    <3> QED BY <1>5, <1>6, <2>1, <3>1, Zenon
  <2>3. PICK q : q = Append(x.queue, d)
    OBVIOUS
  <2>4. PICK m : m = Over(new, x.mine)
    OBVIOUS
  <2>5. PICK y : y = Tx("cascade", {}, x.held, m, x.run, x.goal, q, ready)
    OBVIOUS
  <2>6. Goes(c, y)
    <3>1. GoTo(c, [Write(rest, new) EXCEPT !.queue = q], "cascade", {})
      BY <1>11, <2>2, <2>3, Zenon
    <3>2. Shaped(rest) /\ m = Over(new, rest.mine)
      BY <1>9, <2>4, Zenon
    <3>3. Goes(c, Tx("cascade", {}, rest.held, m, rest.run, rest.goal, q, rest.ready))
      BY <3>1, <3>2, QueueWrite, Zenon
    <3> QED BY <1>9, <2>5, <3>3, Zenon
  <2>7. y.pc = "cascade" /\ y.held = x.held /\ y.mine = m /\ y.queue = q /\ y.ready = ready
    BY <2>5, Fields
  <2>8. /\ DOMAIN m = Mine(x) /\ \A s \in Mine(x) \ {d} : m[s] = x.mine[s]
        /\ m[d] = [row EXCEPT !.status = "CANCELED"]
    <3>1. DOMAIN new = {d} /\ new[d] = [row EXCEPT !.status = "CANCELED"]
      BY <2>1
    <3>2. PICK old : old = x.mine
      OBVIOUS
    <3>3. Mine(x) = DOMAIN old /\ d \in DOMAIN old
      BY <1>5, <3>2 DEF Mine
    <3>4. m = Over(new, old)
      BY <2>4, <3>2, Zenon
    <3>5. DOMAIN m = DOMAIN old /\ m[d] = new[d] /\ \A s \in DOMAIN old \ {d} : m[s] = old[s]
      BY <3>1, <3>3, <3>4 DEF Over
    <3> QED BY <3>1, <3>2, <3>3, <3>5
  <2>9. /\ m[d] \in StepRow /\ m[d].status = "CANCELED" /\ m[d].pending = x.mine[d].pending
        /\ m[d].unsatisfied = x.mine[d].unsatisfied /\ m[d].job = x.mine[d].job
    BY <1>5, <1>6, <2>8 DEF StepRow, Statuses, Terminal
  <2>10. d \notin Elements(x.queue)
    <3>1. "BLOCKED" \notin Terminal
      BY DEF Terminal
    <3> QED BY <1>4, <1>6, <1>11, <3>1 DEF WriteStory, Follows, Ended
  <2>11. q \in Seq(Steps) /\ Distinct(q) /\ Elements(q) = Elements(x.queue) \cup {d}
    BY <1>4, <1>5, <2>3, <2>10, QueueAppend
  <2>12. Changes(c, x, y, step, d, "CANCELED")
    <3>1. x.held \subseteq y.held /\ d \in Mine(x) /\ x.mine[d].status = "BLOCKED"
      BY <1>5, <1>6, <1>11, <2>7
    <3>2. Mine(y) = Mine(x) /\ \A s \in Mine(x) \ {d} : y.mine[s] = x.mine[s]
      BY <2>7, <2>8 DEF Mine
    <3>3. /\ y.mine[d].status = "CANCELED" /\ y.mine[d].pending = x.mine[d].pending
          /\ y.mine[d].unsatisfied = x.mine[d].unsatisfied
      BY <2>7, <2>9
    <3>4. Moves(step[d], y.mine[d])
      BY <1>5, <1>6, <1>11, <2>7, <2>9 DEF Moves, Terminal
    <3>5. Unapplied(c, y) = Unapplied(c, x) \cup IF "CANCELED" = "CANCELED" THEN {d} ELSE {}
      BY <1>4, <2>7, <2>11 DEF Unapplied, Queued
    <3>6. y.ready = x.ready \ {d}
      BY <1>7, <2>7
    <3> QED BY <3>1, <3>2, <3>3, <3>4, <3>5, <3>6, Zenon DEF Changes
  <2>13. WriteStory(c, y, step) /\ OpenStory(c, y, step) /\ KnowsThese(y, step, Knows(x, step))
    BY <1>4, <2>12, ChangeRow
  <2>14. Knows(y, step) = Knows(x, step)
    BY <2>13 DEF KnowsThese
  <2>15. DOMAIN m \subseteq Steps /\ (\A s \in DOMAIN m : m[s] \in StepRow) /\ ready \subseteq DOMAIN m
    BY <1>4, <1>7, <2>8, <2>9
  <2>16. tx' = [tx EXCEPT ![c] = y] /\ UNCHANGED <<step, run>> /\ jobs' \in [Steps -> Nat]
    BY <1>4, <2>6 DEF Goes
  <2> QED BY <1>1, <1>2, <2>5, <2>11, <2>13, <2>14, <2>15, <2>16, CascadeWrites
<1>12. CASE /\ row.pending = 0 /\ row.status = "BLOCKED" /\ row.unsatisfied = 0 /\ ReleaseIsFree(c)
            /\ GoTo(c, [x EXCEPT !.held = x.held \cup {Shared("release")}], "allows", {Shared("run")})
  <2>1. PICK pc, want, held : pc = "allows" /\ want = {Shared("run")} /\ held = x.held \cup {Shared("release")}
    BY Zenon
  <2>2. PICK t : t = [x EXCEPT !.held = held]
    OBVIOUS
  <2>3. /\ t.held = held /\ t.mine = x.mine /\ t.run = x.run /\ t.goal = x.goal /\ t.queue = x.queue
        /\ t.ready = x.ready /\ Shaped(t)
    <3>1. t = Tx(x.pc, x.want, held, x.mine, x.run, x.goal, x.queue, x.ready)
      BY <1>4, <2>2, ExceptTx, Zenon
    <3> QED BY <3>1, Fields
  <2>4. PICK y : y = Tx(pc, want, held, x.mine, x.run, x.goal, x.queue, x.ready)
    OBVIOUS
  <2>5. Goes(c, y)
    <3>1. GoTo(c, t, pc, want)
      BY <1>12, <2>1, <2>2, Zenon
    <3>2. Goes(c, Tx(pc, want, t.held, t.mine, t.run, t.goal, t.queue, t.ready))
      BY <2>3, <3>1, GoesOn
    <3> QED BY <2>3, <2>4, <3>2, Zenon
  <2>6. \A e \in Mine(x) : x.mine[e].status = "BLOCKED" /\ x.mine[e].pending = 0 => e \in x.ready
    BY <1>4 DEF Lists
  <2>7. /\ pc \in Cascading /\ pc \notin {"cascade", "dependents", "recompute"} /\ want \in SUBSET Locks
        /\ \A s : Exclusive("step", s) \notin want
    BY <2>1, ExclusiveLocks DEF Cascading
  <2>8. x.queue \in Seq(Steps) /\ Distinct(x.queue) /\ Elements(x.queue) = Elements(x.queue) /\ x.ready \in SUBSET Steps
    BY <1>4
  <2>9. held = x.held \cup {Shared("release")} /\ ReleaseIsFree(c)
    BY <1>12, <2>1
  <2>10. x.ready # {} /\ x.ready \subseteq Mine(x) /\ Releasable(x.mine[Least(x.ready)])
    <3>1. Releasable(row)
      BY <1>12 DEF Releasable
    <3> QED BY <1>2, <1>3, <1>4, <1>6, <3>1
  <2>11. x.pc \in Cascading
    BY <1>2
  <2>12. Advances(c, x, pc, want, held, x.queue, x.ready)
    BY <2>6, <2>7, <2>8, <2>9, <2>10, <2>11 DEF Advances
  <2> QED BY <1>1, <2>4, <2>5, <2>12, CascadeReads
<1>13. CASE RolledBack(c)
  BY <1>13, RollbackKeeps
<1>14. View(c)[d] = row /\ rest = [x EXCEPT !.ready = x.ready \ {d}]
  BY <1>5, <1>6, <1>7, <1>8, Zenon
<1>15. \A a : [Write(rest, Written(c, d, "CANCELED")) EXCEPT !.queue = Append(@, a)] =
              [Write(rest, Written(c, d, "CANCELED")) EXCEPT !.queue = Append(x.queue, a)]
  <2>1. PICK t : t = Write(rest, Written(c, d, "CANCELED"))
    OBVIOUS
  <2>2. t = Tx(rest.pc, rest.want, rest.held, Over(Written(c, d, "CANCELED"), rest.mine), rest.run, rest.goal, rest.queue, rest.ready)
    BY <1>9, <2>1, WriteTx, Zenon
  <2>3. t.queue = x.queue
    <3>1. t.queue = rest.queue
      BY <2>2, Fields
    <3> QED BY <1>9, <3>1
  <2>4. \A a : [t EXCEPT !.queue = Append(t.queue, a)] = [t EXCEPT !.queue = Append(x.queue, a)]
    BY <2>3, Zenon
  <2> QED BY <2>1, <2>4, Zenon
<1> QED BY <1>1, <1>3, <1>10, <1>11, <1>12, <1>13, <1>14, <1>15, ZenonT(40) DEF NextDependent

LEMMA InsertedTyped ==
  ASSUME jobs \in [Steps -> Nat], NEW d \in Steps
  PROVE  Inserted(d) \in [Steps -> Nat]
<1>1. PICK n \in Nat : n = Cardinality({o \in Steps \ {d} : jobs[o] # 0})
  <2>1. {o \in Steps \ {d} : jobs[o] # 0} \in SUBSET Steps
    OBVIOUS
  <2> QED BY <2>1, StepsFinite
<1>2. Inserted(d) = [s \in Steps |-> IF s = d THEN n + 1
                                     ELSE IF jobs[d] # 0 /\ jobs[s] > jobs[d] THEN jobs[s] - 1 ELSE jobs[s]]
  BY <1>1, Zenon DEF Inserted
<1> HIDE <1>1
<1>3. \A s \in Steps : /\ n + 1 \in Nat /\ jobs[s] \in Nat
                       /\ jobs[d] # 0 /\ jobs[s] > jobs[d] => jobs[s] - 1 \in Nat
  OBVIOUS
<1> QED BY <1>2, <1>3

LEMMA ReleaseKeeps ==
  ASSUME LocksInv, NEW c \in Clients, Release(c)
  PROVE  \E y : Keeps(c, y)
<1>1. PICK x : x = tx[c]
  OBVIOUS
<1>2. x.pc = "allows" /\ x.want = {} /\ x.pc \in Cascading
  BY <1>1 DEF Release, At, Cascading
<1>3. PICK d : d = Least(x.ready)
  OBVIOUS
<1>4. /\ Story(c, x, step) /\ TxTyped(x) /\ WriteStory(c, x, step) /\ OpenStory(c, x, step) /\ Shaped(x)
      /\ Mine(x) \subseteq Steps /\ (\A s \in Mine(x) : x.mine[s] \in StepRow)
      /\ x.queue \in Seq(Steps) /\ Distinct(x.queue) /\ x.ready \subseteq Steps /\ Unapplied(c, x) = Elements(x.queue)
      /\ x.ready \subseteq Mine(x) /\ step \in [Steps -> StepRow] /\ Sound(step, run) /\ jobs \in [Steps -> Nat]
      /\ c[1] # "cancel" /\ x.run = "same"
  BY <1>1, <1>2, CascadeFacts
<1>5. x.ready # {} /\ Releasable(x.mine[d])
  BY <1>2, <1>3, <1>4 DEF Story, ListStory
<1>6. /\ d \in x.ready /\ d \in Mine(x) /\ d \in Steps /\ View(c)[d] = x.mine[d] /\ x.mine[d] \in StepRow
      /\ Moves(step[d], x.mine[d]) /\ HasStep(x, d)
  BY <1>1, <1>2, <1>3, <1>5, NextReady
<1>7. AllowsRelease(c)
  <2>1. run \in OpenRun
    BY <1>4, <1>6, RunIsOpen
  <2> QED BY <1>1, <1>4, <2>1 DEF AllowsRelease, RunView
<1>8. PICK ready \in SUBSET Steps : ready = x.ready \ {d}
  BY <1>4
<1>9. PICK rest : rest = [x EXCEPT !.ready = ready, !.pc = "cascade"]
  OBVIOUS
<1>10. /\ rest.pc = "cascade" /\ rest.want = {} /\ rest.held = x.held /\ rest.mine = x.mine /\ rest.run = x.run /\ rest.goal = x.goal
       /\ rest.queue = x.queue /\ rest.ready = ready /\ Shaped(rest)
  <2>1. rest = Tx("cascade", x.want, x.held, x.mine, x.run, x.goal, x.queue, ready)
    BY <1>4, <1>9, ExceptReadyPc, Zenon
  <2>2. /\ rest.pc = "cascade" /\ rest.want = x.want /\ rest.held = x.held /\ rest.mine = x.mine /\ rest.run = x.run
        /\ rest.goal = x.goal /\ rest.queue = x.queue /\ rest.ready = ready /\ Shaped(rest)
    BY <2>1, Fields
  <2> QED BY <1>2, <2>2
<1>11. PICK status : status = IF d \in External THEN "WAITING_FOR_EXTERNAL" ELSE "ENQUEUED"
  OBVIOUS
<1>12. PICK job \in BOOLEAN : job = (d \notin External)
  OBVIOUS
<1>13. PICK new : new = [s \in {d} |-> Row(status, 0, 0, job)]
  OBVIOUS
<1>14. PICK m : m = Over(new, x.mine)
  OBVIOUS
<1>15. PICK y : y = Tx("cascade", {}, x.held, m, x.run, x.goal, x.queue, ready)
  OBVIOUS
<1>16. tx' = [tx EXCEPT ![c] = Write(rest, new)] /\ jobs' = (IF d \in External THEN jobs ELSE Inserted(d)) /\ UNCHANGED <<step, run>>
  BY <1>1, <1>3, <1>7, <1>8, <1>9, <1>11, <1>12, <1>13, Zenon DEF Release
<1>17. Write(rest, new) = y
  <2>1. Write(rest, new) = Tx(rest.pc, rest.want, rest.held, Over(new, rest.mine), rest.run, rest.goal, rest.queue, rest.ready)
    BY <1>10, WriteTx, Zenon
  <2> QED BY <1>10, <1>14, <1>15, <2>1, Zenon
<1>18. tx' = [tx EXCEPT ![c] = y] /\ UNCHANGED <<step, run>> /\ jobs' \in [Steps -> Nat]
  <2>1. jobs' \in [Steps -> Nat]
    <3>1. Inserted(d) \in [Steps -> Nat]
      BY <1>4, <1>6, InsertedTyped
    <3> QED BY <1>4, <1>16, <3>1
  <2> QED BY <1>16, <1>17, <2>1, Zenon
<1>19. y.pc = "cascade" /\ y.held = x.held /\ y.mine = m /\ y.queue = x.queue /\ y.ready = ready
  BY <1>15, Fields
<1>20. /\ DOMAIN m = Mine(x) /\ \A s \in Mine(x) \ {d} : m[s] = x.mine[s]
       /\ m[d] = Row(status, 0, 0, job)
  <2>1. DOMAIN new = {d} /\ new[d] = Row(status, 0, 0, job)
    BY <1>13
  <2>2. PICK old : old = x.mine
    OBVIOUS
  <2>3. Mine(x) = DOMAIN old /\ d \in DOMAIN old
    BY <1>6, <2>2 DEF Mine
  <2>4. m = Over(new, old)
    BY <1>14, <2>2, Zenon
  <2>5. DOMAIN m = DOMAIN old /\ m[d] = new[d] /\ \A s \in DOMAIN old \ {d} : m[s] = old[s]
    BY <2>1, <2>3, <2>4 DEF Over
  <2> QED BY <2>1, <2>2, <2>3, <2>5
<1>21. status \in {"ENQUEUED", "WAITING_FOR_EXTERNAL"} /\ (status = "ENQUEUED" => job = TRUE)
  BY <1>11, <1>12
<1>22. /\ m[d] \in StepRow /\ m[d].status = status /\ m[d].pending = 0 /\ m[d].unsatisfied = 0 /\ m[d].job = job
  <2>1. /\ Row(status, 0, 0, job).status = status /\ Row(status, 0, 0, job).pending = 0 /\ Row(status, 0, 0, job).unsatisfied = 0
        /\ Row(status, 0, 0, job).job = job
    BY Zenon DEF Row
  <2>2. status \in Statuses
    BY <1>21 DEF Statuses, Open
  <2>3. Row(status, 0, 0, job) \in StepRow
    BY <2>2 DEF Row, StepRow
  <2> QED BY <1>20, <2>1, <2>3, Zenon
<1>23. Changes(c, x, y, step, d, status)
  <2>1. x.held \subseteq y.held /\ d \in Mine(x) /\ x.mine[d].status = "BLOCKED"
    BY <1>5, <1>6, <1>19 DEF Releasable
  <2>2. Mine(y) = Mine(x) /\ \A s \in Mine(x) \ {d} : y.mine[s] = x.mine[s]
    BY <1>19, <1>20 DEF Mine
  <2>3. /\ y.mine[d].status = status /\ y.mine[d].pending = x.mine[d].pending
        /\ y.mine[d].unsatisfied = x.mine[d].unsatisfied
    BY <1>5, <1>19, <1>22 DEF Releasable
  <2>4. Moves(step[d], y.mine[d])
    BY <1>6, <1>19, <1>21, <1>22, <2>1 DEF Moves, Terminal
  <2>5. Unapplied(c, y) = Unapplied(c, x) \cup IF status = "CANCELED" THEN {d} ELSE {}
    BY <1>4, <1>19, <1>21 DEF Unapplied, Queued
  <2>6. y.ready = x.ready \ {d}
    BY <1>8, <1>19
  <2>7. status \in {"CANCELED", "ENQUEUED", "WAITING_FOR_EXTERNAL"}
    BY <1>21
  <2> QED BY <2>1, <2>2, <2>3, <2>4, <2>5, <2>6, <2>7, Zenon DEF Changes
<1>24. WriteStory(c, y, step) /\ OpenStory(c, y, step) /\ KnowsThese(y, step, Knows(x, step))
  BY <1>4, <1>23, ChangeRow
<1>25. Knows(y, step) = Knows(x, step)
  BY <1>24 DEF KnowsThese
<1>26. DOMAIN m \subseteq Steps /\ (\A s \in DOMAIN m : m[s] \in StepRow) /\ ready \subseteq DOMAIN m
  BY <1>4, <1>8, <1>20, <1>22
<1>27. x.queue \in Seq(Steps) /\ Distinct(x.queue)
  BY <1>4
<1> QED BY <1>1, <1>2, <1>15, <1>18, <1>24, <1>25, <1>26, <1>27, CascadeWrites

LEMMA CascadeEndsKeeps ==
  ASSUME LocksInv, NEW c \in Clients, CascadeEnds(c)
  PROVE  \E y : Keeps(c, y)
<1>1. PICK x : x = tx[c]
  OBVIOUS
<1>2. x.pc = "cascade" /\ x.want = {} /\ x.ready = {} /\ x.queue = <<>> /\ x.pc \in Cascading
  BY <1>1 DEF CascadeEnds, At, Cascading
<1>3. Lists(x) /\ x.queue \in Seq(Steps) /\ Distinct(x.queue) /\ x.ready \in SUBSET Steps /\ Shaped(x)
  BY <1>1, <1>2, CascadeFacts
<1>4. PICK pc, want : pc = "recompute" /\ want = {Exclusive("run", 0)}
  BY Zenon
<1>5. PICK y : y = Tx(pc, want, x.held, x.mine, x.run, x.goal, x.queue, x.ready)
  OBVIOUS
<1>6. Goes(c, y)
  <2>1. GoTo(c, x, pc, want)
    BY <1>1, <1>4, Zenon DEF CascadeEnds, RecomputeRow
  <2> QED BY <1>3, <1>5, <2>1, GoesOn
<1>7. \A e \in Mine(x) : x.mine[e].status = "BLOCKED" /\ x.mine[e].pending = 0 => e \in x.ready
  BY <1>3 DEF Lists
<1>8. /\ pc \in Cascading /\ pc \notin {"cascade", "dependents", "allows"} /\ want \in SUBSET Locks
      /\ \A s : Exclusive("step", s) \notin want
  BY <1>4, ExclusiveLocks DEF Cascading
<1>9. x.queue \in Seq(Steps) /\ Distinct(x.queue) /\ Elements(x.queue) = Elements(x.queue) /\ x.ready \in SUBSET Steps /\ x.held = x.held
  BY <1>3
<1>10. x.queue = <<>> /\ x.ready = {} /\ Exclusive("run", 0) \in want /\ x.pc \in Cascading
  BY <1>2, <1>4
<1>11. Advances(c, x, pc, want, x.held, x.queue, x.ready)
  BY <1>7, <1>8, <1>9, <1>10 DEF Advances
<1> QED BY <1>1, <1>5, <1>6, <1>11, CascadeReads

LEMMA RecomputeKeeps ==
  ASSUME LocksInv, NEW c \in Clients, Recompute(c)
  PROVE  \E y : Keeps(c, y)
<1>1. PICK x : x = tx[c]
  OBVIOUS
<1>2. x.pc = "recompute" /\ x.want = {} /\ x.pc \in Cascading
  BY <1>1 DEF Recompute, At, Cascading
<1>3. /\ Story(c, x, step) /\ TxTyped(x) /\ WriteStory(c, x, step) /\ OpenStory(c, x, step) /\ Shaped(x)
      /\ Lists(x) /\ Mine(x) \subseteq Steps /\ (\A s \in Mine(x) : x.mine[s] \in StepRow)
      /\ step \in [Steps -> StepRow] /\ Sound(step, run) /\ jobs \in [Steps -> Nat]
      /\ c[1] # "cancel" /\ x.run = "same"
  BY <1>1, <1>2, CascadeFacts
<1>4. x.queue = <<>> /\ x.ready = {} /\ HasRun(x)
  <2>1. x.queue = <<>> /\ x.ready = {}
    BY <1>2, <1>3 DEF Story, ListStory
  <2>2. Exclusive("run", 0) \in Asked(x)
    BY <1>2, <1>3 DEF Story, LockStory
  <2> QED BY <1>2, <2>1, <2>2, AskedIsHeld DEF HasRun
<1>5. PICK status : status = IF run = "CANCELED" THEN "same" ELSE StatusOf(See(x, step))
  OBVIOUS
<1>6. PICK y : y = Tx("commit", {}, x.held, x.mine, status, x.goal, x.queue, x.ready)
  OBVIOUS
<1>7. Goes(c, y)
  <2>1. PICK t : t = [x EXCEPT !.run = status]
    OBVIOUS
  <2>2. GoTo(c, t, "commit", {})
    <3>1. RunView(c) = run /\ View(c) = See(x, step)
      BY <1>1, <1>3, ViewIs DEF RunView
    <3>2. status = IF RunView(c) = "CANCELED" THEN x.run ELSE StatusOf(View(c))
      BY <1>3, <1>5, <3>1, Zenon
    <3> QED BY <1>1, <2>1, <3>2, Zenon DEF Recompute
  <2>3. t = Tx(x.pc, x.want, x.held, x.mine, status, x.goal, x.queue, x.ready)
    BY <1>3, <2>1, ExceptTx, Zenon
  <2>4. t.held = x.held /\ t.mine = x.mine /\ t.run = status /\ t.goal = x.goal /\ t.queue = x.queue /\ t.ready = x.ready /\ Shaped(t)
    BY <2>3, Fields
  <2>5. Goes(c, Tx("commit", {}, t.held, t.mine, t.run, t.goal, t.queue, t.ready))
    BY <2>2, <2>4, GoesOn
  <2> QED BY <1>6, <2>4, <2>5, Zenon
<1>8. /\ y.pc = "commit" /\ y.want = {} /\ y.held = x.held /\ y.mine = x.mine /\ y.run = status
      /\ y.goal = x.goal /\ y.queue = x.queue /\ y.ready = x.ready /\ Shaped(y)
  BY <1>6, Fields
<1>9. Mine(y) = Mine(x) /\ Knows(y, step) = Knows(x, step) /\ See(y, step) = See(x, step)
  <2>1. y.mine = x.mine
    BY <1>8
  <2> QED BY <2>1, Zenon DEF Mine, Knows, See
<1>10. WriteStory(c, y, step) /\ OpenStory(c, y, step)
  <2>1. y.mine = x.mine /\ x.held \subseteq y.held /\ Unapplied(c, y) = Unapplied(c, x)
    BY <1>2, <1>8 DEF Unapplied, Queued
  <2>2. \A d \in Mine(x) : x.mine[d].status = "BLOCKED" /\ x.mine[d].pending = 0 => d \in y.ready
    BY <1>3, <1>8 DEF Lists
  <2> QED BY <1>3, <2>1, <2>2, WritesKept
<1>11. StatusOf(See(x, step)) \in (OpenRun \cup ClosedRun) \ {"same", "CANCELED"}
  BY DEF StatusOf, OpenRun, ClosedRun
<1>12. CommitStory(y, step)
  <2>1. CASE run = "CANCELED"
    <3>1. Mine(x) = {}
      <4>1. SUFFICES ASSUME Mine(x) # {} PROVE FALSE
        OBVIOUS
      <4>2. run \in OpenRun
        BY <1>3, <4>1, RunIsOpen
      <4> QED BY <2>1, <4>2 DEF OpenRun
    <3>2. y.run = "same"
      BY <1>5, <1>8, <2>1
    <3> QED BY <1>9, <3>1, <3>2 DEF CommitStory
  <2>2. CASE run # "CANCELED"
    <3>1. y.run = StatusOf(See(y, step)) /\ y.run \notin {"same", "CANCELED"}
      BY <1>5, <1>8, <1>9, <1>11, <2>2
    <3>2. HasRun(y)
      BY <1>4, <1>8 DEF HasRun
    <3> QED BY <3>1, <3>2 DEF CommitStory
  <2> QED BY <2>1, <2>2
<1>13. TxTyped(y)
  <2>1. y.run \in OpenRun \cup ClosedRun \cup {"same"} /\ y.pc \in Pcs
    BY <1>5, <1>8, <1>11 DEF Pcs
  <2>2. Mine(y) \subseteq Steps /\ \A s \in Mine(y) : y.mine[s] \in StepRow
    BY <1>3, <1>8, <1>9
  <2>3. y.queue \in Seq(Steps) /\ y.ready \subseteq Steps /\ y.want \subseteq Locks /\ y.held \subseteq Locks
    BY <1>3, <1>4, <1>8 DEF TxTyped
  <2> QED BY <1>8, <2>1, <2>2, <2>3, Zenon DEF TxTyped
<1>14. Running(c, x, step)
  BY <1>2, <1>3, RunningIs
<1>15. ControlStory(c, y, step) /\ ListStory(c, y, step)
  <2>1. y.pc \notin {"idle"} \cup Reading \cup Cascading \cup Canceling
    BY <1>8 DEF Reading, Cascading, Canceling
  <2>2. ControlStory(c, y, step)
    BY <1>8, <1>14, <2>1 DEF ControlStory, Running
  <2>3. ListStory(c, y, step)
    BY <1>4, <1>8 DEF ListStory, Distinct
  <2> QED BY <2>2, <2>3
<1>16. LockStory(c, y, step) /\ WholeRun(c, y, step)
  <2>1. \A s : HasStep(y, s) <=> HasStep(x, s)
    BY <1>8 DEF HasStep
  <2>2. \A s \in Steps : Exclusive("step", s) \in Asked(y) => s \in Knows(y, step)
    BY <1>8, <1>9, <1>14 DEF Asked, Running, HasStep
  <2>3. LockStory(c, y, step)
    BY <1>8, <2>2 DEF LockStory
  <2>4. WholeRun(c, y, step)
    BY <1>8, <1>9, <1>14, <2>1 DEF WholeRun, Running
  <2> QED BY <2>3, <2>4
<1>17. Story(c, y, step)
  BY <1>10, <1>12, <1>13, <1>15, <1>16 DEF Story
<1>18. \A o \in Clients \ {c} : Apart(y, tx[o])
  BY <1>1, <1>8, ApartNow
<1> QED BY <1>3, <1>7, <1>17, <1>18 DEF Keeps, Goes

(* Nobody has a lock on a step that is not there yet.                      *)
LEMMA AbsentIsFree ==
  ASSUME LocksInv, NEW c \in Clients, c[1] = "append", NEW o \in Clients \ {c}, NEW d \in Steps, step[d].status = "ABSENT",
         NEW k \in tx[o].held
  PROVE  k.row # <<"step", d>>
<1>1. Story(o, tx[o], step) /\ TxTyped(tx[o]) /\ Owns(o, tx[o], step)
  BY DEF LocksInv, Story, WriteStory
<1>2. SUFFICES ASSUME k.row = <<"step", d>> PROVE FALSE
  OBVIOUS
<1>3. k \in Locks
  BY <1>1 DEF TxTyped
<1>4. k = Exclusive("step", d)
  BY <1>2, <1>3 DEF Locks, Exclusive
<1>5. d \in Knows(tx[o], step)
  BY <1>1, <1>4 DEF Story, LockStory, Asked
<1>6. d \in Mine(tx[o])
  BY <1>1, <1>5, KnowsRow
<1>7. o[1] = "append"
  BY <1>1, <1>6 DEF Owns
<1> QED BY <1>7, ClientKinds

LEMMA NothingSeen ==
  ASSUME NEW x, Mine(x) = {}, NEW rows \in [Steps -> StepRow]
  PROVE  See(x, rows) = rows
BY DEF See, Mine

LEMMA AppendKeeps ==
  ASSUME LocksInv, NEW c \in Clients, c[1] = "append", AppendRunLocked(c)
  PROVE  \E y : Keeps(c, y)
<1>1. PICK x : x = tx[c]
  OBVIOUS
<1>2. x.pc = "append" /\ x.want = {} /\ x.pc \in Reading
  BY <1>1 DEF AppendRunLocked, At, Reading
<1>3. /\ Story(c, x, step) /\ TxTyped(x) /\ Mine(x) = {} /\ Shaped(x) /\ x.queue = <<>> /\ x.ready = {} /\ x.run = "same"
      /\ step \in [Steps -> StepRow] /\ Sound(step, run) /\ jobs \in [Steps -> Nat]
  BY <1>1, <1>2 DEF LocksInv, RowsTyped, Story, ControlStory, ListStory, TxTyped
<1>4. View(c) = step
  BY <1>1, <1>3, NothingSeen, ViewIs
<1>5. CASE GoTo(c, tx[c], "commit", {})
  BY <1>1, <1>2, <1>5, QuitKeeps
<1>6. CASE RolledBack(c)
  BY <1>6, RollbackKeeps
<1>7. PICK new : new = [d \in Appended |-> AppendedRow(step, d)]
  OBVIOUS
<1>8. [d \in Appended |-> InsertedRow(c, d)] = new
  <2>1. \A d \in Appended : InsertedRow(c, d) = AppendedRow(step, d)
    BY <1>4, Zenon DEF InsertedRow, AppendedRow
  <2> QED BY <1>7, <2>1, Zenon
<1>9. PICK held : held = x.held \cup {Shared("release")} \cup {Exclusive("step", d) : d \in Appended}
  OBVIOUS
<1>10. PICK ready : ready = {d \in Appended : new[d].pending = 0}
  OBVIOUS
<1>11. CASE ~AppendRefused(c) /\ ReleaseIsFree(c) /\ GoTo(c, [Write(x, new) EXCEPT !.held = held, !.ready = ready], "cascade", {})
  <2>1. Appended \subseteq Steps /\ Window \in Steps
    BY LocksAssumption
  <2>2. (\A s \in Appended : step[s].status = "ABSENT") /\ step[Window].status = "WAITING_FOR_EXTERNAL"
    BY <1>4, <1>11 DEF AppendRefused, AlreadyApplied
  <2>3. PICK m : m = Over(new, x.mine)
    OBVIOUS
  <2>4. DOMAIN m = Appended /\ \A d \in Appended : m[d] = AppendedRow(step, d) /\ m[d] = new[d]
    <3>1. DOMAIN new = Appended /\ \A d \in Appended : new[d] = AppendedRow(step, d)
      BY <1>7
    <3>2. PICK old : old = x.mine
      OBVIOUS
    <3>3. DOMAIN old = {} /\ m = Over(new, old)
      BY <1>3, <2>3, <3>2, Zenon DEF Mine
    <3>4. DOMAIN m = Appended /\ \A d \in Appended : m[d] = new[d]
      <4>1. DOMAIN m = DOMAIN new /\ \A d \in DOMAIN new : m[d] = new[d]
        BY <3>3 DEF Over
      <4>2. DOMAIN new = Appended
        BY <3>1
      <4> QED BY <4>1, <4>2, Zenon
    <3> QED BY <3>1, <3>4, Zenon
  <2>5. PICK y : y = Tx("cascade", {}, held, m, x.run, x.goal, x.queue, ready)
    OBVIOUS
  <2>6. Goes(c, y)
    <3>1. PICK t : t = Write(x, new)
      OBVIOUS
    <3>2. t = Tx(x.pc, x.want, x.held, m, x.run, x.goal, x.queue, x.ready)
      BY <1>3, <2>3, <3>1, WriteTx, Zenon
    <3>3. t.mine = m /\ t.run = x.run /\ t.goal = x.goal /\ t.queue = x.queue /\ Shaped(t)
      BY <3>2, Fields
    <3>4. PICK u : u = [t EXCEPT !.held = held, !.ready = ready]
      OBVIOUS
    <3>5. u = Tx(t.pc, t.want, held, t.mine, t.run, t.goal, t.queue, ready)
      BY <3>3, <3>4, ExceptHeldReady, ZenonT(40)
    <3>6. u.held = held /\ u.mine = t.mine /\ u.run = t.run /\ u.goal = t.goal /\ u.queue = t.queue /\ u.ready = ready /\ Shaped(u)
      BY <3>5, Fields
    <3>7. GoTo(c, u, "cascade", {})
      BY <1>11, <3>1, <3>4, Zenon
    <3>8. Goes(c, Tx("cascade", {}, u.held, u.mine, u.run, u.goal, u.queue, u.ready))
      BY <3>6, <3>7, GoesOn
    <3> QED BY <2>5, <3>3, <3>6, <3>8, Zenon
  <2>7. /\ y.pc = "cascade" /\ y.want = {} /\ y.held = held /\ y.mine = m /\ y.run = x.run
        /\ y.goal = x.goal /\ y.queue = x.queue /\ y.ready = ready /\ Shaped(y)
    BY <2>5, Fields
  <2>8. /\ \A s \in Knows(x, step) : HasStep(x, s)
        /\ \A s \in Steps : HasStep(x, s) => s \in Knows(x, step)
    BY <1>2, <1>3 DEF Story, WholeRun, LockStory, Asked, HasStep
  <2>9. /\ \A s \in Steps : HasStep(y, s) <=> s \in Knows(x, step) \cup Appended
        /\ Releases(y)
    <3>1. \A s : Exclusive("step", s) \in held <=> Exclusive("step", s) \in x.held \/ s \in Appended
      BY <1>9, ExclusiveLocks
    <3> QED BY <1>9, <2>7, <2>8, <3>1 DEF HasStep, Releases
  <2>10. Appends(c, x, y, step)
    <3>1. Window \in Knows(x, step)
      BY <1>3, <2>1, <2>2, NothingSeen DEF Knows
    <3>2. HasStep(y, Window) /\ Releases(y) /\ (\A s \in Appended : HasStep(y, s))
      BY <2>1, <2>9, <3>1
    <3>3. Mine(y) = Appended
      BY <2>4, <2>7 DEF Mine
    <3>4. Unapplied(c, y) = {}
      BY <1>3, <2>7 DEF Unapplied, Queued, Elements
    <3>5. \A d \in Appended : y.mine[d] = AppendedRow(step, d)
      BY <2>4, <2>7, Zenon
    <3>6. y.ready = {d \in Appended : y.mine[d].pending = 0}
      BY <1>10, <2>4, <2>7, Zenon
    <3> QED BY <1>3, <2>2, <3>2, <3>3, <3>4, <3>5, <3>6, Zenon DEF Appends
  <2>11. /\ WriteStory(c, y, step) /\ OpenStory(c, y, step) /\ KnowsThese(y, step, Knows(x, step) \cup Appended)
         /\ \A d \in Appended : y.mine[d] \in StepRow
    BY <1>3, <2>10, AppendRows
  <2>12. Knows(y, step) = Knows(x, step) \cup Appended
    BY <2>11 DEF KnowsThese
  <2>13. Running(c, y, step)
    <3>1. \A s \in Steps : HasStep(y, s) <=> s \in Knows(y, step)
      BY <2>9, <2>12
    <3>2. Knows(y, step) \subseteq Steps
      BY DEF Knows
    <3> QED BY <1>3, <2>7, <2>9, <3>1, <3>2 DEF Running
  <2>14. TxTyped(y)
    <3>1. y.held \subseteq Locks
      <4>1. x.held \subseteq Locks
        BY <1>3 DEF TxTyped
      <4> QED BY <1>9, <2>1, <2>7, <4>1, ExclusiveLocks
    <3>2. y.ready \subseteq Steps /\ y.queue \in Seq(Steps) /\ y.pc \in Pcs /\ y.run \in OpenRun \cup ClosedRun \cup {"same"} /\ y.want \subseteq Locks
      BY <1>3, <1>10, <2>1, <2>7 DEF Pcs, Cascading
    <3>3. Mine(y) \subseteq Steps /\ \A s \in Mine(y) : y.mine[s] \in StepRow
      BY <2>1, <2>4, <2>7, <2>11 DEF Mine
    <3> QED BY <2>7, <3>1, <3>2, <3>3, Zenon DEF TxTyped
  <2>15. Story(c, y, step)
    <3>1. y.pc \in Cascading /\ y.ready \subseteq Mine(y) /\ Distinct(y.queue)
      BY <1>3, <1>10, <2>4, <2>7 DEF Cascading, Mine, Distinct
    <3> QED BY <2>7, <2>11, <2>13, <2>14, <3>1, RunningStory
  <2>16. ASSUME NEW o \in Clients \ {c} PROVE Apart(y, tx[o])
    <3>1. PICK z : z = [held |-> x.held \cup {Shared("release")}]
      OBVIOUS
    <3>2. z.held = x.held \cup {Shared("release")}
      BY <3>1
    <3>3. z.held \subseteq tx[c].held \cup {Shared("release")}
      BY <1>1, <3>2
    <3>4. Apart(z, tx[o])
      BY <1>11, <3>3, ApartFree
    <3>5. ASSUME NEW h \in y.held, NEW k \in tx[o].held, h.row = k.row PROVE h.mode = "S" /\ k.mode = "S"
      <4>1. CASE h \in z.held
        BY <3>4, <3>5, <4>1 DEF Apart
      <4>2. CASE h \in {Exclusive("step", d) : d \in Appended}
        <5>1. PICK d \in Appended : h = Exclusive("step", d)
          BY <4>2
        <5>2. k.row # <<"step", d>>
          BY <2>1, <2>2, AbsentIsFree
        <5> QED BY <3>5, <5>1, <5>2 DEF Exclusive
      <4> QED BY <1>9, <2>7, <3>2, <4>1, <4>2
    <3> QED BY <3>5 DEF Apart
  <2> QED BY <1>3, <2>6, <2>15, <2>16 DEF Keeps, Goes
<1>12. [Write(x, new) EXCEPT !.held = @ \cup {Shared("release")} \cup {Exclusive("step", d) : d \in Appended},
                             !.ready = {d \in Appended : new[d].pending = 0}] =
       [Write(x, new) EXCEPT !.held = held, !.ready = ready]
  <2>1. PICK t : t = Write(x, new)
    OBVIOUS
  <2>2. t = Tx(x.pc, x.want, x.held, Over(new, x.mine), x.run, x.goal, x.queue, x.ready)
    BY <1>3, <2>1, WriteTx, Zenon
  <2>3. t.held = x.held
    BY <2>2, Fields
  <2>4. held = t.held \cup {Shared("release")} \cup {Exclusive("step", d) : d \in Appended}
    BY <1>9, <2>3, Zenon
  <2> QED BY <1>10, <2>1, <2>4, Zenon
<1> QED BY <1>1, <1>5, <1>6, <1>8, <1>11, <1>12, Zenon DEF AppendRunLocked

LEMMA SweepKeeps ==
  ASSUME LocksInv, NEW c \in Clients, c[1] = "cancel", Sweep(c)
  PROVE  \E y : Keeps(c, y)
<1>1. PICK x : x = tx[c]
  OBVIOUS
<1>2. x.pc = "sweep" /\ x.want = {} /\ x.pc \in Reading
  BY <1>1 DEF Sweep, At, Reading, Canceling
<1>3. /\ Story(c, x, step) /\ TxTyped(x) /\ Mine(x) = {} /\ Shaped(x) /\ x.queue = <<>> /\ x.ready = {} /\ x.run = "same"
      /\ step \in [Steps -> StepRow] /\ Sound(step, run) /\ jobs \in [Steps -> Nat]
  BY <1>1, <1>2 DEF LocksInv, RowsTyped, Story, ControlStory, ListStory, TxTyped
<1>4. View(c) = step
  BY <1>1, <1>3, NothingSeen, ViewIs
<1>5. CASE GoTo(c, tx[c], "commit", {})
  BY <1>1, <1>2, <1>5, QuitKeeps
<1>6. PICK K : K = Knows(x, step)
  OBVIOUS
<1>7. PICK swept : swept = {s \in K : step[s].status \notin Terminal}
  OBVIOUS
<1>8. PICK new : new = [s \in K |->
                [step[s] EXCEPT !.status = IF s \in swept THEN "CANCELED" ELSE @,
                                !.pending = @ - Cardinality(Prereqs(s) \cap swept),
                                !.unsatisfied = @ + Cardinality({p \in Prereqs(s) \cap swept : <<p, s>> \in OnSuccess})]]
  OBVIOUS
<1>9. CASE GoTo(c, [Write(x, new) EXCEPT !.run = "CANCELED"], "commit", {})
  <2>1. K \subseteq Steps
    BY <1>6 DEF Knows
  <2>2. PICK m : m = Over(new, x.mine)
    OBVIOUS
  <2>3. DOMAIN m = K /\ \A s \in K : m[s] = new[s]
    <3>1. DOMAIN new = K
      BY <1>8
    <3>2. PICK old : old = x.mine
      OBVIOUS
    <3>3. DOMAIN old = {} /\ m = Over(new, old)
      BY <1>3, <2>2, <3>2, Zenon DEF Mine
    <3>4. DOMAIN m = DOMAIN new /\ \A s \in DOMAIN new : m[s] = new[s]
      BY <3>3 DEF Over
    <3> QED BY <3>1, <3>4, Zenon
  <2>4. ASSUME NEW s \in K
        PROVE  /\ m[s].status = (IF s \in swept THEN "CANCELED" ELSE step[s].status)
               /\ m[s].job = step[s].job
               /\ m[s].pending = step[s].pending - Cardinality(Prereqs(s) \cap swept)
               /\ m[s].unsatisfied = step[s].unsatisfied + Cardinality({p \in Prereqs(s) \cap swept : <<p, s>> \in OnSuccess})
               /\ m[s] = [status |-> m[s].status, pending |-> m[s].pending, unsatisfied |-> m[s].unsatisfied, job |-> m[s].job]
               /\ m[s].status \in Statuses /\ m[s].job \in BOOLEAN
    <3>1. PICK row \in StepRow : row = step[s]
      BY <1>3, <2>1
    <3>2. PICK a, b : a = Cardinality(Prereqs(s) \cap swept) /\ b = Cardinality({p \in Prereqs(s) \cap swept : <<p, s>> \in OnSuccess})
      BY Zenon
    <3>3. PICK u : u = IF s \in swept THEN "CANCELED" ELSE row.status
      OBVIOUS
    <3>4. m[s] = [row EXCEPT !.status = u, !.pending = @ - a, !.unsatisfied = @ + b]
      <4>1. new[s] = [step[s] EXCEPT !.status = IF s \in swept THEN "CANCELED" ELSE @,
                                !.pending = @ - Cardinality(Prereqs(s) \cap swept),
                                !.unsatisfied = @ + Cardinality({p \in Prereqs(s) \cap swept : <<p, s>> \in OnSuccess})]
        BY <1>8, Zenon
      <4> QED BY <2>3, <3>1, <3>2, <3>3, <4>1, Zenon
    <3>5. u \in Statuses
      BY <3>1, <3>3 DEF StepRow, Statuses, Terminal
    <3>6. /\ m[s].status = u /\ m[s].job = row.job /\ m[s].pending = row.pending - a /\ m[s].unsatisfied = row.unsatisfied + b
          /\ m[s] = [status |-> m[s].status, pending |-> m[s].pending, unsatisfied |-> m[s].unsatisfied, job |-> m[s].job]
          /\ row.job \in BOOLEAN
      BY <3>1, <3>4 DEF StepRow
    <3> QED BY <3>1, <3>2, <3>3, <3>5, <3>6, Zenon
  <2>5. PICK y : y = Tx("commit", {}, x.held, m, "CANCELED", x.goal, x.queue, x.ready)
    OBVIOUS
  <2>6. Goes(c, y)
    <3>1. PICK t : t = Write(x, new)
      OBVIOUS
    <3>2. t = Tx(x.pc, x.want, x.held, m, x.run, x.goal, x.queue, x.ready)
      BY <1>3, <2>2, <3>1, WriteTx, Zenon
    <3>3. t.held = x.held /\ t.mine = m /\ t.goal = x.goal /\ t.queue = x.queue /\ t.ready = x.ready /\ Shaped(t)
      BY <3>2, Fields
    <3>4. PICK u : u = [t EXCEPT !.run = "CANCELED"]
      OBVIOUS
    <3>5. u = Tx(t.pc, t.want, t.held, t.mine, "CANCELED", t.goal, t.queue, t.ready)
      BY <3>3, <3>4, ExceptTx, Zenon
    <3>6. /\ u.held = t.held /\ u.mine = t.mine /\ u.run = "CANCELED" /\ u.goal = t.goal /\ u.queue = t.queue /\ u.ready = t.ready
          /\ Shaped(u)
      BY <3>5, Fields
    <3>7. GoTo(c, u, "commit", {})
      BY <1>9, <3>1, <3>4, Zenon
    <3>8. Goes(c, Tx("commit", {}, u.held, u.mine, u.run, u.goal, u.queue, u.ready))
      BY <3>6, <3>7, GoesOn
    <3> QED BY <2>5, <3>3, <3>6, <3>8, Zenon
  <2>7. /\ y.pc = "commit" /\ y.want = {} /\ y.held = x.held /\ y.mine = m /\ y.run = "CANCELED"
        /\ y.goal = x.goal /\ y.queue = x.queue /\ y.ready = x.ready /\ Shaped(y)
    BY <2>5, Fields
  <2>8. (\A s \in K : HasStep(x, s)) /\ HasRun(x) /\ \A s \in Steps : HasStep(x, s) => s \in K
    BY <1>2, <1>3, <1>6 DEF Story, WholeRun, LockStory, Asked, HasStep
  <2>9. Sweeps(c, x, y, step, K, swept)
    <3>1. \A s \in K : HasStep(y, s)
      BY <2>7, <2>8 DEF HasStep
    <3>2. Mine(y) = K
      BY <2>3, <2>7 DEF Mine
    <3>3. Unapplied(c, y) = {}
      BY <1>3, <2>7 DEF Unapplied, Queued, Elements
    <3> QED BY <1>3, <1>6, <1>7, <2>4, <2>7, <3>1, <3>2, <3>3, Zenon DEF Sweeps
  <2>10. /\ WriteStory(c, y, step) /\ OpenStory(c, y, step) /\ KnowsThese(y, step, K)
         /\ \A s \in K : y.mine[s].status \in Terminal /\ y.mine[s].pending \in Nat /\ y.mine[s].unsatisfied \in Nat
    BY <1>3, <2>9, SweepRows
  <2>11. Knows(y, step) = K /\ Mine(y) = K
    BY <2>3, <2>7, <2>10 DEF KnowsThese, Mine
  <2>12. TxTyped(y)
    <3>1. ASSUME NEW s \in K PROVE m[s] \in StepRow
      <4>1. PICK a, b, e, f : a = m[s].status /\ b = m[s].pending /\ e = m[s].unsatisfied /\ f = m[s].job
        BY Zenon
      <4>2. b \in Nat /\ e \in Nat
        BY <2>7, <2>10, <4>1
      <4>3. a \in Statuses /\ f \in BOOLEAN
        BY <2>4, <4>1, Zenon
      <4>4. [status |-> a, pending |-> b, unsatisfied |-> e, job |-> f] \in StepRow
        BY <4>2, <4>3 DEF StepRow
      <4> QED BY <2>4, <4>1, <4>4, Zenon
    <3>2. Mine(y) \subseteq Steps /\ \A s \in Mine(y) : y.mine[s] \in StepRow
      BY <2>1, <2>7, <2>11, <3>1
    <3>3. /\ y.queue \in Seq(Steps) /\ y.ready \subseteq Steps /\ y.want \subseteq Locks /\ y.held \subseteq Locks
          /\ y.pc \in Pcs /\ y.run \in OpenRun \cup ClosedRun \cup {"same"}
      BY <1>3, <2>7 DEF TxTyped, Pcs, ClosedRun
    <3> QED BY <2>7, <3>2, <3>3, Zenon DEF TxTyped
  <2>13. ControlStory(c, y, step) /\ ListStory(c, y, step)
    <3>1. y.pc \notin {"idle"} \cup Reading \cup Cascading \cup Canceling
      BY <2>7 DEF Reading, Cascading, Canceling
    <3>2. ControlStory(c, y, step)
      BY <2>7, <3>1 DEF ControlStory
    <3>3. ListStory(c, y, step)
      BY <1>3, <2>7 DEF ListStory, Distinct
    <3> QED BY <3>2, <3>3
  <2>14. LockStory(c, y, step) /\ WholeRun(c, y, step)
    <3>1. \A s \in Steps : Exclusive("step", s) \in Asked(y) => s \in Knows(y, step)
      BY <2>7, <2>8, <2>11 DEF Asked, HasStep
    <3>2. LockStory(c, y, step)
      BY <2>7, <3>1 DEF LockStory
    <3>3. WholeRun(c, y, step)
      BY <2>7 DEF WholeRun
    <3> QED BY <3>2, <3>3
  <2>15. CommitStory(y, step)
    <3>1. HasRun(y)
      BY <2>7, <2>8 DEF HasRun
    <3> QED BY <2>7, <2>10, <2>11, <3>1 DEF CommitStory
  <2>16. Story(c, y, step)
    BY <2>10, <2>12, <2>13, <2>14, <2>15 DEF Story
  <2>17. \A o \in Clients \ {c} : Apart(y, tx[o])
    BY <1>1, <2>7, ApartNow
  <2> QED BY <1>3, <2>6, <2>16, <2>17 DEF Keeps, Goes
<1>10. Known(c) = K
  BY <1>1, <1>6, ViewIs
<1> QED BY <1>1, <1>4, <1>5, <1>7, <1>8, <1>9, <1>10, Zenon DEF Sweep

-----------------------------------------------------------------------------
(* The invariant.                                                          *)

(* A step of c is a commit, or a statement that keeps the story of c.      *)
LEMMA StepKeeps ==
  ASSUME LocksInv, NEW c \in Clients, Step(c), ~Commit(c)
  PROVE  \E y : Keeps(c, y)
<1>1. CASE Lock(c)
  BY <1>1, LockGranted
<1>2. CASE Victim(c)
  BY <1>2, RollbackKeeps DEF Victim
<1>3. CASE Resolve(c)
  BY <1>3, NextPrerequisiteKeeps, UpdateDependentsKeeps, NextDependentKeeps, ReleaseKeeps, CascadeEndsKeeps, RecomputeKeeps
     DEF Resolve
<1>4. CASE c[1] = "job" /\ JobClient(c, c[2])
  BY <1>4, JobReads, JobStep, ReleaseGranted, RollbackKeeps DEF JobClient, ReleaseTimeout
<1>5. CASE c[1] = "external" /\ ExternalClient(c, c[2])
  BY <1>5, ExternalReads, ExternalStep DEF ExternalClient
<1>6. CASE c[1] = "append" /\ AppendClient(c)
  BY <1>6, AppendReads, AppendKeeps DEF AppendClient
<1>7. CASE c[1] = "cancel" /\ CancelClient(c)
  BY <1>7, CancelReads, SweepKeeps DEF CancelClient
<1> QED BY <1>1, <1>2, <1>3, <1>4, <1>5, <1>6, <1>7 DEF Step

LEMMA InvKept ==
  ASSUME LocksInv, NEW c \in Clients, NEW y, Keeps(c, y)
  PROVE  LocksInv'
<1>1. /\ DOMAIN tx' = Clients /\ tx'[c] = y /\ \A o \in Clients \ {c} : tx'[o] = tx[o]
  BY DEF Keeps, LocksInv, RowsTyped
<1>2. step' = step /\ run' = run /\ jobs' \in [Steps -> Nat]
  BY DEF Keeps
<1>3. RowsTyped'
  BY <1>1, <1>2 DEF RowsTyped, LocksInv
<1>4. ASSUME NEW a \in Clients, NEW o \in Clients, a # o, NEW h \in tx'[a].held, NEW k \in tx'[o].held, h.row = k.row
      PROVE  h.mode = "S" /\ k.mode = "S"
  <2>1. CASE a = c
    BY <1>1, <1>4, <2>1 DEF Keeps, Apart
  <2>2. CASE o = c
    <3>1. Apart(y, tx[a])
      BY <1>4, <2>2 DEF Keeps
    <3> QED BY <1>1, <1>4, <2>2, <3>1 DEF Apart
  <2>3. CASE a # c /\ o # c
    BY <1>1, <1>4, <2>3 DEF LocksInv, LocksApart
  <2> QED BY <2>1, <2>2, <2>3
<1>5. LocksApart'
  BY <1>4 DEF LocksApart
<1>6. Sound(step', run')
  BY <1>2 DEF LocksInv
<1>7. ASSUME NEW o \in Clients PROVE Story(o, tx'[o], step')
  <2>1. CASE o = c
    BY <1>1, <1>2, <2>1 DEF Keeps
  <2>2. CASE o # c
    BY <1>1, <1>2, <2>2 DEF LocksInv
  <2> QED BY <2>1, <2>2
<1> QED BY <1>3, <1>5, <1>6, <1>7 DEF LocksInv

LEMMA CommitKeeps ==
  ASSUME LocksInv, NEW c \in Clients, Commit(c)
  PROVE  LocksInv'
<1>1. PICK z : z = tx[c]
  OBVIOUS
<1>2. z.pc = "commit" /\ Story(c, z, step) /\ TxTyped(z) /\ step \in [Steps -> StepRow] /\ Sound(step, run)
  BY <1>1 DEF Commit, At, LocksInv, RowsTyped, Story
<1>3. step' = See(z, step)
  BY <1>1, ViewIs DEF Commit
<1>4. run' = IF z.run = "same" THEN run ELSE z.run
  BY <1>1 DEF Commit, RunView
<1>5. DOMAIN tx' = Clients /\ tx'[c] = Idle /\ (\A o \in Clients \ {c} : tx'[o] = tx[o]) /\ jobs' = jobs
  BY Zenon DEF Commit, LocksInv, RowsTyped
<1>6. RowsTyped'
  <2>1. step' \in [Steps -> StepRow]
    BY <1>2, <1>3, SeeTyped
  <2>2. run' \in OpenRun \cup ClosedRun
    BY <1>2, <1>4 DEF LocksInv, RowsTyped, TxTyped
  <2> QED BY <1>5, <2>1, <2>2 DEF LocksInv, RowsTyped
<1>7. LocksApart'
  <2>1. Idle.held = {}
    BY DEF Idle
  <2> QED BY <1>5, <2>1 DEF LocksInv, LocksApart
<1>8. Sound(step', run')
  BY <1>2, <1>3, <1>4, CommitSound
<1>9. ASSUME NEW o \in Clients PROVE Story(o, tx'[o], step')
  <2>1. CASE o = c
    BY <1>5, <2>1, IdleStory
  <2>2. CASE o # c
    <3>1. Story(o, tx[o], step) /\ Apart(tx[o], z)
      BY <1>1, <2>2 DEF LocksInv, LocksApart, Apart
    <3>2. Story(o, tx[o], See(z, step))
      BY <1>2, <2>2, <3>1, Rely
    <3> QED BY <1>3, <1>5, <2>2, <3>2
  <2> QED BY <2>1, <2>2
<1> QED BY <1>6, <1>7, <1>8, <1>9 DEF LocksInv

LEMMA InitInv == Init => LocksInv
<1> SUFFICES ASSUME Init PROVE LocksInv
  OBVIOUS
<1>1. PICK rows : rows = step
  OBVIOUS
<1>2. ASSUME NEW s \in Steps
      PROVE  /\ s \in Appended => rows[s] = Row("ABSENT", 0, 0, FALSE)
             /\ s \notin Appended /\ Prereqs(s) # {} => rows[s] = Row("BLOCKED", Cardinality(Prereqs(s)), 0, FALSE)
             /\ s \notin Appended /\ Prereqs(s) = {} =>
                  rows[s] = IF s \in External THEN Row("WAITING_FOR_EXTERNAL", 0, 0, FALSE) ELSE Row("ENQUEUED", 0, 0, TRUE)
  BY <1>1 DEF Init
<1>3. ASSUME NEW s \in Steps
      PROVE  \E n \in Nat :
               /\ \/ n = 0 /\ rows[s] = Row("ABSENT", n, 0, FALSE)
                  \/ n = Cardinality(Prereqs(s)) /\ n # 0 /\ rows[s] = Row("BLOCKED", n, 0, FALSE)
                  \/ n = 0 /\ Prereqs(s) = {} /\ rows[s] = Row("WAITING_FOR_EXTERNAL", n, 0, FALSE)
                  \/ n = 0 /\ Prereqs(s) = {} /\ rows[s] = Row("ENQUEUED", n, 0, TRUE)
  <2>1. Prereqs(s) \in SUBSET Steps
    BY PrereqsAre
  <2>2. IsFiniteSet(Prereqs(s)) /\ Cardinality(Prereqs(s)) \in Nat
    BY <2>1, StepsFinite
  <2>3. Prereqs(s) # {} => Cardinality(Prereqs(s)) # 0
    BY <2>2, FS_EmptySet
  <2>4. CASE s \notin Appended /\ Prereqs(s) # {}
    BY <1>2, <2>2, <2>3, <2>4, Zenon
  <2>5. CASE s \in Appended
    BY <1>2, <2>5
  <2>6. CASE s \notin Appended /\ Prereqs(s) = {}
    BY <1>2, <2>6
  <2> QED BY <2>4, <2>5, <2>6
<1>4. ASSUME NEW s \in Steps
      PROVE  /\ rows[s] \in StepRow /\ rows[s].unsatisfied = 0 /\ rows[s].status \notin Terminal
             /\ rows[s].status # "ABSENT" => rows[s].pending = Cardinality(Prereqs(s))
             /\ rows[s].status = "BLOCKED" => rows[s].pending # 0 /\ rows[s].job = FALSE
             /\ rows[s].status \in {"ENQUEUED", "RUNNING"} => rows[s].job = TRUE
             /\ rows[s].status = "ABSENT" => rows[s].job = FALSE
  <2>1. PICK n \in Nat, status \in {"ABSENT", "BLOCKED", "WAITING_FOR_EXTERNAL", "ENQUEUED"}, job \in BOOLEAN :
          /\ rows[s] = Row(status, n, 0, job) /\ (job = TRUE <=> status = "ENQUEUED")
          /\ status # "ABSENT" => n = Cardinality(Prereqs(s))
          /\ status = "BLOCKED" => n # 0
    <3>1. Prereqs(s) = {} => Cardinality(Prereqs(s)) = 0
      BY FS_EmptySet
    <3>2. PICK n \in Nat :
               /\ \/ n = 0 /\ rows[s] = Row("ABSENT", n, 0, FALSE)
                  \/ n = Cardinality(Prereqs(s)) /\ n # 0 /\ rows[s] = Row("BLOCKED", n, 0, FALSE)
                  \/ n = 0 /\ Prereqs(s) = {} /\ rows[s] = Row("WAITING_FOR_EXTERNAL", n, 0, FALSE)
                  \/ n = 0 /\ Prereqs(s) = {} /\ rows[s] = Row("ENQUEUED", n, 0, TRUE)
      BY <1>3
    <3> QED BY <3>1, <3>2
  <2>2. /\ rows[s].status = status /\ rows[s].pending = n /\ rows[s].unsatisfied = 0 /\ rows[s].job = job
        /\ rows[s] = [status |-> status, pending |-> n, unsatisfied |-> 0, job |-> job]
    BY <2>1 DEF Row
  <2>3. rows[s] \in StepRow
    <3>1. status \in Statuses
      BY DEF Statuses, Open
    <3> QED BY <2>2, <3>1 DEF StepRow
  <2> QED BY <2>1, <2>2, <2>3 DEF Terminal
<1>5. rows \in [Steps -> StepRow]
  <2>1. rows = [s \in Steps |-> rows[s]]
    BY <1>1 DEF Init
  <2> QED BY <1>4, <2>1
<1>6. Agree(rows)
  <2>1. ASSUME NEW d \in Steps, rows[d].status # "ABSENT"
        PROVE  rows[d].pending = Cardinality(Pending(rows, {}, d)) /\ rows[d].unsatisfied = Cardinality(Unsatisfied(rows, {}, d))
    <3>1. Prereqs(d) \subseteq Steps
      BY PrereqsAre
    <3>2. Pending(rows, {}, d) = Prereqs(d)
      BY <1>4, <3>1 DEF Pending
    <3>3. Unsatisfied(rows, {}, d) = {}
      BY <1>4, <3>1 DEF Unsatisfied, Terminal
    <3> QED BY <1>4, <2>1, <3>2, <3>3, FS_EmptySet
  <2> QED BY <2>1 DEF Agree
<1>7. run = StatusOf(rows) /\ run \in OpenRun \cup ClosedRun /\ run # "CANCELED"
  <2>1. run = StatusOf(rows)
    BY <1>1 DEF Init
  <2>2. StatusOf(rows) \in (OpenRun \cup ClosedRun) \ {"CANCELED"}
    BY DEF StatusOf, OpenRun, ClosedRun
  <2> QED BY <2>1, <2>2
<1>8. Sound(rows, run)
  BY <1>4, <1>6, <1>7 DEF Sound
<1>9. jobs \in [Steps -> Nat]
  <2>1. PICK roots \in SUBSET Steps : roots = {s \in Steps \ (Appended \cup External) : Prereqs(s) = {}}
    OBVIOUS
  <2>2. jobs = [s \in Steps |-> IF s \in roots THEN Cardinality({o \in roots : o <= s}) ELSE 0]
    BY <2>1, Zenon DEF Init
  <2>3. \A s \in Steps : Cardinality({o \in roots : o <= s}) \in Nat
    <3>1. \A s \in Steps : {o \in roots : o <= s} \in SUBSET Steps
      OBVIOUS
    <3> QED BY <3>1, StepsFinite
  <2> HIDE <2>1
  <2> QED BY <2>2, <2>3
<1>10. DOMAIN tx = Clients /\ \A c \in Clients : tx[c] = Idle
  BY DEF Init
<1>11. LocksApart
  <2>1. Idle.held = {}
    BY DEF Idle
  <2> QED BY <1>10, <2>1 DEF LocksApart
<1>12. \A c \in Clients : Story(c, tx[c], step)
  BY <1>10, IdleStory
<1> QED BY <1>1, <1>5, <1>7, <1>8, <1>9, <1>10, <1>11, <1>12 DEF LocksInv, RowsTyped

LEMMA NextInv == LocksInv /\ [Next]_vars => LocksInv'
<1> SUFFICES ASSUME LocksInv, [Next]_vars PROVE LocksInv'
  OBVIOUS
<1>1. ASSUME NEW c \in Clients, Step(c) PROVE LocksInv'
  BY <1>1, StepKeeps, InvKept, CommitKeeps
<1>2. CASE UNCHANGED vars
  BY <1>2 DEF vars, LocksInv, RowsTyped, LocksApart
<1> QED BY <1>1, <1>2 DEF Next

(* Of completions, external completions, appends and cancellations of one  *)
(* run, none is lost or counted twice, no step is left BLOCKED behind      *)
(* ended steps, and a canceled run has nothing left to do: NoEndIsLost, for *)
(* every workflow graph and every set of clients whose transactions take   *)
(* their locks as terminal.rs, append.rs and cancel.rs do.                 *)
THEOREM NoEndIsLostHolds == Spec => []NoEndIsLost
<1>1. LocksInv => NoEndIsLost
  <2> SUFFICES ASSUME LocksInv PROVE NoEndIsLost
    OBVIOUS
  <2>1. Sound(step, run) /\ step \in [Steps -> StepRow]
    BY DEF LocksInv, RowsTyped
  <2>2. CountersAgree
    BY <2>1, AgreeIs DEF Sound
  <2>3. \A d \in Steps : step[d].status = "BLOCKED" => step[d].pending > 0
    <3>1. \A d \in Steps : step[d].pending \in Nat
      BY <2>1 DEF StepRow
    <3> QED BY <2>1, <3>1 DEF Sound
  <2>4. NothingStranded
    BY <2>1, <2>3 DEF Sound, NothingStranded
  <2>5. CanceledRunIsQuiet
    BY <2>1 DEF Sound, CanceledRunIsQuiet
  <2> QED BY <2>2, <2>4, <2>5 DEF NoEndIsLost
<1> QED BY <1>1, InitInv, NextInv, PTL DEF Spec

-----------------------------------------------------------------------------
(* The waits of a cancellation.                                            *)

(* The rows that a statement may wait for.                                 *)
WantedKind(pc) ==
  CASE pc \in {"job", "cancel_jobs", "cancel_jobs_again"} -> "job"
    [] pc \in {"release", "cancel_release"} -> "release"
    [] pc \in {"external", "append", "allows", "recompute", "cancel_run"} -> "run"
    [] OTHER -> "step"

HoldsOnly(x, kinds) == \A h \in x.held : h.row[1] \in kinds

(* What a transaction has locked when it waits: of the kinds of rows, those *)
(* that come earlier, and of the step rows of the run, those with lower    *)
(* ids.                                                                    *)
OrderStory(c, x) ==
  /\ \A l \in x.want : l.row[1] = WantedKind(x.pc)
  /\ x.pc \in {"job", "step", "external_step", "external", "append"} => \A l, k \in x.want : l = k
  /\ x.pc = "job" => HoldsOnly(x, {"job"}) /\ (x.want # {} => x.held = {})
  /\ x.pc = "step" /\ x.want # {} => HoldsOnly(x, {"job"})
  /\ x.pc \in {"steps", "external_step"} => HoldsOnly(x, {"step"})
  /\ x.pc \in {"external", "append"} /\ x.want # {} => HoldsOnly(x, {"step"})
  /\ x.pc \in {"cancel_jobs", "cancel_release", "cancel_jobs_again"} => HoldsOnly(x, {"job", "release"})
  /\ x.pc = "cancel_steps" => HoldsOnly(x, {"job", "release", "step"})
  /\ x.pc \in {"steps", "cancel_steps"} =>
       \A h \in x.held, w \in x.want : h.row[1] = "step" => h.row[2] < w.row[2]

(* An external completion asks for every step that exists, and then once   *)
(* more for its own, which may have been appended in between.              *)
ExternalStory(c, x) ==
  /\ c[1] = "external" /\ x.pc = "steps" =>
       \/ \A s \in Steps : Exclusive("step", s) \in Asked(x)
       \/ \A s \in Steps : Exclusive("step", s) \in Asked(x) <=> s \notin Appended
  /\ x.pc = "external_step" => x.want \subseteq {Exclusive("step", c[2])}
  /\ x.pc = "external_step" /\ x.want # {} =>
       HasStep(x, c[2]) \/ (c[2] \in Appended /\ \A s \in Appended : ~HasStep(x, s))

(* An append that goes ahead has the rows it inserts.                      *)
AppendStory(c, x) ==
  c[1] = "append" /\ (x.pc \in Cascading \/ (x.pc = "commit" /\ Mine(x) # {})) => \A s \in Appended : HasStep(x, s)

(* The steps of the append exist all or not at all.                        *)
Whole(rows) ==
  \/ \A s \in Steps : rows[s].status # "ABSENT"
  \/ \A s \in Steps : rows[s].status = "ABSENT" <=> s \in Appended

WaitStory(c, x) == OrderStory(c, x) /\ ExternalStory(c, x) /\ AppendStory(c, x)
WaitInv == Whole(step) /\ \A c \in Clients : WaitStory(c, tx[c])

LEMMA WantedKinds ==
  /\ \A pc \in {"job", "cancel_jobs", "cancel_jobs_again"} : WantedKind(pc) = "job"
  /\ \A pc \in {"release", "cancel_release"} : WantedKind(pc) = "release"
  /\ \A pc \in {"external", "append", "allows", "recompute", "cancel_run"} : WantedKind(pc) = "run"
  /\ \A pc \in {"step", "steps", "external_step", "dependents", "cancel_steps"} : WantedKind(pc) = "step"
BY DEF WantedKind

LEMMA LockKinds ==
  /\ \A k, s : Exclusive(k, s).row[1] = k /\ Exclusive(k, s).row[2] = s /\ Exclusive(k, s).row = <<k, s>>
  /\ \A k : Shared(k).row[1] = k
  /\ \A k, S : \A l \in Each(k, S) : l.row[1] = k
BY DEF Exclusive, Shared, Each

(* The transaction after a statement.                                      *)
LEMMA Became ==
  ASSUME LocksInv, NEW c \in Clients, NEW t, Shaped(t), NEW pc, NEW want, GoTo(c, t, pc, want)
  PROVE  tx'[c].pc = pc /\ tx'[c].want = want /\ tx'[c].held = t.held /\ tx'[c].mine = t.mine
<1>1. PICK y : y = Tx(pc, want, t.held, t.mine, t.run, t.goal, t.queue, t.ready)
  OBVIOUS
<1>2. Goes(c, y)
  BY <1>1, GoesOn
<1>3. tx'[c] = y
  BY <1>2 DEF Goes, LocksInv, RowsTyped
<1> QED BY <1>1, <1>3, Fields

LEMMA ExceptShaped ==
  ASSUME NEW x, Shaped(x), NEW a
  PROVE  /\ Shaped([x EXCEPT !.queue = a]) /\ [x EXCEPT !.queue = a].held = x.held /\ [x EXCEPT !.queue = a].mine = x.mine
         /\ Shaped([x EXCEPT !.ready = a]) /\ [x EXCEPT !.ready = a].held = x.held
         /\ Shaped([x EXCEPT !.held = a]) /\ [x EXCEPT !.held = a].held = a
         /\ Shaped([x EXCEPT !.run = a]) /\ [x EXCEPT !.run = a].held = x.held
         /\ Shaped(Write(x, a)) /\ Write(x, a).held = x.held /\ Write(x, a).pc = x.pc /\ Write(x, a).want = x.want
<1>1. PICK q : q = [x EXCEPT !.queue = a]
  OBVIOUS
<1>2. PICK r : r = [x EXCEPT !.ready = a]
  OBVIOUS
<1>3. PICK h : h = [x EXCEPT !.held = a]
  OBVIOUS
<1>4. PICK s : s = [x EXCEPT !.run = a]
  OBVIOUS
<1>5. PICK w : w = Write(x, a)
  OBVIOUS
<1>6. /\ q = Tx(x.pc, x.want, x.held, x.mine, x.run, x.goal, a, x.ready)
      /\ r = Tx(x.pc, x.want, x.held, x.mine, x.run, x.goal, x.queue, a)
      /\ h = Tx(x.pc, x.want, a, x.mine, x.run, x.goal, x.queue, x.ready)
      /\ s = Tx(x.pc, x.want, x.held, x.mine, a, x.goal, x.queue, x.ready)
      /\ w = Tx(x.pc, x.want, x.held, Over(a, x.mine), x.run, x.goal, x.queue, x.ready)
  BY <1>1, <1>2, <1>3, <1>4, <1>5, ExceptTx, WriteTx, Zenon
<1>7. /\ Shaped(q) /\ q.held = x.held /\ q.mine = x.mine
      /\ Shaped(r) /\ r.held = x.held
      /\ Shaped(h) /\ h.held = a
      /\ Shaped(s) /\ s.held = x.held
      /\ Shaped(w) /\ w.held = x.held /\ w.pc = x.pc /\ w.want = x.want
  BY <1>6, Fields
<1> QED BY <1>1, <1>2, <1>3, <1>4, <1>5, <1>7, Zenon

LEMMA QueueShaped ==
  ASSUME NEW x, Shaped(x), NEW a, NEW t, t = [x EXCEPT !.queue = a]
  PROVE  Shaped(t) /\ t.held = x.held
<1>1. t = Tx(x.pc, x.want, x.held, x.mine, x.run, x.goal, a, x.ready)
  BY ExceptTx, Zenon
<1> QED BY <1>1, Fields

LEMMA WriteShaped ==
  ASSUME NEW x, Shaped(x), NEW a, NEW t, t = Write(x, a)
  PROVE  Shaped(t) /\ t.held = x.held
<1>1. t = Tx(x.pc, x.want, x.held, Over(a, x.mine), x.run, x.goal, x.queue, x.ready)
  BY WriteTx, Zenon
<1> QED BY <1>1, Fields

(* Statements after which nothing is asked of the locks that c has.        *)
LEMMA Later ==
  ASSUME NEW c, NEW y, y.pc \in {"idle", "release", "commit", "sweep", "cancel_run"} \cup Cascading,
         \A l \in y.want : l.row[1] = WantedKind(y.pc), AppendStory(c, y)
  PROVE  WaitStory(c, y)
BY DEF WaitStory, OrderStory, ExternalStory, Cascading

LEMMA IdleWaits ==
  ASSUME NEW c PROVE WaitStory(c, Idle)
<1>1. Idle.pc = "idle" /\ Idle.want = {}
  BY DEF Idle
<1> QED BY <1>1, Later DEF AppendStory, Cascading

(* A cascade keeps the locks it has.                                       *)
LEMMA CascadeWaits ==
  ASSUME NEW c, NEW x, NEW y, WaitStory(c, x), x.pc \in Cascading, x.held \subseteq y.held,
         y.pc \in Cascading \cup {"commit"}, \A l \in y.want : l.row[1] = WantedKind(y.pc)
  PROVE  WaitStory(c, y)
<1>1. AppendStory(c, y)
  BY DEF WaitStory, AppendStory, HasStep
<1> QED BY <1>1, Later

(* The statements of resolve_terminal_step_queue.                          *)
LEMMA ResolveWaits ==
  ASSUME LocksInv, WaitInv, NEW c \in Clients, Resolve(c), ~RolledBack(c)
  PROVE  WaitStory(c, tx'[c])
<1>1. PICK x : x = tx[c]
  OBVIOUS
<1>2. Shaped(x) /\ WaitStory(c, x)
  BY <1>1 DEF LocksInv, Story, TxTyped, WaitInv
<1>3. PICK y : y = tx'[c]
  OBVIOUS
<1>4. ASSUME x.pc \in Cascading, NEW t, Shaped(t), x.held \subseteq t.held, NEW pc \in Cascading \cup {"commit"},
             NEW want, \A l \in want : l.row[1] = WantedKind(pc), GoTo(c, t, pc, want)
      PROVE  WaitStory(c, y)
  <2>1. y.pc = pc /\ y.want = want /\ y.held = t.held
    BY <1>3, <1>4, Became
  <2> QED BY <1>2, <1>4, <2>1, CascadeWaits
<1>5. {"cascade", "dependents", "allows", "recompute"} = Cascading
  BY DEF Cascading
<1>6. ASSUME NextPrerequisite(c) PROVE WaitStory(c, y)
  <2>1. x.pc = "cascade"
    BY <1>1, <1>6 DEF NextPrerequisite, At
  <2>2. PICK p : p = Head(tx[c].queue)
    OBVIOUS
  <2>3. CASE GoTo(c, [x EXCEPT !.queue = Tail(x.queue)], "cascade", {})
    <3>1. PICK t : t = [x EXCEPT !.queue = Tail(x.queue)]
      OBVIOUS
    <3>2. Shaped(t) /\ t.held = x.held
      BY <1>2, <3>1, QueueShaped
    <3>3. GoTo(c, t, "cascade", {})
      BY <2>3, <3>1, Zenon
    <3> QED BY <1>4, <1>5, <2>1, <3>2, <3>3
  <2>4. CASE GoTo(c, [x EXCEPT !.ready = DependentsOf(c, p)], "dependents", DependentRows(c, p))
    <3>1. PICK t : t = [x EXCEPT !.ready = DependentsOf(c, p)]
      OBVIOUS
    <3>2. Shaped(t) /\ t.held = x.held
      BY <1>2, <3>1, ExceptShaped
    <3>3. \A l \in DependentRows(c, p) : l.row[1] = WantedKind("dependents")
      BY LockKinds, WantedKinds DEF DependentRows
    <3> QED BY <1>4, <1>5, <2>1, <2>4, <3>1, <3>2, <3>3
  <2> QED BY <1>1, <1>6, <2>2, <2>3, <2>4, Zenon DEF NextPrerequisite
<1>7. ASSUME UpdateDependents(c) PROVE WaitStory(c, y)
  <2>1. x.pc = "dependents"
    BY <1>1, <1>7 DEF UpdateDependents, At
  <2>2. PICK rows : GoTo(c, [Write(x, rows) EXCEPT !.queue = Tail(Write(x, rows).queue)], "cascade", {})
    BY <1>1, <1>7, Zenon DEF UpdateDependents
  <2>3. PICK w : w = Write(x, rows)
    OBVIOUS
  <2>4. PICK t : t = [w EXCEPT !.queue = Tail(w.queue)]
    OBVIOUS
  <2>5. Shaped(w) /\ w.held = x.held
    BY <1>2, <2>3, WriteShaped
  <2>6. Shaped(t) /\ t.held = x.held
    BY <2>4, <2>5, QueueShaped
  <2>7. GoTo(c, t, "cascade", {})
    BY <2>2, <2>3, <2>4, Zenon
  <2> QED BY <1>4, <1>5, <2>1, <2>6, <2>7
<1>8. ASSUME NextDependent(c) PROVE WaitStory(c, y)
  <2>1. x.pc = "cascade"
    BY <1>1, <1>8 DEF NextDependent, At
  <2>2. PICK d, rest : rest = [x EXCEPT !.ready = x.ready \ {d}] /\
          \/ GoTo(c, rest, "cascade", {})
          \/ GoTo(c, [Write(rest, Written(c, d, "CANCELED")) EXCEPT !.queue = Append(Write(rest, Written(c, d, "CANCELED")).queue, d)], "cascade", {})
          \/ GoTo(c, [x EXCEPT !.held = x.held \cup {Shared("release")}], "allows", {Shared("run")})
    BY <1>1, <1>8, Zenon DEF NextDependent
  <2>3. Shaped(rest) /\ rest.held = x.held
    BY <1>2, <2>2, ExceptShaped
  <2>4. CASE GoTo(c, rest, "cascade", {})
    BY <1>4, <1>5, <2>1, <2>3, <2>4
  <2>5. CASE GoTo(c, [Write(rest, Written(c, d, "CANCELED")) EXCEPT !.queue = Append(Write(rest, Written(c, d, "CANCELED")).queue, d)], "cascade", {})
    <3>1. PICK w : w = Write(rest, Written(c, d, "CANCELED"))
      OBVIOUS
    <3>2. PICK t : t = [w EXCEPT !.queue = Append(w.queue, d)]
      OBVIOUS
    <3>3. Shaped(w) /\ w.held = x.held
      BY <2>3, <3>1, WriteShaped
    <3>4. Shaped(t) /\ t.held = x.held
      BY <3>2, <3>3, QueueShaped
    <3>5. GoTo(c, t, "cascade", {})
      BY <2>5, <3>1, <3>2, Zenon
    <3> QED BY <1>4, <1>5, <2>1, <3>4, <3>5
  <2>6. CASE GoTo(c, [x EXCEPT !.held = x.held \cup {Shared("release")}], "allows", {Shared("run")})
    <3>1. PICK t : t = [x EXCEPT !.held = x.held \cup {Shared("release")}]
      OBVIOUS
    <3>2. Shaped(t) /\ x.held \subseteq t.held
      <4>1. t = Tx(x.pc, x.want, x.held \cup {Shared("release")}, x.mine, x.run, x.goal, x.queue, x.ready)
        BY <1>2, <3>1, ExceptTx, ZenonT(40)
      <4> QED BY <4>1, Fields
    <3>3. \A l \in {Shared("run")} : l.row[1] = WantedKind("allows")
      BY LockKinds, WantedKinds
    <3> QED BY <1>4, <1>5, <2>1, <2>6, <3>1, <3>2, <3>3
  <2> QED BY <2>2, <2>4, <2>5, <2>6
<1>9. ASSUME Release(c) PROVE WaitStory(c, y)
  <2>1. x.pc = "allows" /\ x.want = {}
    BY <1>1, <1>9 DEF Release, At
  <2>2. PICK ready, rest : rest = [x EXCEPT !.ready = ready, !.pc = "cascade"] /\
          \/ \E rows : tx' = [tx EXCEPT ![c] = Write(rest, rows)]
          \/ GoTo(c, rest, "cascade", {})
    BY <1>1, <1>9, Zenon DEF Release
  <2>3. Shaped(rest) /\ rest.held = x.held /\ rest.pc = "cascade" /\ rest.want = {}
    <3>1. rest = Tx("cascade", x.want, x.held, x.mine, x.run, x.goal, x.queue, ready)
      BY <1>2, <2>2, ExceptReadyPc, Zenon
    <3> QED BY <2>1, <3>1, Fields
  <2>4. CASE GoTo(c, rest, "cascade", {})
    BY <1>4, <1>5, <2>1, <2>3, <2>4
  <2>5. CASE \E rows : tx' = [tx EXCEPT ![c] = Write(rest, rows)]
    <3>1. PICK rows : tx' = [tx EXCEPT ![c] = Write(rest, rows)]
      BY <2>5
    <3>2. y = Write(rest, rows)
      BY <1>3, <3>1 DEF LocksInv, RowsTyped
    <3>3. y.held = x.held /\ y.pc = "cascade" /\ y.want = {}
      <4>1. Write(rest, rows).held = rest.held /\ Write(rest, rows).pc = rest.pc /\ Write(rest, rows).want = rest.want
        BY <2>3, ExceptShaped, Zenon
      <4> QED BY <2>3, <3>2, <4>1
    <3> QED BY <1>2, <1>5, <2>1, <3>3, CascadeWaits
  <2> QED BY <2>2, <2>4, <2>5
<1>10. ASSUME CascadeEnds(c) PROVE WaitStory(c, y)
  <2>1. x.pc = "cascade" /\ GoTo(c, x, "recompute", RecomputeRow)
    BY <1>1, <1>10 DEF CascadeEnds, At
  <2>2. \A l \in RecomputeRow : l.row[1] = WantedKind("recompute")
    BY LockKinds, WantedKinds DEF RecomputeRow
  <2> QED BY <1>2, <1>4, <1>5, <2>1, <2>2
<1>11. ASSUME Recompute(c) PROVE WaitStory(c, y)
  <2>1. x.pc = "recompute"
    BY <1>1, <1>11 DEF Recompute, At
  <2>2. PICK status : GoTo(c, [x EXCEPT !.run = status], "commit", {})
    BY <1>1, <1>11, Zenon DEF Recompute
  <2>3. PICK t : t = [x EXCEPT !.run = status]
    OBVIOUS
  <2>4. Shaped(t) /\ t.held = x.held
    BY <1>2, <2>3, ExceptShaped
  <2>5. GoTo(c, t, "commit", {})
    BY <2>2, <2>3, Zenon
  <2> QED BY <1>4, <1>5, <2>1, <2>4, <2>5
<1> QED BY <1>3, <1>6, <1>7, <1>8, <1>9, <1>10, <1>11 DEF Resolve

LEMMA BeginWaits ==
  ASSUME LocksInv, NEW c \in Clients, NEW goal, NEW pc \in {"job", "steps", "cancel_jobs"}, NEW want,
         Begin(c, goal, pc, want),
         \A l \in want : l.row[1] = WantedKind(pc),
         pc = "job" => \A l, k \in want : l = k,
         c[1] = "external" => \/ \A s \in Steps : Exclusive("step", s) \in want
                              \/ \A s \in Steps : Exclusive("step", s) \in want <=> s \notin Appended
  PROVE  WaitStory(c, tx'[c])
<1>1. PICK t : t = [Idle EXCEPT !.goal = goal]
  OBVIOUS
<1>2. t = Tx("idle", {}, {}, NoRows, "same", goal, <<>>, {})
  BY <1>1 DEF Idle, Tx
<1>3. t.held = {} /\ Shaped(t)
  BY <1>2, Fields
<1>4. GoTo(c, t, pc, want)
  BY <1>1, Zenon DEF Begin
<1>5. PICK y : y = tx'[c]
  OBVIOUS
<1>6. y.pc = pc /\ y.want = want /\ y.held = {}
  BY <1>3, <1>4, <1>5, Became
<1>7. OrderStory(c, y)
  BY <1>6 DEF OrderStory, HoldsOnly
<1>8. ExternalStory(c, y)
  BY <1>6 DEF ExternalStory, Asked
<1>9. AppendStory(c, y)
  BY <1>6 DEF AppendStory, Cascading
<1> QED BY <1>5, <1>7, <1>8, <1>9 DEF WaitStory

(* A lock that is granted is the lowest of those that c waits for.         *)
LEMMA LockWaits ==
  ASSUME LocksInv, WaitInv, NEW c \in Clients, Lock(c)
  PROVE  WaitStory(c, tx'[c])
<1>1. PICK x : x = tx[c]
  OBVIOUS
<1>2. PICK n : n = NextLock(c)
  OBVIOUS
<1>3. Story(c, x, step) /\ x.want \subseteq Locks /\ x.held \subseteq Locks /\ x.want # {} /\ jobs \in [Steps -> Nat]
      /\ c \in DOMAIN tx /\ Shaped(x) /\ WaitStory(c, x)
  BY <1>1 DEF LocksInv, Story, TxTyped, RowsTyped, Lock, WaitInv
<1>4. n \in x.want /\ \A o \in x.want : Place(n) <= Place(o)
  BY <1>1, <1>2, <1>3, NextLockIn
<1>5. PICK y : y = tx'[c]
  OBVIOUS
<1>6. y.pc = x.pc /\ y.want = x.want \ {n} /\ y.held = x.held \cup {n} /\ y.mine = x.mine
  <2>1. y = [x EXCEPT !.held = x.held \cup {n}, !.want = x.want \ {n}]
    <3>1. tx' = [tx EXCEPT ![c].held = @ \cup {n}, ![c].want = @ \ {n}]
      BY <1>2, Zenon DEF Lock
    <3>2. tx'[c] = [tx[c] EXCEPT !.held = @ \cup {n}, !.want = @ \ {n}]
      BY <1>3, <3>1
    <3> QED BY <1>1, <1>5, <3>2, Zenon
  <2>2. DOMAIN x = {"pc", "want", "held", "mine", "run", "goal", "queue", "ready"}
    BY <1>3 DEF Shaped, Tx
  <2> QED BY <2>1, <2>2
<1>7. ASSUME NEW w \in y.want, n.row[1] = "step", w.row[1] = "step" PROVE n.row[2] < w.row[2]
  <2>1. n \in Locks /\ w \in Locks /\ n # w /\ Place(n) <= Place(w)
    BY <1>3, <1>4, <1>6
  <2>2. PICK a \in Steps, b \in Steps : n = Exclusive("step", a) /\ w = Exclusive("step", b)
    BY <1>7, <2>1 DEF Locks, Exclusive
  <2>3. n.row = <<"step", a>> /\ w.row = <<"step", b>>
    BY <2>2, LockKinds
  <2>4. Place(n) = a /\ Place(w) = b
    BY <2>3 DEF Place
  <2>5. a \in Nat /\ b \in Nat /\ a # b
    BY <2>1, <2>2, LocksAssumption
  <2> QED BY <2>1, <2>3, <2>4, <2>5
<1>8. n.row[1] = WantedKind(x.pc)
  BY <1>3, <1>4 DEF WaitStory, OrderStory
<1>9. \A k \in {"job", "step", "external_step", "external", "append"} : x.pc = k => y.want = {}
  BY <1>3, <1>4, <1>6 DEF WaitStory, OrderStory
<1>10. OrderStory(c, y)
  <2>1. \A l \in y.want : l.row[1] = WantedKind(y.pc)
    BY <1>3, <1>6 DEF WaitStory, OrderStory
  <2>2. y.pc \in {"job", "step", "external_step", "external", "append"} => y.want = {}
    BY <1>6, <1>9
  <2>3. y.pc = "job" => HoldsOnly(y, {"job"})
    BY <1>3, <1>6, <1>8, WantedKinds DEF WaitStory, OrderStory, HoldsOnly
  <2>4. y.pc \in {"steps", "external_step"} => HoldsOnly(y, {"step"})
    BY <1>3, <1>6, <1>8, WantedKinds DEF WaitStory, OrderStory, HoldsOnly
  <2>5. y.pc \in {"cancel_jobs", "cancel_release", "cancel_jobs_again"} => HoldsOnly(y, {"job", "release"})
    BY <1>3, <1>6, <1>8, WantedKinds DEF WaitStory, OrderStory, HoldsOnly
  <2>6. y.pc = "cancel_steps" => HoldsOnly(y, {"job", "release", "step"})
    BY <1>3, <1>6, <1>8, WantedKinds DEF WaitStory, OrderStory, HoldsOnly
  <2>7. ASSUME y.pc \in {"steps", "cancel_steps"}, NEW h \in y.held, NEW w \in y.want, h.row[1] = "step"
        PROVE  h.row[2] < w.row[2]
    <3>1. CASE h \in x.held
      BY <1>3, <1>6, <2>7, <3>1 DEF WaitStory, OrderStory
    <3>2. CASE h = n
      <4>1. w.row[1] = "step"
        BY <2>1, <2>7, WantedKinds
      <4> QED BY <1>7, <2>7, <3>2, <4>1
    <3> QED BY <1>6, <2>7, <3>1, <3>2
  <2> QED BY <2>1, <2>2, <2>3, <2>4, <2>5, <2>6, <2>7 DEF OrderStory
<1>11. ExternalStory(c, y)
  <2>1. Asked(y) = Asked(x)
    BY <1>4, <1>6 DEF Asked
  <2> QED BY <1>3, <1>6, <1>9, <2>1 DEF WaitStory, ExternalStory
<1>12. AppendStory(c, y)
  BY <1>3, <1>6 DEF WaitStory, AppendStory, HasStep, Mine
<1> QED BY <1>5, <1>10, <1>11, <1>12 DEF WaitStory

(* The statements of a worker.                                             *)
LEMMA JobWaits ==
  ASSUME LocksInv, WaitInv, NEW c \in Clients, c[1] = "job", JobClient(c, c[2]), ~RolledBack(c)
  PROVE  WaitStory(c, tx'[c])
<1>1. PICK x : x = tx[c]
  OBVIOUS
<1>2. Shaped(x) /\ WaitStory(c, x)
  BY <1>1 DEF LocksInv, Story, TxTyped, WaitInv
<1>3. PICK y : y = tx'[c]
  OBVIOUS
<1>4. ASSUME NEW t, Shaped(t), NEW pc \in {"release", "commit", "cascade"}, NEW want,
             \A l \in want : l.row[1] = WantedKind(pc), GoTo(c, t, pc, want)
      PROVE  WaitStory(c, y)
  <2>1. y.pc = pc /\ y.want = want
    BY <1>3, <1>4, Became
  <2>2. AppendStory(c, y)
    BY DEF AppendStory
  <2>3. y.pc \in {"idle", "release", "commit", "sweep", "cancel_run"} \cup Cascading
    BY <2>1 DEF Cascading
  <2> QED BY <1>4, <2>1, <2>2, <2>3, Later
<1>5. CASE BeginJob(c, c[2])
  <2>1. PICK goal : Begin(c, goal, "job", {Exclusive("job", c[2])})
    BY <1>5 DEF BeginJob
  <2>2. \A l \in {Exclusive("job", c[2])} : l.row[1] = WantedKind("job")
    BY LockKinds, WantedKinds
  <2> QED BY <1>3, <2>1, <2>2, BeginWaits
<1>6. CASE JobLocked(c, c[2])
  <2>1. x.pc = "job" /\ HoldsOnly(x, {"job"})
    BY <1>1, <1>2, <1>6 DEF JobLocked, At, WaitStory, OrderStory
  <2>2. CASE GoTo(c, x, "commit", {})
    BY <1>2, <1>3, <1>4, <2>2
  <2>3. CASE GoTo(c, x, "step", {Exclusive("step", c[2])})
    <3>1. y.pc = "step" /\ y.want = {Exclusive("step", c[2])} /\ y.held = x.held
      BY <1>2, <1>3, <2>3, Became
    <3>2. \A l \in y.want : l.row[1] = WantedKind(y.pc)
      BY <3>1, LockKinds, WantedKinds
    <3>3. OrderStory(c, y)
      BY <2>1, <3>1, <3>2 DEF OrderStory, HoldsOnly
    <3> QED BY <1>3, <3>1, <3>3 DEF WaitStory, ExternalStory, AppendStory, Cascading
  <2> QED BY <1>1, <1>6, <2>2, <2>3, Zenon DEF JobLocked
<1>7. CASE StepLocked(c, c[2])
  <2>1. PICK status : \/ GoTo(c, Write(x, Written(c, c[2], status)), "commit", {})
                      \/ GoTo(c, Write(x, Written(c, c[2], status)), "release", {Shared("release")})
                      \/ GoTo(c, x, "commit", {})
    BY <1>1, <1>7, Zenon DEF StepLocked
  <2>2. PICK w : w = Write(x, Written(c, c[2], status))
    OBVIOUS
  <2>3. Shaped(w)
    BY <1>2, <2>2, WriteShaped
  <2>4. CASE GoTo(c, w, "commit", {})
    BY <1>3, <1>4, <2>3, <2>4
  <2>5. CASE GoTo(c, w, "release", {Shared("release")})
    <3>1. \A l \in {Shared("release")} : l.row[1] = WantedKind("release")
      BY LockKinds, WantedKinds
    <3> QED BY <1>3, <1>4, <2>3, <2>5, <3>1
  <2>6. CASE GoTo(c, x, "commit", {})
    BY <1>2, <1>3, <1>4, <2>6
  <2> QED BY <2>1, <2>2, <2>4, <2>5, <2>6, Zenon
<1>8. CASE ReleaseLocked(c, c[2])
  <2>1. PICK t : t = [x EXCEPT !.queue = <<c[2]>>]
    OBVIOUS
  <2>2. Shaped(t)
    BY <1>2, <2>1, QueueShaped
  <2>3. GoTo(c, t, "cascade", {})
    BY <1>1, <1>8, <2>1, Zenon DEF ReleaseLocked
  <2> QED BY <1>3, <1>4, <2>2, <2>3
<1> QED BY <1>3, <1>5, <1>6, <1>7, <1>8 DEF JobClient, ReleaseTimeout

(* The statements of complete_external_workflow_step.                      *)
LEMMA ExternalWaits ==
  ASSUME LocksInv, WaitInv, NEW c \in Clients, c[1] = "external", ExternalClient(c, c[2]), ~RolledBack(c)
  PROVE  WaitStory(c, tx'[c])
<1>1. PICK x : x = tx[c]
  OBVIOUS
<1>2. Shaped(x) /\ WaitStory(c, x) /\ Story(c, x, step) /\ c[2] \in Steps
  BY <1>1, ClientKinds DEF LocksInv, Story, TxTyped, WaitInv
<1>3. PICK y : y = tx'[c]
  OBVIOUS
<1>4. ASSUME NEW t, Shaped(t), NEW pc \in {"commit", "cascade"}, GoTo(c, t, pc, {})
      PROVE  WaitStory(c, y)
  <2>1. y.pc = pc /\ y.want = {}
    BY <1>3, <1>4, Became
  <2>2. AppendStory(c, y)
    BY DEF AppendStory
  <2>3. y.pc \in {"idle", "release", "commit", "sweep", "cancel_run"} \cup Cascading
    BY <2>1 DEF Cascading
  <2> QED BY <2>1, <2>2, <2>3, Later
<1>5. CASE BeginExternal(c, c[2])
  <2>1. PICK goal : Begin(c, goal, "steps", StepRows(c))
    BY <1>5 DEF BeginExternal
  <2>2. \A l \in StepRows(c) : l.row[1] = WantedKind("steps")
    BY LockKinds, WantedKinds DEF StepRows
  <2>3. x = Idle
    BY <1>1, <2>1 DEF Begin
  <2>4. Mine(x) = {}
    BY <2>3 DEF Mine, Idle, NoRows
  <2>5. \A s \in Steps : Exclusive("step", s) \in StepRows(c) <=> step[s].status # "ABSENT"
    BY <1>1, <2>4, StepRowsAre, SeeRow DEF Knows
  <2>6. \/ \A s \in Steps : Exclusive("step", s) \in StepRows(c)
        \/ \A s \in Steps : Exclusive("step", s) \in StepRows(c) <=> s \notin Appended
    BY <2>5 DEF WaitInv, Whole
  <2>7. PICK want : want = StepRows(c)
    OBVIOUS
  <2> QED BY <2>1, <2>2, <2>6, <2>7, BeginWaits
<1>6. CASE ExternalStepsLocked(c, c[2])
  <2>1. x.pc = "steps" /\ x.want = {} /\ HoldsOnly(x, {"step"})
    BY <1>1, <1>2, <1>6 DEF ExternalStepsLocked, At, WaitStory, OrderStory
  <2>2. CASE GoTo(c, x, "commit", {})
    BY <1>2, <1>3, <1>4, <2>2
  <2>3. CASE GoTo(c, x, "external_step", {Exclusive("step", c[2])})
    <3>1. y.pc = "external_step" /\ y.want = {Exclusive("step", c[2])} /\ y.held = x.held
      BY <1>2, <1>3, <2>3, Became
    <3>2. \A l \in y.want : l.row[1] = WantedKind(y.pc)
      BY <3>1, LockKinds, WantedKinds
    <3>3. OrderStory(c, y)
      BY <2>1, <3>1, <3>2 DEF OrderStory, HoldsOnly
    <3>4. \/ \A s \in Steps : HasStep(x, s)
          \/ \A s \in Steps : HasStep(x, s) <=> s \notin Appended
      BY <1>2, <2>1, AskedIsHeld DEF WaitStory, ExternalStory, HasStep
    <3>5. \A s : HasStep(y, s) <=> HasStep(x, s)
      BY <3>1 DEF HasStep
    <3>6. HasStep(y, c[2]) \/ (c[2] \in Appended /\ \A s \in Appended : ~HasStep(y, s))
      BY <1>2, <3>4, <3>5, LocksAssumption
    <3>7. ExternalStory(c, y)
      BY <3>1, <3>6 DEF ExternalStory
    <3> QED BY <1>3, <3>1, <3>3, <3>7 DEF WaitStory, AppendStory
  <2> QED BY <1>1, <1>6, <2>2, <2>3, Zenon DEF ExternalStepsLocked
<1>7. CASE ExternalStepLocked(c, c[2])
  <2>1. x.pc = "external_step" /\ HoldsOnly(x, {"step"}) /\ GoTo(c, x, "external", {Exclusive("run", 0)})
    BY <1>1, <1>2, <1>7 DEF ExternalStepLocked, At, WaitStory, OrderStory
  <2>2. y.pc = "external" /\ y.want = {Exclusive("run", 0)} /\ y.held = x.held
    BY <1>2, <1>3, <2>1, Became
  <2>3. \A l \in y.want : l.row[1] = WantedKind(y.pc)
    BY <2>2, LockKinds, WantedKinds
  <2>4. OrderStory(c, y)
    BY <2>1, <2>2, <2>3 DEF OrderStory, HoldsOnly
  <2> QED BY <1>3, <2>2, <2>4 DEF WaitStory, ExternalStory, AppendStory
<1>8. CASE ExternalLocked(c, c[2])
  <2>1. PICK rows, q, h : \/ GoTo(c, x, "commit", {})
                          \/ GoTo(c, [Write(x, rows) EXCEPT !.queue = q, !.held = h], "cascade", {})
    BY <1>1, <1>8, Zenon DEF ExternalLocked
  <2>2. PICK w : w = Write(x, rows)
    OBVIOUS
  <2>3. Shaped(w)
    BY <1>2, <2>2, WriteShaped
  <2>4. PICK t : t = [w EXCEPT !.queue = q, !.held = h]
    OBVIOUS
  <2>5. Shaped(t)
    <3>1. t = Tx(w.pc, w.want, h, w.mine, w.run, w.goal, q, w.ready)
      BY <2>3, <2>4, ExceptQueueHeld, Zenon
    <3> QED BY <3>1, Fields
  <2>6. GoTo(c, x, "commit", {}) \/ GoTo(c, t, "cascade", {})
    BY <2>1, <2>2, <2>4, Zenon
  <2> QED BY <1>2, <1>3, <1>4, <2>5, <2>6
<1> QED BY <1>5, <1>6, <1>7, <1>8 DEF ExternalClient

(* The statements of append_workflow_steps.                                *)
LEMMA AppendWaits ==
  ASSUME LocksInv, WaitInv, NEW c \in Clients, c[1] = "append", AppendClient(c), ~RolledBack(c)
  PROVE  WaitStory(c, tx'[c])
<1>1. PICK x : x = tx[c]
  OBVIOUS
<1>2. Shaped(x) /\ WaitStory(c, x) /\ Story(c, x, step)
  BY <1>1 DEF LocksInv, Story, TxTyped, WaitInv
<1>3. PICK y : y = tx'[c]
  OBVIOUS
<1>4. CASE BeginAppend(c)
  <2>1. Begin(c, "APPEND", "steps", StepRows(c))
    BY <1>4 DEF BeginAppend
  <2>2. \A l \in StepRows(c) : l.row[1] = WantedKind("steps")
    BY LockKinds, WantedKinds DEF StepRows
  <2> QED BY <2>1, <2>2, BeginWaits
<1>5. CASE AppendStepsLocked(c)
  <2>1. x.pc = "steps" /\ HoldsOnly(x, {"step"}) /\ GoTo(c, x, "append", {Exclusive("run", 0)})
    BY <1>1, <1>2, <1>5 DEF AppendStepsLocked, At, WaitStory, OrderStory
  <2>2. y.pc = "append" /\ y.want = {Exclusive("run", 0)} /\ y.held = x.held
    BY <1>2, <1>3, <2>1, Became
  <2>3. \A l \in y.want : l.row[1] = WantedKind(y.pc)
    BY <2>2, LockKinds, WantedKinds
  <2>4. OrderStory(c, y)
    BY <2>1, <2>2, <2>3 DEF OrderStory, HoldsOnly
  <2> QED BY <1>3, <2>2, <2>4 DEF WaitStory, ExternalStory, AppendStory, Cascading
<1>6. CASE AppendRunLocked(c)
  <2>1. x.pc = "append" /\ Mine(x) = {}
    BY <1>1, <1>2, <1>6 DEF AppendRunLocked, At, Story, ControlStory, Reading
  <2>2. PICK rows, ready, held :
          /\ \A d \in Appended : Exclusive("step", d) \in held
          /\ \/ GoTo(c, x, "commit", {})
             \/ GoTo(c, [Write(x, rows) EXCEPT !.held = held, !.ready = ready], "cascade", {})
    <3>1. PICK rows, ready, held :
            /\ held = Write(x, rows).held \cup {Shared("release")} \cup {Exclusive("step", d) : d \in Appended}
            /\ \/ GoTo(c, x, "commit", {})
               \/ GoTo(c, [Write(x, rows) EXCEPT !.held = held, !.ready = ready], "cascade", {})
      BY <1>1, <1>6, Zenon DEF AppendRunLocked
    <3>2. \A d \in Appended : Exclusive("step", d) \in held
      BY <3>1
    <3> QED BY <3>1, <3>2, Zenon
  <2>3. CASE GoTo(c, x, "commit", {})
    <3>1. y.pc = "commit" /\ y.want = {} /\ y.mine = x.mine
      BY <1>2, <1>3, <2>3, Became
    <3>2. AppendStory(c, y)
      BY <2>1, <3>1 DEF AppendStory, Cascading, Mine
    <3> QED BY <1>3, <3>1, <3>2, Later
  <2>4. CASE GoTo(c, [Write(x, rows) EXCEPT !.held = held, !.ready = ready], "cascade", {})
    <3>1. PICK w : w = Write(x, rows)
      OBVIOUS
    <3>2. Shaped(w)
      BY <1>2, <3>1, WriteShaped
    <3>3. PICK t : t = [w EXCEPT !.held = held, !.ready = ready]
      OBVIOUS
    <3>4. Shaped(t) /\ t.held = held
      <4>1. t = Tx(w.pc, w.want, held, w.mine, w.run, w.goal, w.queue, ready)
        BY <3>2, <3>3, ExceptHeldReady, Zenon
      <4> QED BY <4>1, Fields
    <3>5. GoTo(c, t, "cascade", {})
      BY <2>4, <3>1, <3>3, Zenon
    <3>6. y.pc = "cascade" /\ y.want = {} /\ y.held = held
      BY <1>3, <3>4, <3>5, Became
    <3>7. AppendStory(c, y)
      BY <2>2, <3>6 DEF AppendStory, HasStep
    <3> QED BY <1>3, <3>6, <3>7, Later DEF Cascading
  <2> QED BY <2>2, <2>3, <2>4
<1> QED BY <1>4, <1>5, <1>6 DEF AppendClient

(* The phases of a cancellation.                                           *)
LEMMA CancelWaits ==
  ASSUME LocksInv, WaitInv, NEW c \in Clients, c[1] = "cancel", CancelClient(c)
  PROVE  WaitStory(c, tx'[c])
<1>1. PICK x : x = tx[c]
  OBVIOUS
<1>2. Shaped(x) /\ WaitStory(c, x)
  BY <1>1 DEF LocksInv, Story, TxTyped, WaitInv
<1>3. PICK y : y = tx'[c]
  OBVIOUS
<1>4. /\ \A l \in JobRows(c) : l.row[1] = "job"
      /\ \A l \in StepRows(c) : l.row[1] = "step"
      /\ \A l \in {Exclusive("release", 0)} : l.row[1] = "release"
      /\ \A l \in {Exclusive("run", 0)} : l.row[1] = "run"
  BY LockKinds DEF JobRows, StepRows
<1>5. CASE BeginCancel(c)
  <2>1. Begin(c, "CANCEL", "cancel_jobs", JobRows(c))
    BY <1>5 DEF BeginCancel, CancelOrder, CancelRows
  <2> QED BY <1>4, <2>1, WantedKinds, BeginWaits
<1>6. CASE CancelLocked(c)
  <2>1. CASE x.pc = "cancel_jobs"
    <3>1. GoTo(c, x, "cancel_release", {Exclusive("release", 0)})
      BY <1>1, <1>6, <2>1 DEF CancelLocked, CancelOrder, CancelRows
    <3>2. y.pc = "cancel_release" /\ y.want = {Exclusive("release", 0)} /\ y.held = x.held
      BY <1>2, <1>3, <3>1, Became
    <3>3. \A l \in y.want : l.row[1] = WantedKind(y.pc)
      BY <1>4, <3>2, WantedKinds
    <3> QED BY <1>2, <1>3, <2>1, <3>2, <3>3 DEF WaitStory, OrderStory, ExternalStory, AppendStory, HoldsOnly
  <2>2. CASE x.pc = "cancel_release"
    <3>1. GoTo(c, x, "cancel_jobs_again", JobRows(c))
      BY <1>1, <1>6, <2>2 DEF CancelLocked, CancelOrder, CancelRows
    <3>2. y.pc = "cancel_jobs_again" /\ y.want = JobRows(c) /\ y.held = x.held
      BY <1>2, <1>3, <3>1, Became
    <3>3. \A l \in y.want : l.row[1] = WantedKind(y.pc)
      BY <1>4, <3>2, WantedKinds
    <3> QED BY <1>2, <1>3, <2>2, <3>2, <3>3 DEF WaitStory, OrderStory, ExternalStory, AppendStory, HoldsOnly
  <2>3. CASE x.pc = "cancel_jobs_again"
    <3>1. GoTo(c, x, "cancel_steps", StepRows(c))
      BY <1>1, <1>6, <2>3 DEF CancelLocked, CancelOrder, CancelRows
    <3>2. y.pc = "cancel_steps" /\ y.want = StepRows(c) /\ y.held = x.held
      BY <1>2, <1>3, <3>1, Became
    <3>3. \A l \in y.want : l.row[1] = WantedKind(y.pc)
      BY <1>4, <3>2, WantedKinds
    <3>4. HoldsOnly(y, {"job", "release"})
      BY <1>2, <2>3, <3>2 DEF WaitStory, OrderStory, HoldsOnly
    <3>5. HoldsOnly(y, {"job", "release", "step"}) /\ \A h \in y.held : h.row[1] # "step"
      BY <3>4 DEF HoldsOnly
    <3> QED BY <1>3, <3>2, <3>3, <3>5 DEF WaitStory, OrderStory, ExternalStory, AppendStory
  <2>4. CASE x.pc = "cancel_steps"
    <3>1. GoTo(c, x, "cancel_run", {Exclusive("run", 0)})
      BY <1>1, <1>6, <2>4 DEF CancelLocked, CancelOrder, CancelRows
    <3>2. y.pc = "cancel_run" /\ y.want = {Exclusive("run", 0)}
      BY <1>2, <1>3, <3>1, Became
    <3>3. \A l \in y.want : l.row[1] = WantedKind(y.pc)
      BY <1>4, <3>2, WantedKinds
    <3> QED BY <1>3, <3>2, <3>3, Later DEF AppendStory
  <2>5. CASE x.pc = "cancel_run"
    <3>1. GoTo(c, x, "sweep", {})
      BY <1>1, <1>6, <2>5 DEF CancelLocked, CancelOrder, CancelRows
    <3>2. y.pc = "sweep" /\ y.want = {}
      BY <1>2, <1>3, <3>1, Became
    <3> QED BY <1>3, <3>2, Later DEF AppendStory
  <2> QED BY <1>1, <1>6, <2>1, <2>2, <2>3, <2>4, <2>5 DEF CancelLocked
<1>7. CASE Sweep(c)
  <2>1. PICK rows : \/ GoTo(c, x, "commit", {})
                    \/ GoTo(c, [Write(x, rows) EXCEPT !.run = "CANCELED"], "commit", {})
    BY <1>1, <1>7, Zenon DEF Sweep
  <2>2. PICK w : w = Write(x, rows)
    OBVIOUS
  <2>3. Shaped(w)
    BY <1>2, <2>2, WriteShaped
  <2>4. PICK t : t = [w EXCEPT !.run = "CANCELED"]
    OBVIOUS
  <2>5. Shaped(t)
    BY <2>3, <2>4, ExceptShaped
  <2>6. GoTo(c, x, "commit", {}) \/ GoTo(c, t, "commit", {})
    BY <2>1, <2>2, <2>4, Zenon
  <2>7. y.pc = "commit" /\ y.want = {}
    BY <1>2, <1>3, <2>5, <2>6, Became
  <2> QED BY <1>3, <2>7, Later DEF AppendStory
<1> QED BY <1>5, <1>6, <1>7 DEF CancelClient

(* An append commits all of its steps, and nobody else inserts one.        *)
LEMMA CommitWhole ==
  ASSUME LocksInv, WaitInv, NEW c \in Clients, Commit(c)
  PROVE  Whole(step')
<1>1. PICK x : x = tx[c]
  OBVIOUS
<1>2. x.pc = "commit" /\ Story(c, x, step) /\ TxTyped(x) /\ Owns(c, x, step) /\ WaitStory(c, x)
  BY <1>1 DEF Commit, At, LocksInv, Story, WriteStory, WaitInv
<1>3. step' = See(x, step)
  BY <1>1, ViewIs DEF Commit
<1>4. Knows(x, step) = {s \in Steps : step[s].status # "ABSENT"} \cup Mine(x)
  BY <1>2, KnowsRow
<1>5. \A s \in Steps : step'[s].status # "ABSENT" <=> step[s].status # "ABSENT" \/ s \in Mine(x)
  BY <1>3, <1>4 DEF Knows
<1>6. CASE c[1] = "append" /\ Mine(x) # {}
  <2>1. \A s \in Appended : HasStep(x, s)
    BY <1>2, <1>6 DEF WaitStory, AppendStory
  <2>2. \A s \in Appended : step'[s].status # "ABSENT"
    BY <1>2, <1>3, <2>1, LocksAssumption DEF Story, LockStory, Asked, HasStep, Knows
  <2>3. \A s \in Steps : step'[s].status # "ABSENT"
    BY <1>5, <2>2 DEF WaitInv, Whole
  <2> QED BY <2>3 DEF Whole
<1>7. CASE c[1] # "append" \/ Mine(x) = {}
  <2>1. \A s \in Steps : step'[s].status = "ABSENT" <=> step[s].status = "ABSENT"
    BY <1>2, <1>5, <1>7 DEF Owns
  <2> QED BY <2>1 DEF WaitInv, Whole
<1> QED BY <1>6, <1>7

LEMMA InitWaits == Init => WaitInv
<1> SUFFICES ASSUME Init PROVE WaitInv
  OBVIOUS
<1>1. ASSUME NEW s \in Steps PROVE step[s].status = "ABSENT" <=> s \in Appended
  <2>1. \A status, n, u, job : Row(status, n, u, job).status = status
    BY DEF Row
  <2>2. CASE s \in Appended
    <3>1. PICK n, job : step[s] = Row("ABSENT", n, 0, job)
      BY <2>2 DEF Init
    <3> QED BY <2>1, <2>2, <3>1
  <2>3. CASE s \notin Appended
    <3>1. \/ step[s] = Row("BLOCKED", Cardinality(Prereqs(s)), 0, FALSE)
          \/ step[s] = Row("WAITING_FOR_EXTERNAL", 0, 0, FALSE)
          \/ step[s] = Row("ENQUEUED", 0, 0, TRUE)
      BY <2>3 DEF Init
    <3>2. step[s].status \in {"BLOCKED", "WAITING_FOR_EXTERNAL", "ENQUEUED"}
      <4>1. CASE step[s] = Row("BLOCKED", Cardinality(Prereqs(s)), 0, FALSE)
        BY <4>1 DEF Row
      <4>2. CASE step[s] = Row("WAITING_FOR_EXTERNAL", 0, 0, FALSE)
        BY <4>2 DEF Row
      <4>3. CASE step[s] = Row("ENQUEUED", 0, 0, TRUE)
        BY <4>3 DEF Row
      <4> QED BY <3>1, <4>1, <4>2, <4>3
    <3> QED BY <2>3, <3>2
  <2> QED BY <2>2, <2>3
<1>2. \A c \in Clients : tx[c] = Idle
  BY DEF Init
<1> QED BY <1>1, <1>2, IdleWaits DEF WaitInv, Whole

LEMMA StepWaits ==
  ASSUME LocksInv, WaitInv, NEW c \in Clients, Step(c)
  PROVE  WaitInv'
<1>1. CASE RolledBack(c)
  <2>1. tx'[c] = Idle /\ (\A o \in Clients \ {c} : tx'[o] = tx[o]) /\ step' = step
    BY <1>1 DEF RolledBack, LocksInv, RowsTyped
  <2>2. ASSUME NEW o \in Clients PROVE WaitStory(o, tx'[o])
    BY <2>1, IdleWaits DEF WaitInv
  <2> QED BY <2>1, <2>2 DEF WaitInv
<1>2. CASE Commit(c)
  <2>1. tx'[c] = Idle /\ \A o \in Clients \ {c} : tx'[o] = tx[o]
    BY <1>2 DEF Commit, LocksInv, RowsTyped
  <2>2. ASSUME NEW o \in Clients PROVE WaitStory(o, tx'[o])
    BY <2>1, IdleWaits DEF WaitInv
  <2>3. Whole(step')
    BY <1>2, CommitWhole
  <2> QED BY <2>2, <2>3 DEF WaitInv
<1>3. CASE ~RolledBack(c) /\ ~Commit(c)
  <2>1. PICK y : Keeps(c, y)
    BY <1>3, StepKeeps
  <2>2. step' = step /\ \A o \in Clients \ {c} : tx'[o] = tx[o]
    BY <2>1 DEF Keeps, LocksInv, RowsTyped
  <2>3. WaitStory(c, tx'[c])
    <3>1. CASE Lock(c)
      BY <3>1, LockWaits
    <3>2. CASE Resolve(c)
      BY <1>3, <3>2, ResolveWaits
    <3>3. CASE c[1] = "job" /\ JobClient(c, c[2])
      BY <1>3, <3>3, JobWaits
    <3>4. CASE c[1] = "external" /\ ExternalClient(c, c[2])
      BY <1>3, <3>4, ExternalWaits
    <3>5. CASE c[1] = "append" /\ AppendClient(c)
      BY <1>3, <3>5, AppendWaits
    <3>6. CASE c[1] = "cancel" /\ CancelClient(c)
      BY <1>3, <3>6, CancelWaits
    <3> QED BY <1>3, <3>1, <3>2, <3>3, <3>4, <3>5, <3>6 DEF Step, Victim
  <2>4. ASSUME NEW o \in Clients PROVE WaitStory(o, tx'[o])
    BY <2>2, <2>3 DEF WaitInv
  <2> QED BY <2>2, <2>4 DEF WaitInv
<1> QED BY <1>1, <1>2, <1>3

LEMMA NextWaits == LocksInv /\ WaitInv /\ [Next]_vars => WaitInv'
<1> SUFFICES ASSUME LocksInv, WaitInv, [Next]_vars PROVE WaitInv'
  OBVIOUS
<1>1. CASE UNCHANGED vars
  BY <1>1 DEF vars, WaitInv
<1> QED BY <1>1, StepWaits DEF Next

LEMMA StepLock ==
  ASSUME NEW l \in Locks, l.row[1] = "step"
  PROVE  \E s \in Steps : l = Exclusive("step", s) /\ l.row = <<"step", s>> /\ s \in Nat
<1>1. PICK s \in Steps : l = Exclusive("step", s)
  BY DEF Locks, Exclusive
<1> QED BY <1>1, LockKinds, LocksAssumption

(* Whom a transaction waits for, other than for the release lock.          *)
LEMMA WaitsAre ==
  ASSUME LocksInv, WaitInv, NEW o \in Clients, NEW h \in UnboundedWaits[o]
  PROVE  /\ tx[o].want # {} /\ tx[o].pc # "release" /\ NextLock(o) \in tx[o].want
         /\ NextLock(o).row[1] = WantedKind(tx[o].pc)
         /\ h \in Clients \ {o} /\ \E l \in tx[h].held : l.row = NextLock(o).row
<1>1. tx[o].pc # "release" /\ h \in WaitsFor(o)
  BY DEF UnboundedWaits
<1>2. tx[o].want # {} /\ h \in Holders(o, NextLock(o))
  BY <1>1 DEF WaitsFor
<1>3. h \in Clients \ {o} /\ \E l \in tx[h].held : l.row = NextLock(o).row
  BY <1>2 DEF Holders
<1>4. NextLock(o) \in tx[o].want
  BY <1>2, NextLockIn DEF LocksInv, RowsTyped, Story, TxTyped
<1>5. NextLock(o).row[1] = WantedKind(tx[o].pc)
  BY <1>4 DEF WaitInv, WaitStory, OrderStory
<1> QED BY <1>1, <1>2, <1>3, <1>4, <1>5

LEMMA OtherPcs ==
  ASSUME LocksInv, NEW c \in Clients, c[1] = "cancel", NEW o \in Clients, o # c, tx[o].want # {}, tx[o].pc # "release"
  PROVE  tx[o].pc \in {"job", "step", "steps", "external_step", "external", "append", "dependents", "allows", "recompute"}
<1>1. \A a \in Clients : a \in {"job", "external"} \X Steps \/ a \in {"append", "cancel"} \X {0}
  BY LocksAssumption, Zenon
<1>2. \A a \in {"job", "external"} \X Steps : a[1] # "cancel"
  OBVIOUS
<1>3. \A a \in {"append", "cancel"} \X {0} : a = <<a[1], 0>>
  OBVIOUS
<1>4. o[1] # "cancel"
  BY <1>1, <1>2, <1>3, Zenon
<1>5. Story(o, tx[o], step)
  BY DEF LocksInv
<1>6. tx[o].pc \notin Canceling /\ tx[o].pc \notin {"idle", "cascade", "commit", "sweep"} /\ tx[o].pc \in Pcs
  BY <1>4, <1>5 DEF Story, ControlStory, LockStory, TxTyped
<1> QED BY <1>6 DEF Pcs, Reading, Cascading, Canceling

LEMMA NotCircular ==
  ASSUME NEW c, NEW waits, NEW S \in SUBSET Clients, c \notin S, waits[c] \subseteq S, \A o \in S : waits[o] \subseteq S
  PROVE  ~Circular(c, waits)
BY DEF Circular

(* Until a cancellation asks for step rows, it has none that the others    *)
(* wait for; a worker that waits for its job row has nothing at all.       *)
LEMMA JobsBounded ==
  ASSUME LocksInv, WaitInv, NEW c \in Clients, c[1] = "cancel", tx[c].pc \in {"cancel_jobs", "cancel_release", "cancel_jobs_again"}
  PROVE  ~Circular(c, UnboundedWaits)
<1> DEFINE S == {o \in Clients \ {c} : tx[o].pc = "job" => tx[o].want = {}}
<1>1. HoldsOnly(tx[c], {"job", "release"})
  BY DEF WaitInv, WaitStory, OrderStory
<1>2. ASSUME NEW o \in Clients \ {c}, tx[o].held # {} PROVE o \in S
  BY <1>2 DEF WaitInv, WaitStory, OrderStory
<1>3. ASSUME NEW h \in UnboundedWaits[c] PROVE h \in S
  BY <1>2, <1>3, WaitsAre
<1>4. ASSUME NEW o \in S, NEW h \in UnboundedWaits[o] PROVE h \in S
  <2>1. tx[o].want # {} /\ tx[o].pc # "release" /\ NextLock(o).row[1] = WantedKind(tx[o].pc) /\ o \in Clients \ {c}
    BY <1>4, WaitsAre
  <2>2. PICK l \in tx[h].held : h \in Clients /\ l.row = NextLock(o).row
    BY <1>4, WaitsAre
  <2>3. tx[o].pc \in {"step", "steps", "external_step", "external", "append", "dependents", "allows", "recompute"}
    BY <1>4, <2>1, OtherPcs
  <2>4. l.row[1] \in {"step", "run"}
    BY <2>1, <2>2, <2>3, WantedKinds
  <2>5. h # c
    BY <1>1, <2>2, <2>4 DEF HoldsOnly
  <2> QED BY <1>2, <2>2, <2>5
<1>5. S \in SUBSET Clients /\ c \notin S
  OBVIOUS
<1> HIDE DEF S
<1> QED BY <1>3, <1>4, <1>5, NotCircular

(* Under the exclusive release lock nobody releases a step.                *)
LEMMA NobodyReleases ==
  ASSUME LocksInv, NEW c \in Clients, tx[c].pc \in {"cancel_steps", "cancel_run"}, NEW o \in Clients, o # c
  PROVE  tx[o].pc \notin Cascading
<1>1. Stops(tx[c])
  BY DEF LocksInv, Story, WholeRun
<1>2. Exclusive("release", 0).row = Shared("release").row /\ Exclusive("release", 0).mode # "S"
  BY DEF Exclusive, Shared
<1>3. ~Releases(tx[o])
  BY <1>1, <1>2 DEF LocksInv, LocksApart, Stops, Releases
<1> QED BY <1>3 DEF LocksInv, Story, ControlStory

(* Whoever then has the run row has asked for nothing more.                *)
LEMMA RunHolders ==
  ASSUME LocksInv, WaitInv, NEW c \in Clients, c[1] = "cancel", tx[c].pc \in {"cancel_steps", "cancel_run"},
         NEW o \in Clients, o # c, NEW l \in tx[o].held, l.row[1] = "run"
  PROVE  tx[o].want = {} \/ tx[o].pc = "release"
<1> SUFFICES ASSUME tx[o].want # {}, tx[o].pc # "release" PROVE FALSE
  OBVIOUS
<1>1. tx[o].pc \in {"job", "step", "steps", "external_step", "external", "append"}
  BY OtherPcs, NobodyReleases DEF Cascading
<1>2. HoldsOnly(tx[o], {"job"}) \/ HoldsOnly(tx[o], {"step"})
  BY <1>1 DEF WaitInv, WaitStory, OrderStory
<1> QED BY <1>2 DEF HoldsOnly

LEMMA RunBounded ==
  ASSUME LocksInv, WaitInv, NEW c \in Clients, c[1] = "cancel", tx[c].pc = "cancel_run"
  PROVE  ~Circular(c, UnboundedWaits)
<1> DEFINE S == UnboundedWaits[c]
<1>1. ASSUME NEW h \in S PROVE h \in Clients /\ h # c /\ UnboundedWaits[h] = {}
  <2>1. NextLock(c).row[1] = "run"
    BY <1>1, WaitsAre, WantedKinds
  <2>2. h \in Clients \ {c} /\ \E l \in tx[h].held : l.row[1] = "run"
    BY <1>1, <2>1, WaitsAre
  <2>3. tx[h].want = {} \/ tx[h].pc = "release"
    BY <2>2, RunHolders
  <2> QED BY <2>2, <2>3 DEF UnboundedWaits, WaitsFor
<1>2. S \in SUBSET Clients /\ c \notin S /\ \A o \in S : UnboundedWaits[o] \subseteq S
  BY <1>1
<1> QED BY <1>2, NotCircular

(* Step rows are asked for in the order of their ids: whoever has the row  *)
(* that the cancellation waits for, or a later one, waits for none of the  *)
(* earlier ones, which the cancellation has.                               *)
LEMMA StepsBounded ==
  ASSUME LocksInv, WaitInv, NEW c \in Clients, c[1] = "cancel", tx[c].pc = "cancel_steps", UnboundedWaits[c] # {}
  PROVE  ~Circular(c, UnboundedWaits)
<1>1. PICK n : n = NextLock(c)
  OBVIOUS
<1>2. n \in tx[c].want /\ n.row[1] = "step" /\ n \in Locks
  <2>1. n \in tx[c].want /\ n.row[1] = "step"
    BY <1>1, WaitsAre, WantedKinds
  <2> QED BY <2>1 DEF LocksInv, Story, TxTyped
<1>3. PICK m \in Steps : n.row = <<"step", m>> /\ m \in Nat
  BY <1>2, StepLock
<1> DEFINE Late(row) == row[1] = "run" \/ (row[1] = "step" /\ row[2] \in Steps /\ m <= row[2])
           S == {o \in Clients \ {c} : UnboundedWaits[o] = {} \/ Late(NextLock(o).row)}
<1>4. ASSUME NEW h \in tx[c].held PROVE ~Late(h.row)
  <2>1. h.row[1] \in {"job", "release", "step"}
    BY DEF WaitInv, WaitStory, OrderStory, HoldsOnly
  <2>2. h.row[1] = "step" => h.row[2] < m
    BY <1>2, <1>3 DEF WaitInv, WaitStory, OrderStory
  <2>3. h.row[2] \in Steps => h.row[2] \in Nat
    BY LocksAssumption
  <2>4. h.row[1] = "step" /\ h.row[2] \in Steps => ~(m <= h.row[2])
    BY <1>3, <2>2, <2>3
  <2> QED BY <2>1, <2>4
<1>5. ASSUME NEW o \in Clients \ {c}, NEW l \in tx[o].held, Late(l.row), UnboundedWaits[o] # {}
      PROVE  Late(NextLock(o).row)
  <2>1. tx[o].want # {} /\ tx[o].pc # "release" /\ NextLock(o) \in tx[o].want /\ NextLock(o).row[1] = WantedKind(tx[o].pc)
    BY <1>5, WaitsAre
  <2>2. l.row[1] = "step" /\ l.row[2] \in Steps /\ m <= l.row[2]
    BY <1>5, <2>1, RunHolders
  <2>3. tx[o].pc \in {"job", "step", "steps", "external_step", "external", "append"}
    BY <1>5, <2>1, OtherPcs, NobodyReleases DEF Cascading
  <2>4. NextLock(o) \in Locks
    BY <2>1 DEF LocksInv, Story, TxTyped
  <2>5. WaitStory(o, tx[o])
    BY DEF WaitInv
  <2>6. CASE tx[o].pc \in {"job", "step"}
    BY <2>1, <2>2, <2>5, <2>6 DEF WaitStory, OrderStory, HoldsOnly
  <2>7. CASE tx[o].pc \in {"external", "append"}
    BY <2>1, <2>7, WantedKinds
  <2>8. CASE tx[o].pc \in {"steps", "external_step"}
    <3>1. PICK t \in Steps : NextLock(o) = Exclusive("step", t) /\ NextLock(o).row = <<"step", t>> /\ t \in Nat /\ l.row[2] \in Nat
      <4>1. NextLock(o).row[1] = "step" /\ l.row[2] \in Nat
        BY <2>1, <2>2, <2>8, WantedKinds, LocksAssumption
      <4> QED BY <2>4, <4>1, StepLock
    <3>2. CASE tx[o].pc = "steps"
      <4>1. l.row[2] < t
        BY <2>1, <2>2, <2>5, <3>1, <3>2 DEF WaitStory, OrderStory
      <4> QED BY <1>3, <2>2, <3>1, <4>1
    <3>3. CASE tx[o].pc = "external_step"
      <4>1. NextLock(o) = Exclusive("step", o[2])
        BY <2>1, <2>5, <3>3 DEF WaitStory, ExternalStory
      <4>2. t = o[2]
        BY <3>1, <4>1, ExclusiveLocks
      <4>3. ~HasStep(tx[o], o[2])
        <5>1. PICK h \in UnboundedWaits[o] : TRUE
          BY <1>5
        <5>2. PICK k \in tx[h].held : h \in Clients \ {o} /\ k.row = NextLock(o).row
          BY <5>1, WaitsAre
        <5>3. NextLock(o).mode # "S"
          BY <4>1 DEF Exclusive
        <5> QED BY <4>1, <5>2, <5>3 DEF HasStep, LocksInv, LocksApart
      <4>4. o[2] \in Appended /\ \A s \in Appended : ~HasStep(tx[o], s)
        BY <2>1, <2>5, <3>3, <4>3 DEF WaitStory, ExternalStory
      <4>5. l = Exclusive("step", l.row[2])
        <5>1. l \in Locks
          BY DEF LocksInv, Story, TxTyped
        <5> QED BY <2>2, <5>1 DEF Locks, Exclusive
      <4>6. l.row[2] \notin Appended
        BY <4>4, <4>5 DEF HasStep
      <4>7. l.row[2] < t
        BY <2>2, <4>2, <4>4, <4>6, IdsAssumption
      <4> QED BY <1>3, <2>2, <3>1, <4>7
    <3> QED BY <2>8, <3>2, <3>3
  <2> QED BY <2>3, <2>6, <2>7, <2>8
<1>6. ASSUME NEW h \in UnboundedWaits[c] PROVE h \in S
  <2>1. PICK l \in tx[h].held : h \in Clients \ {c} /\ l.row = n.row
    BY <1>1, <1>6, WaitsAre
  <2>2. Late(l.row)
    BY <1>3, <2>1
  <2> QED BY <1>5, <2>1, <2>2
<1>7. ASSUME NEW o \in S, NEW h \in UnboundedWaits[o] PROVE h \in S
  <2>1. o \in Clients \ {c} /\ Late(NextLock(o).row)
    BY <1>7
  <2>2. PICK l \in tx[h].held : h \in Clients /\ l.row = NextLock(o).row
    BY <1>7, <2>1, WaitsAre
  <2>3. Late(l.row)
    BY <2>1, <2>2
  <2>4. h # c
    BY <1>4, <2>2, <2>3
  <2> QED BY <1>5, <2>2, <2>3, <2>4
<1>8. S \in SUBSET Clients /\ c \notin S
  OBVIOUS
<1> HIDE DEF S
<1> QED BY <1>6, <1>7, <1>8, NotCircular

(* A circle of waits that a cancellation is part of has a completion in it *)
(* that waits for the release lock, and so for at most 5 s                 *)
(* (lock_workflow_run_release_shared): CancelWaitsAreBounded, for every    *)
(* workflow graph and every set of clients.                                *)
THEOREM CancelWaitsBounded == Spec => []CancelWaitsAreBounded
<1>1. LocksInv /\ WaitInv => CancelWaitsAreBounded
  <2> SUFFICES ASSUME LocksInv, WaitInv, NEW c \in Clients, c[1] = "cancel"
               PROVE  ~Circular(c, UnboundedWaits)
    BY DEF CancelWaitsAreBounded
  <2>1. CASE UnboundedWaits[c] = {}
    BY <2>1 DEF Circular
  <2>2. CASE UnboundedWaits[c] # {}
    <3>1. tx[c].want # {} /\ tx[c].pc # "release"
      BY <2>2, WaitsAre
    <3>2. Story(c, tx[c], step)
      BY DEF LocksInv
    <3>3. /\ tx[c].pc \in Pcs /\ tx[c].pc \notin {"idle", "commit", "sweep", "release"} \cup Cascading
          /\ tx[c].pc \notin {"job", "step", "steps", "external_step", "external", "append"}
      BY <3>1, <3>2 DEF Story, TxTyped, ControlStory, LockStory
    <3>4. tx[c].pc \in {"cancel_jobs", "cancel_release", "cancel_jobs_again", "cancel_steps", "cancel_run"}
      BY <3>3 DEF Pcs, Reading, Canceling
    <3> QED BY <2>2, <3>4, JobsBounded, StepsBounded, RunBounded
  <2> QED BY <2>1, <2>2
<1> QED BY <1>1, InitInv, NextInv, InitWaits, NextWaits, PTL DEF Spec

-----------------------------------------------------------------------------
(* The transactions as atomic changes of the run.                          *)

ReleasedAs(d) == IF d \in External THEN "WAITING_FOR_EXTERNAL" ELSE "ENQUEUED"

(* What a step was for a transaction that writes it; appended steps are    *)
(* inserted as BLOCKED.                                                    *)
Before(rows, d) == IF rows[d].status = "ABSENT" THEN "BLOCKED" ELSE rows[d].status

(* The transaction of c has ended its step, and is to commit the end.      *)
Ending(x) == x.pc \in Cascading \cup {"release"} \/ x.run # "same"

(* What a transaction has made of a step so far: it only counted, or it is *)
(* the step that the call is about, or the step was BLOCKED and has no     *)
(* prerequisite left.                                                      *)
Changed(c, x, rows, d) ==
  \/ x.mine[d].status = Before(rows, d)
  \/ c[1] \in {"job", "external"} /\ d = c[2]
  \/ /\ Before(rows, d) = "BLOCKED" /\ x.mine[d].pending = 0
     /\ x.mine[d].status = IF x.mine[d].unsatisfied # 0 THEN "CANCELED" ELSE ReleasedAs(d)

Swept(x, rows, d) ==
  x.run = "CANCELED" /\ x.mine[d].status = IF rows[d].status \in Terminal THEN rows[d].status ELSE "CANCELED"

(* The step that the call is about.                                        *)
OwnStory(c, x, rows) ==
  /\ x.pc \in {"job", "step"} => x.goal # "CANCELED"
  /\ x.pc = "step" /\ x.goal # "CLAIM" => rows[c[2]].status \in {"RUNNING"} \cup Terminal
  /\ c[1] = "external" /\ Mine(x) # {} => rows[c[2]].status = "WAITING_FOR_EXTERNAL"
  /\ c[1] = "job" /\ Ending(x) => rows[c[2]].status = "RUNNING"
  /\ c[1] \in {"job", "external"} /\ Ending(x) => c[2] \in Mine(x) /\ x.mine[c[2]].status \in {"SUCCEEDED", "FAILED"}

ChangeStory(c, x, rows, status) ==
  /\ \A d \in Mine(x) : IF c[1] = "cancel" THEN Swept(x, rows, d) ELSE Changed(c, x, rows, d)
  /\ OwnStory(c, x, rows)
  /\ c[1] = "append" /\ Mine(x) # {} => \A s \in Appended : s \in Mine(x) /\ rows[s].status = "ABSENT"
  /\ x.run # "same" => status # "CANCELED" /\ (x.run = "CANCELED" <=> c[1] = "cancel")
  /\ x.run = "CANCELED" => status \in OpenRun

ChangeInv == \A c \in Clients : ChangeStory(c, tx[c], step, run)

(* A transaction that has written nothing.                                 *)
LEMMA NoChange ==
  ASSUME NEW c, NEW y, NEW rows, NEW status, Mine(y) = {}, y.run = "same",
         y.pc \notin Cascading \cup {"release", "job", "step"}
  PROVE  ChangeStory(c, y, rows, status)
BY DEF ChangeStory, OwnStory, Ending

LEMMA IdleChange ==
  ASSUME NEW c, NEW rows, NEW status PROVE ChangeStory(c, Idle, rows, status)
<1>1. Mine(Idle) = {} /\ Idle.run = "same" /\ Idle.pc = "idle"
  BY DEF Idle, Mine, NoRows
<1> QED BY <1>1, NoChange DEF Cascading

(* A statement that writes no row, other than those that begin an end.     *)
LEMMA SameChange ==
  ASSUME NEW c, NEW x, NEW y, NEW rows, NEW status, ChangeStory(c, x, rows, status), y.mine = x.mine, y.run = x.run,
         Ending(y) => Ending(x), y.pc \in {"job", "step"} => y.pc = x.pc /\ y.goal = x.goal
  PROVE  ChangeStory(c, y, rows, status)
<1>1. Mine(y) = Mine(x)
  BY DEF Mine
<1>2. \A d : (Changed(c, x, rows, d) => Changed(c, y, rows, d)) /\ (Swept(x, rows, d) => Swept(y, rows, d))
  BY DEF Changed, Swept
<1>3. OwnStory(c, y, rows)
  BY <1>1 DEF OwnStory, ChangeStory
<1> QED BY <1>1, <1>2, <1>3 DEF ChangeStory

(* The commit of another transaction.                                      *)
LEMMA ChangeRely ==
  ASSUME NEW c \in Clients, NEW o \in Clients, c # o, NEW x, NEW z, NEW rows \in [Steps -> StepRow], NEW status,
         Story(c, x, rows), Story(o, z, rows), z.pc = "commit", Apart(x, z),
         ChangeStory(c, x, rows, status), ChangeStory(o, z, rows, status)
  PROVE  ChangeStory(c, x, See(z, rows), IF z.run = "same" THEN status ELSE z.run)
<1> DEFINE status2 == IF z.run = "same" THEN status ELSE z.run
<1>1. PICK new : new = See(z, rows)
  OBVIOUS
<1>2. /\ Mine(x) \subseteq Steps /\ Mine(z) \subseteq Steps
      /\ \A s \in Mine(z) : s \notin Mine(x) /\ Moves(rows[s], z.mine[s])
  BY CommitApart DEF Story, TxTyped
<1>3. \A s \in Steps : new[s] = IF s \in Mine(z) THEN z.mine[s] ELSE rows[s]
  BY <1>1, <1>2, SeeRow
<1>4. \A s \in Mine(x) : new[s] = rows[s]
  BY <1>2, <1>3
<1>5. ASSUME NEW d \in Mine(x)
      PROVE  IF c[1] = "cancel" THEN Swept(x, new, d) ELSE Changed(c, x, new, d)
  BY <1>4 DEF ChangeStory, Changed, Swept, Before
<1>6. x.run # "same" => status2 = status
  <2>1. x.run # "same" => HasRun(x)
    BY DEF Story, CommitStory
  <2>2. z.run # "same" => HasRun(z)
    BY DEF Story, CommitStory
  <2> QED BY <2>1, <2>2, ApartRows
<1>7. Mine(x) # {} /\ c[1] \in {"job", "external"} => c[2] \in Mine(x)
  BY DEF Story, OpenStory
<1>8. ASSUME x.pc = "step", x.goal # "CLAIM"
      PROVE  new[c[2]].status \in {"RUNNING"} \cup Terminal
  <2>1. c[1] = "job" /\ c[2] \in Steps /\ rows[c[2]].status \in {"RUNNING"} \cup Terminal
    BY <1>8, ClientKinds DEF Story, ControlStory, ChangeStory, OwnStory
  <2>2. CASE c[2] \notin Mine(z)
    BY <1>3, <2>1, <2>2
  <2>3. CASE c[2] \in Mine(z)
    <3>1. new[c[2]] = z.mine[c[2]] /\ Moves(rows[c[2]], z.mine[c[2]])
      BY <1>2, <1>3, <2>1, <2>3
    <3>2. CASE rows[c[2]].status \in Terminal
      BY <3>1, <3>2 DEF Moves
    <3>3. CASE rows[c[2]].status = "RUNNING"
      <4>1. CASE o[1] = "cancel"
        BY <2>3, <3>1, <3>3, <4>1 DEF ChangeStory, Swept, Terminal
      <4>2. CASE o[1] # "cancel"
        <5>1. Before(rows, c[2]) = "RUNNING"
          BY <3>3 DEF Before
        <5>2. ~(o[1] \in {"job", "external"} /\ c[2] = o[2])
          <6>1. o[1] = "job" => o[2] # c[2]
            <7>1. \A a \in Clients : a[1] = "job" => a = <<"job", a[2]>>
              <8>1. \A a \in Clients : a \in {"job", "external"} \X Steps \/ a \in {"append", "cancel"} \X {0}
                BY LocksAssumption, Zenon
              <8>2. \A a \in {"job", "external"} \X Steps : a = <<a[1], a[2]>>
                OBVIOUS
              <8>3. \A a \in {"append", "cancel"} \X {0} : a[1] # "job"
                OBVIOUS
              <8> QED BY <8>1, <8>2, <8>3, Zenon
            <7> QED BY <2>1, <7>1
          <6>2. o[1] = "external" => rows[o[2]].status = "WAITING_FOR_EXTERNAL"
            BY <2>3 DEF ChangeStory, OwnStory
          <6> QED BY <3>3, <6>1, <6>2
        <5>3. Changed(o, z, rows, c[2])
          BY <2>3, <4>2 DEF ChangeStory
        <5>4. z.mine[c[2]].status = "RUNNING"
          BY <5>1, <5>2, <5>3 DEF Changed
        <5> QED BY <3>1, <5>4
      <4> QED BY <4>1, <4>2
    <3> QED BY <2>1, <3>2, <3>3
  <2> QED BY <2>2, <2>3
<1>9. OwnStory(c, x, new)
  BY <1>4, <1>7, <1>8 DEF OwnStory, ChangeStory
<1>10. c[1] = "append" /\ Mine(x) # {} => \A s \in Appended : s \in Mine(x) /\ new[s].status = "ABSENT"
  BY <1>4 DEF ChangeStory
<1>11. ChangeStory(c, x, new, status2)
  BY <1>5, <1>6, <1>9, <1>10 DEF ChangeStory
<1> QED BY <1>1, <1>11

(* The transaction after a statement.                                      *)
LEMMA BecameThis ==
  ASSUME LocksInv, NEW c \in Clients, NEW t, Shaped(t), NEW pc, NEW want, GoTo(c, t, pc, want)
  PROVE  /\ tx'[c].pc = pc /\ tx'[c].mine = t.mine /\ tx'[c].run = t.run /\ tx'[c].goal = t.goal
         /\ Mine(tx'[c]) = Mine(t)
<1>1. PICK y : y = Tx(pc, want, t.held, t.mine, t.run, t.goal, t.queue, t.ready)
  OBVIOUS
<1>2. Goes(c, y)
  BY <1>1, GoesOn
<1>3. tx'[c] = y
  BY <1>2 DEF Goes, LocksInv, RowsTyped
<1> QED BY <1>1, <1>3, Fields DEF Mine

LEMMA ExceptSame ==
  ASSUME NEW x, Shaped(x), NEW a, NEW t,
         \/ t = [x EXCEPT !.queue = a] \/ t = [x EXCEPT !.ready = a] \/ t = [x EXCEPT !.held = a]
  PROVE  Shaped(t) /\ t.mine = x.mine /\ t.run = x.run /\ t.goal = x.goal
<1>1. \/ t = Tx(x.pc, x.want, x.held, x.mine, x.run, x.goal, a, x.ready)
      \/ t = Tx(x.pc, x.want, x.held, x.mine, x.run, x.goal, x.queue, a)
      \/ t = Tx(x.pc, x.want, a, x.mine, x.run, x.goal, x.queue, x.ready)
  BY ExceptTx, Zenon
<1> QED BY <1>1, Fields

LEMMA WriteSame ==
  ASSUME NEW x, Shaped(x), NEW a, NEW t, t = Write(x, a)
  PROVE  Shaped(t) /\ t.mine = Over(a, x.mine) /\ t.run = x.run /\ t.goal = x.goal
<1>1. t = Tx(x.pc, x.want, x.held, Over(a, x.mine), x.run, x.goal, x.queue, x.ready)
  BY WriteTx, Zenon
<1> QED BY <1>1, Fields

(* A cascade writes the rows of D.                                         *)
LEMMA CascadeChange ==
  ASSUME NEW c, NEW x, NEW y, NEW rows, NEW status, ChangeStory(c, x, rows, status), x.pc \in Cascading, c[1] # "cancel",
         Mine(x) # {}, x.run = "same", y.run = "same", y.pc \in Cascading,
         NEW D, Mine(y) = Mine(x) \cup D, \A s \in Mine(x) \ D : y.mine[s] = x.mine[s],
         \A d \in D : Changed(c, y, rows, d),
         \A d \in D : c[1] \in {"job", "external"} /\ d = c[2] => y.mine[d].status = x.mine[d].status
  PROVE  ChangeStory(c, y, rows, status)
<1>1. Ending(x)
  BY DEF Ending
<1>2. ASSUME NEW d \in Mine(y) PROVE Changed(c, y, rows, d)
  <2>1. CASE d \in D
    BY <2>1
  <2>2. CASE d \in Mine(x) \ D
    <3>1. Changed(c, x, rows, d) /\ y.mine[d] = x.mine[d]
      BY <2>2 DEF ChangeStory
    <3> QED BY <3>1 DEF Changed
  <2> QED BY <1>2, <2>1, <2>2
<1>3. OwnStory(c, y, rows)
  <2>1. y.pc \notin {"job", "step"}
    BY DEF Cascading
  <2>2. c[1] \in {"job", "external"} => c[2] \in Mine(y) /\ y.mine[c[2]].status = x.mine[c[2]].status
    BY <1>1 DEF ChangeStory, OwnStory
  <2> QED BY <1>1, <2>1, <2>2 DEF ChangeStory, OwnStory
<1> QED BY <1>2, <1>3 DEF ChangeStory

(* A step of the list that is still BLOCKED is released or canceled.       *)
LEMMA EndedIsChanged ==
  ASSUME NEW c, NEW x, NEW y, NEW rows, NEW status, ChangeStory(c, x, rows, status), x.pc \in Cascading, c[1] # "cancel",
         x.run = "same", y.run = "same", y.pc \in Cascading, NEW d \in Mine(x), x.mine[d].status = "BLOCKED",
         Mine(y) = Mine(x), \A s \in Mine(x) \ {d} : y.mine[s] = x.mine[s], y.mine[d].pending = 0,
         y.mine[d].status = IF y.mine[d].unsatisfied # 0 THEN "CANCELED" ELSE ReleasedAs(d)
  PROVE  ChangeStory(c, y, rows, status)
<1>1. ~(c[1] \in {"job", "external"} /\ d = c[2])
  BY DEF ChangeStory, OwnStory, Ending
<1>2. Changed(c, x, rows, d)
  BY DEF ChangeStory
<1>3. Before(rows, d) = "BLOCKED"
  <2>1. ReleasedAs(d) # "BLOCKED"
    BY DEF ReleasedAs
  <2> QED BY <1>1, <1>2, <2>1 DEF Changed
<1>4. Changed(c, y, rows, d)
  BY <1>3 DEF Changed
<1>5. PICK D : D = {d}
  OBVIOUS
<1>6. /\ Mine(y) = Mine(x) \cup D /\ (\A s \in Mine(x) \ D : y.mine[s] = x.mine[s]) /\ (\A s \in D : Changed(c, y, rows, s))
      /\ \A s \in D : c[1] \in {"job", "external"} /\ s = c[2] => y.mine[s].status = x.mine[s].status
  BY <1>1, <1>4, <1>5
<1> QED BY <1>6, CascadeChange, ZenonT(90)

LEMMA UpdateDependentsChange ==
  ASSUME LocksInv, ChangeInv, NEW c \in Clients, UpdateDependents(c)
  PROVE  ChangeStory(c, tx'[c], step, run)
<1>1. PICK x : x = tx[c]
  OBVIOUS
<1>2. x.pc = "dependents" /\ x.want = {} /\ x.pc \in Cascading /\ ChangeStory(c, x, step, run)
  BY <1>1 DEF UpdateDependents, At, Cascading, ChangeInv
<1>3. PICK p : p = Head(x.queue)
  OBVIOUS
<1>4. /\ Story(c, x, step) /\ TxTyped(x) /\ WriteStory(c, x, step) /\ Shaped(x) /\ Owns(c, x, step)
      /\ Mine(x) \subseteq Steps
      /\ x.queue \in Seq(Steps) /\ Distinct(x.queue) /\ x.ready \subseteq Steps /\ Unapplied(c, x) = Elements(x.queue)
      /\ step \in [Steps -> StepRow] /\ c[1] # "cancel" /\ x.run = "same"
  BY <1>1, <1>2, CascadeFacts
<1>5. x.queue # <<>> /\ x.ready = Dependents(p) \cap Knows(x, step)
  BY <1>2, <1>3, <1>4 DEF Story, ListStory
<1>6. p \in Steps /\ p \in Elements(x.queue) /\ p \in Mine(x)
  <2>1. p \in Steps /\ p \in Elements(x.queue)
    BY <1>3, <1>4, <1>5, QueueTail
  <2> QED BY <1>4, <2>1 DEF WriteStory, Follows, Ended
<1>7. PICK new : /\ GoTo(c, [Write(x, new) EXCEPT !.queue = Tail(Write(x, new).queue)], "cascade", {})
                 /\ new = [d \in x.ready |->
                    [See(x, step)[d] EXCEPT !.pending = @ - 1,
                                       !.unsatisfied = @ + IF <<p, d>> \in OnSuccess /\ See(x, step)[p].status # "SUCCEEDED" THEN 1 ELSE 0]]
  <2>1. View(c) = See(x, step)
    BY <1>1, ViewIs
  <2> QED BY <1>1, <1>3, <2>1, Zenon DEF UpdateDependents
<1>8. PICK w : w = Write(x, new)
  OBVIOUS
<1>9. PICK t : t = [w EXCEPT !.queue = Tail(w.queue)]
  OBVIOUS
<1>10. PICK y : y = tx'[c]
  OBVIOUS
<1>11. PICK m : m = Over(new, x.mine)
  OBVIOUS
<1>12. y.pc = "cascade" /\ y.mine = m /\ y.run = x.run
  <2>1. Shaped(w) /\ w.mine = m /\ w.run = x.run
    BY <1>4, <1>8, <1>11, WriteSame, Zenon
  <2>2. Shaped(t) /\ t.mine = w.mine /\ t.run = w.run
    BY <1>9, <2>1, ExceptSame
  <2>3. GoTo(c, t, "cascade", {})
    BY <1>7, <1>8, <1>9, Zenon
  <2> QED BY <1>10, <2>1, <2>2, <2>3, BecameThis
<1>13. /\ Mine(y) = Mine(x) \cup x.ready
       /\ \A d \in x.ready : y.mine[d] = new[d]
       /\ \A d \in Mine(x) \ x.ready : y.mine[d] = x.mine[d]
  <2>1. DOMAIN new = x.ready
    BY <1>7
  <2>2. PICK old : old = x.mine
    OBVIOUS
  <2>3. m = Over(new, old)
    BY <1>11, <2>2, Zenon
  <2>4. /\ DOMAIN m = DOMAIN new \cup DOMAIN old
        /\ \A s \in DOMAIN new : m[s] = new[s]
        /\ \A s \in DOMAIN old \ DOMAIN new : m[s] = old[s]
    BY <2>3 DEF Over
  <2> QED BY <1>12, <2>1, <2>2, <2>4 DEF Mine
<1>14. ASSUME NEW d \in x.ready
       PROVE  y.mine[d].status = See(x, step)[d].status
  <2>1. PICK row \in StepRow : row = See(x, step)[d]
    <3>1. See(x, step) \in [Steps -> StepRow]
      BY <1>4, SeeTyped
    <3> QED BY <1>4, <3>1
  <2>2. PICK n : n = IF <<p, d>> \in OnSuccess /\ See(x, step)[p].status # "SUCCEEDED" THEN 1 ELSE 0
    OBVIOUS
  <2>3. y.mine[d] = [row EXCEPT !.pending = @ - 1, !.unsatisfied = @ + n]
    <3>1. new[d] = [See(x, step)[d] EXCEPT !.pending = @ - 1,
                      !.unsatisfied = @ + IF <<p, d>> \in OnSuccess /\ See(x, step)[p].status # "SUCCEEDED" THEN 1 ELSE 0]
      BY <1>7, Zenon
    <3> QED BY <1>13, <2>1, <2>2, <3>1, Zenon
  <2>4. y.mine[d].status = row.status
    BY <2>3 DEF StepRow
  <2> QED BY <2>1, <2>4
<1>15. ASSUME NEW d \in x.ready PROVE Changed(c, y, step, d)
  <2>1. d \in Steps /\ d \in Knows(x, step) /\ p \in Prereqs(d)
    BY <1>4, <1>5, <1>6, PrereqsAre
  <2>2. CASE d \notin Mine(x)
    <3>1. See(x, step)[d] = step[d] /\ step[d].status # "ABSENT"
      BY <2>1, <2>2, SeeRow DEF Knows
    <3> QED BY <1>14, <3>1 DEF Changed, Before
  <2>3. CASE d \in Mine(x)
    <3>1. Changed(c, x, step, d) /\ y.mine[d].status = x.mine[d].status
      BY <1>2, <1>4, <1>14, <2>1, <2>3, SeeRow DEF ChangeStory
    <3>2. x.mine[d].pending # 0
      <4>1. PICK S : S = Pending(See(x, step), Unapplied(c, x), d)
        OBVIOUS
      <4>2. x.mine[d].pending = Cardinality(S) /\ p \in S /\ S \in SUBSET Steps
        BY <1>4, <1>6, <2>1, <2>3, <4>1 DEF WriteStory, Counts, Pending, Prereqs
      <4>3. IsFiniteSet(S)
        BY <4>2, StepsFinite
      <4> QED BY <4>2, <4>3, FS_EmptySet
    <3> QED BY <3>1, <3>2 DEF Changed
  <2> QED BY <2>2, <2>3
<1>16. ASSUME NEW d \in x.ready, c[1] \in {"job", "external"}, d = c[2] PROVE y.mine[d].status = x.mine[d].status
  <2>1. d \in Mine(x)
    BY <1>2, <1>16 DEF ChangeStory, OwnStory, Ending
  <2> QED BY <1>4, <1>14, <2>1, SeeRow
<1>17. y.pc \in Cascading /\ Mine(x) # {}
  BY <1>6, <1>12 DEF Cascading
<1>18. PICK D : D = x.ready
  OBVIOUS
<1>19. /\ Mine(y) = Mine(x) \cup D /\ (\A s \in Mine(x) \ D : y.mine[s] = x.mine[s]) /\ (\A s \in D : Changed(c, y, step, s))
       /\ \A s \in D : c[1] \in {"job", "external"} /\ s = c[2] => y.mine[s].status = x.mine[s].status
  BY <1>13, <1>15, <1>16, <1>18
<1>20. y.run = "same"
  BY <1>4, <1>12
<1>21. ChangeStory(c, y, step, run)
  BY <1>2, <1>4, <1>17, <1>19, <1>20, CascadeChange, ZenonT(40)
<1> QED BY <1>10, <1>21

LEMMA NextDependentChange ==
  ASSUME LocksInv, ChangeInv, NEW c \in Clients, NextDependent(c), ~RolledBack(c)
  PROVE  ChangeStory(c, tx'[c], step, run)
<1>1. PICK x : x = tx[c]
  OBVIOUS
<1>2. x.pc = "cascade" /\ x.ready # {} /\ x.pc \in Cascading /\ ChangeStory(c, x, step, run) /\ Ending(x)
  BY <1>1 DEF NextDependent, At, Cascading, ChangeInv, Ending
<1>3. PICK d : d = Least(x.ready)
  OBVIOUS
<1>4. Shaped(x) /\ c[1] # "cancel" /\ x.run = "same"
  BY <1>1, <1>2, CascadeFacts
<1>5. d \in Mine(x) /\ View(c)[d] = x.mine[d] /\ x.mine[d] \in StepRow
  BY <1>1, <1>2, <1>3, NextReady
<1>6. PICK y : y = tx'[c]
  OBVIOUS
<1>7. PICK rest : rest = [x EXCEPT !.ready = x.ready \ {d}]
  OBVIOUS
<1>8. Shaped(rest) /\ rest.mine = x.mine /\ rest.run = x.run /\ rest.goal = x.goal
  BY <1>4, <1>7, ExceptSame
<1>9. ASSUME NEW t, Shaped(t), t.mine = x.mine, t.run = x.run, NEW pc \in Cascading, NEW want, GoTo(c, t, pc, want)
      PROVE  ChangeStory(c, y, step, run)
  <2>1. y.pc = pc /\ y.mine = x.mine /\ y.run = x.run
    BY <1>6, <1>9, BecameThis
  <2>2. y.pc \notin {"job", "step"}
    BY <1>9, <2>1 DEF Cascading
  <2> QED BY <1>2, <2>1, <2>2, SameChange
<1>10. "cascade" \in Cascading /\ "allows" \in Cascading
  BY DEF Cascading
<1>11. CASE GoTo(c, rest, "cascade", {})
  BY <1>6, <1>8, <1>9, <1>10, <1>11
<1>12. CASE GoTo(c, [x EXCEPT !.held = x.held \cup {Shared("release")}], "allows", {Shared("run")})
  <2>1. PICK t : t = [x EXCEPT !.held = x.held \cup {Shared("release")}]
    OBVIOUS
  <2>2. Shaped(t) /\ t.mine = x.mine /\ t.run = x.run
    BY <1>4, <2>1, ExceptSame
  <2> QED BY <1>6, <1>9, <1>10, <1>12, <2>1, <2>2
<1>13. CASE /\ x.mine[d].pending = 0 /\ x.mine[d].status = "BLOCKED" /\ x.mine[d].unsatisfied # 0
            /\ GoTo(c, [Write(rest, Written(c, d, "CANCELED")) EXCEPT !.queue = Append(Write(rest, Written(c, d, "CANCELED")).queue, d)], "cascade", {})
  <2>1. PICK row \in StepRow : row = x.mine[d]
    BY <1>5
  <2>2. PICK new : new = Written(c, d, "CANCELED")
    OBVIOUS
  <2>3. new = [r \in {d} |-> [row EXCEPT !.status = "CANCELED"]]
    <3>1. Written(c, d, "CANCELED") = [r \in {d} |-> [View(c)[d] EXCEPT !.status = "CANCELED"]]
      BY DEF Written
    <3> QED BY <1>5, <2>1, <2>2, <3>1, Zenon
  <2>4. PICK w : w = Write(rest, new)
    OBVIOUS
  <2>5. PICK t : t = [w EXCEPT !.queue = Append(w.queue, d)]
    OBVIOUS
  <2>6. PICK m : m = Over(new, x.mine)
    OBVIOUS
  <2>7. y.pc = "cascade" /\ y.mine = m /\ y.run = x.run
    <3>1. Shaped(w) /\ w.mine = Over(new, rest.mine) /\ w.run = rest.run
      BY <1>8, <2>4, WriteSame, Zenon
    <3>2. w.mine = m /\ w.run = x.run
      BY <1>8, <2>6, <3>1
    <3>3. PICK q : q = Append(w.queue, d)
      OBVIOUS
    <3>4. t = [w EXCEPT !.queue = q]
      BY <2>5, <3>3, Zenon
    <3>5. Shaped(t) /\ t.mine = w.mine /\ t.run = w.run
      BY <3>1, <3>4, ExceptSame
    <3>6. GoTo(c, t, "cascade", {})
      BY <1>13, <2>2, <2>4, <2>5, Zenon
    <3> QED BY <1>6, <3>2, <3>5, <3>6, BecameThis
  <2>8. Mine(y) = Mine(x) /\ y.mine[d] = [row EXCEPT !.status = "CANCELED"] /\ \A s \in Mine(x) \ {d} : y.mine[s] = x.mine[s]
    <3>1. DOMAIN new = {d} /\ new[d] = [row EXCEPT !.status = "CANCELED"]
      BY <2>3
    <3>2. PICK old : old = x.mine
      OBVIOUS
    <3>3. Mine(x) = DOMAIN old /\ d \in DOMAIN old
      BY <1>5, <3>2 DEF Mine
    <3>4. m = Over(new, old)
      BY <2>6, <3>2, Zenon
    <3>5. DOMAIN m = DOMAIN old /\ m[d] = new[d] /\ \A s \in DOMAIN old \ {d} : m[s] = old[s]
      BY <3>1, <3>3, <3>4 DEF Over
    <3> QED BY <2>7, <3>1, <3>2, <3>3, <3>5 DEF Mine
  <2>9. /\ y.mine[d].pending = 0
        /\ y.mine[d].status = IF y.mine[d].unsatisfied # 0 THEN "CANCELED" ELSE ReleasedAs(d)
    <3>1. y.mine[d].status = "CANCELED" /\ y.mine[d].pending = row.pending /\ y.mine[d].unsatisfied = row.unsatisfied
      BY <2>8 DEF StepRow
    <3> QED BY <1>13, <2>1, <3>1
  <2>10. y.run = "same" /\ y.pc \in Cascading
    BY <1>4, <1>10, <2>7
  <2>11. ChangeStory(c, y, step, run)
    BY <1>2, <1>4, <1>5, <1>13, <2>8, <2>9, <2>10, EndedIsChanged, ZenonT(40)
  <2> QED BY <1>6, <2>11
<1>14. \/ GoTo(c, rest, "cascade", {})
       \/ GoTo(c, [x EXCEPT !.held = x.held \cup {Shared("release")}], "allows", {Shared("run")})
       \/ /\ x.mine[d].pending = 0 /\ x.mine[d].status = "BLOCKED" /\ x.mine[d].unsatisfied # 0
          /\ GoTo(c, [Write(rest, Written(c, d, "CANCELED")) EXCEPT !.queue = Append(Write(rest, Written(c, d, "CANCELED")).queue, d)], "cascade", {})
  BY <1>1, <1>3, <1>5, <1>7, Zenon DEF NextDependent
<1> QED BY <1>6, <1>11, <1>12, <1>13, <1>14

LEMMA ReleaseChange ==
  ASSUME LocksInv, ChangeInv, NEW c \in Clients, Release(c)
  PROVE  ChangeStory(c, tx'[c], step, run)
<1>1. PICK x : x = tx[c]
  OBVIOUS
<1>2. x.pc = "allows" /\ x.pc \in Cascading /\ ChangeStory(c, x, step, run) /\ Ending(x)
  BY <1>1 DEF Release, At, Cascading, ChangeInv, Ending
<1>3. PICK d : d = Least(x.ready)
  OBVIOUS
<1>4. Shaped(x) /\ c[1] # "cancel" /\ x.run = "same" /\ Story(c, x, step) /\ c \in DOMAIN tx
  BY <1>1, <1>2, CascadeFacts DEF LocksInv, RowsTyped
<1>5. x.ready # {} /\ Releasable(x.mine[d])
  BY <1>2, <1>3, <1>4 DEF Story, ListStory
<1>6. d \in Mine(x)
  BY <1>1, <1>2, <1>3, <1>5, NextReady
<1>7. PICK y : y = tx'[c]
  OBVIOUS
<1>8. PICK rest : rest = [x EXCEPT !.ready = x.ready \ {d}, !.pc = "cascade"]
  OBVIOUS
<1>9. Shaped(rest) /\ rest.pc = "cascade" /\ rest.mine = x.mine /\ rest.run = x.run
  <2>1. rest = Tx("cascade", x.want, x.held, x.mine, x.run, x.goal, x.queue, x.ready \ {d})
    BY <1>4, <1>8, ExceptReadyPc, Zenon
  <2> QED BY <2>1, Fields
<1>10. CASE GoTo(c, rest, "cascade", {})
  <2>1. y.pc = "cascade" /\ y.mine = x.mine /\ y.run = x.run
    BY <1>7, <1>9, <1>10, BecameThis
  <2> QED BY <1>2, <1>7, <2>1, SameChange
<1>11. PICK new : new = [s \in {d} |-> Row(ReleasedAs(d), 0, 0, d \notin External)]
  OBVIOUS
<1>12. CASE tx' = [tx EXCEPT ![c] = Write(rest, new)]
  <2>1. y = Write(rest, new)
    BY <1>4, <1>7, <1>12
  <2>2. PICK m : m = Over(new, x.mine)
    OBVIOUS
  <2>3. y.pc = "cascade" /\ y.mine = m /\ y.run = x.run
    <3>1. y = Tx(rest.pc, rest.want, rest.held, Over(new, rest.mine), rest.run, rest.goal, rest.queue, rest.ready)
      BY <1>9, <2>1, WriteTx, Zenon
    <3>2. y.pc = rest.pc /\ y.mine = Over(new, rest.mine) /\ y.run = rest.run
      BY <3>1, Fields
    <3> QED BY <1>9, <2>2, <3>2
  <2>4. Mine(y) = Mine(x) /\ y.mine[d] = Row(ReleasedAs(d), 0, 0, d \notin External) /\ \A s \in Mine(x) \ {d} : y.mine[s] = x.mine[s]
    <3>1. DOMAIN new = {d} /\ new[d] = Row(ReleasedAs(d), 0, 0, d \notin External)
      BY <1>11
    <3>2. PICK old : old = x.mine
      OBVIOUS
    <3>3. Mine(x) = DOMAIN old /\ d \in DOMAIN old
      BY <1>6, <3>2 DEF Mine
    <3>4. m = Over(new, old)
      BY <2>2, <3>2, Zenon
    <3>5. DOMAIN m = DOMAIN old /\ m[d] = new[d] /\ \A s \in DOMAIN old \ {d} : m[s] = old[s]
      BY <3>1, <3>3, <3>4 DEF Over
    <3> QED BY <2>3, <3>1, <3>2, <3>3, <3>5 DEF Mine
  <2>5. y.mine[d].pending = 0 /\ y.mine[d].unsatisfied = 0 /\ y.mine[d].status = ReleasedAs(d)
    BY <2>4 DEF Row
  <2>6. y.run = "same" /\ y.pc \in Cascading /\ x.mine[d].status = "BLOCKED"
    BY <1>4, <1>5, <2>3 DEF Cascading, Releasable
  <2>7. y.mine[d].status = IF y.mine[d].unsatisfied # 0 THEN "CANCELED" ELSE ReleasedAs(d)
    BY <2>5
  <2>8. ChangeStory(c, y, step, run)
    BY <1>2, <1>4, <1>6, <2>4, <2>5, <2>6, <2>7, EndedIsChanged, ZenonT(40)
  <2> QED BY <1>7, <2>8
<1>13. GoTo(c, rest, "cascade", {}) \/ tx' = [tx EXCEPT ![c] = Write(rest, new)]
  BY <1>1, <1>3, <1>8, <1>11, Zenon DEF Release, ReleasedAs
<1> QED BY <1>10, <1>12, <1>13

(* The status that the transaction gives the run.                          *)
LEMMA RecomputeChange ==
  ASSUME LocksInv, ChangeInv, NEW c \in Clients, Recompute(c)
  PROVE  ChangeStory(c, tx'[c], step, run)
<1>1. PICK x : x = tx[c]
  OBVIOUS
<1>2. x.pc = "recompute" /\ x.pc \in Cascading /\ ChangeStory(c, x, step, run) /\ Ending(x)
  BY <1>1 DEF Recompute, At, Cascading, ChangeInv, Ending
<1>3. Shaped(x) /\ c[1] # "cancel" /\ x.run = "same"
  BY <1>1, <1>2, CascadeFacts
<1>4. PICK y : y = tx'[c]
  OBVIOUS
<1>5. PICK status : status = IF run = "CANCELED" THEN "same" ELSE StatusOf(View(c))
  OBVIOUS
<1>6. y.pc = "commit" /\ y.mine = x.mine /\ y.run = status
  <2>1. PICK t : t = [x EXCEPT !.run = status]
    OBVIOUS
  <2>2. GoTo(c, t, "commit", {})
    BY <1>1, <1>3, <1>5, <2>1, Zenon DEF Recompute, RunView
  <2>3. t = Tx(x.pc, x.want, x.held, x.mine, status, x.goal, x.queue, x.ready)
    BY <1>3, <2>1, ExceptTx, Zenon
  <2>4. Shaped(t) /\ t.mine = x.mine /\ t.run = status
    BY <2>3, Fields
  <2> QED BY <1>4, <2>2, <2>4, BecameThis
<1>7. CASE run = "CANCELED"
  <2>1. y.run = x.run /\ ~Ending(y)
    BY <1>3, <1>5, <1>6, <1>7 DEF Ending, Cascading
  <2>2. ChangeStory(c, y, step, run)
    BY <1>2, <1>6, <2>1, SameChange
  <2> QED BY <1>4, <2>2
<1>8. CASE run # "CANCELED"
  <2>1. y.run # "CANCELED"
    BY <1>5, <1>6, <1>8 DEF StatusOf
  <2>2. Mine(y) = Mine(x)
    BY <1>6 DEF Mine
  <2>3. ASSUME NEW d \in Mine(y) PROVE Changed(c, y, step, d)
    BY <1>2, <1>3, <1>6, <2>2, <2>3 DEF ChangeStory, Changed
  <2>4. OwnStory(c, y, step)
    BY <1>2, <1>6, <2>2 DEF ChangeStory, OwnStory
  <2>5. ChangeStory(c, y, step, run)
    BY <1>2, <1>3, <1>8, <2>1, <2>2, <2>3, <2>4 DEF ChangeStory
  <2> QED BY <1>4, <2>5
<1> QED BY <1>7, <1>8

(* The statements of resolve_terminal_step_queue.                          *)
LEMMA ResolveChange ==
  ASSUME LocksInv, ChangeInv, NEW c \in Clients, Resolve(c), ~RolledBack(c)
  PROVE  ChangeStory(c, tx'[c], step, run)
<1>1. PICK x : x = tx[c]
  OBVIOUS
<1>2. Shaped(x) /\ ChangeStory(c, x, step, run)
  BY <1>1 DEF LocksInv, Story, TxTyped, ChangeInv
<1>3. PICK y : y = tx'[c]
  OBVIOUS
<1>4. ASSUME x.pc = "cascade", NEW t, Shaped(t), t.mine = x.mine, t.run = x.run, NEW pc \in Cascading, NEW want, GoTo(c, t, pc, want)
      PROVE  ChangeStory(c, y, step, run)
  <2>1. y.pc = pc /\ y.mine = x.mine /\ y.run = x.run
    BY <1>3, <1>4, BecameThis
  <2>2. y.pc \notin {"job", "step"}
    BY <1>4, <2>1 DEF Cascading
  <2>3. Ending(x)
    BY <1>4 DEF Ending, Cascading
  <2> QED BY <1>2, <2>1, <2>2, <2>3, SameChange
<1>5. "cascade" \in Cascading /\ "dependents" \in Cascading /\ "recompute" \in Cascading
  BY DEF Cascading
<1>6. ASSUME NextPrerequisite(c) PROVE ChangeStory(c, y, step, run)
  <2>1. x.pc = "cascade"
    BY <1>1, <1>6 DEF NextPrerequisite, At
  <2>2. PICK p : p = Head(tx[c].queue)
    OBVIOUS
  <2>3. CASE GoTo(c, [x EXCEPT !.queue = Tail(x.queue)], "cascade", {})
    <3>1. PICK t : t = [x EXCEPT !.queue = Tail(x.queue)]
      OBVIOUS
    <3>2. Shaped(t) /\ t.mine = x.mine /\ t.run = x.run
      BY SMTT(40), <1>2, <3>1, ExceptSame
    <3>3. GoTo(c, t, "cascade", {})
      BY <2>3, <3>1, Zenon
    <3> QED BY <1>4, <1>5, <2>1, <3>2, <3>3
  <2>4. CASE GoTo(c, [x EXCEPT !.ready = DependentsOf(c, p)], "dependents", DependentRows(c, p))
    <3>1. PICK t : t = [x EXCEPT !.ready = DependentsOf(c, p)]
      OBVIOUS
    <3>2. Shaped(t) /\ t.mine = x.mine /\ t.run = x.run
      BY <1>2, <3>1, ExceptSame
    <3> QED BY <1>4, <1>5, <2>1, <2>4, <3>1, <3>2
  <2> QED BY <1>1, <1>6, <2>2, <2>3, <2>4, Zenon DEF NextPrerequisite
<1>7. ASSUME CascadeEnds(c) PROVE ChangeStory(c, y, step, run)
  <2>1. x.pc = "cascade" /\ GoTo(c, x, "recompute", RecomputeRow)
    BY <1>1, <1>7 DEF CascadeEnds, At
  <2> QED BY <1>2, <1>4, <1>5, <2>1
<1> QED BY <1>3, <1>6, <1>7, UpdateDependentsChange, NextDependentChange, ReleaseChange, RecomputeChange DEF Resolve

LEMMA LockChange ==
  ASSUME LocksInv, ChangeInv, NEW c \in Clients, Lock(c)
  PROVE  ChangeStory(c, tx'[c], step, run)
<1>1. PICK x : x = tx[c]
  OBVIOUS
<1>2. PICK n : n = NextLock(c)
  OBVIOUS
<1>3. c \in DOMAIN tx /\ Shaped(x) /\ ChangeStory(c, x, step, run)
  BY <1>1 DEF LocksInv, Story, TxTyped, RowsTyped, ChangeInv
<1>4. PICK y : y = tx'[c]
  OBVIOUS
<1>5. y.pc = x.pc /\ y.mine = x.mine /\ y.run = x.run /\ y.goal = x.goal
  <2>1. y = [x EXCEPT !.held = x.held \cup {n}, !.want = x.want \ {n}]
    <3>1. tx' = [tx EXCEPT ![c].held = @ \cup {n}, ![c].want = @ \ {n}]
      BY <1>2, Zenon DEF Lock
    <3>2. tx'[c] = [tx[c] EXCEPT !.held = @ \cup {n}, !.want = @ \ {n}]
      BY <1>3, <3>1
    <3> QED BY <1>1, <1>4, <3>2, Zenon
  <2>2. DOMAIN x = {"pc", "want", "held", "mine", "run", "goal", "queue", "ready"}
    BY <1>3 DEF Shaped, Tx
  <2> QED BY <2>1, <2>2
<1>6. Ending(y) => Ending(x)
  BY <1>5 DEF Ending
<1>7. ChangeStory(c, y, step, run)
  BY <1>3, <1>5, <1>6, SameChange
<1> QED BY <1>4, <1>7

(* A transaction that has only read, and reads on or quits.                *)
LEMMA ReadChange ==
  ASSUME LocksInv, NEW c \in Clients, tx[c].pc \in Reading, NEW pc \in (Reading \cup {"commit"}) \ {"job", "step"}, NEW want,
         GoTo(c, tx[c], pc, want)
  PROVE  ChangeStory(c, tx'[c], step, run)
<1>1. Shaped(tx[c]) /\ Mine(tx[c]) = {} /\ tx[c].run = "same"
  BY DEF LocksInv, Story, TxTyped, ControlStory, Reading, Canceling
<1>2. PICK y : y = tx'[c]
  OBVIOUS
<1>3. y.pc = pc /\ y.run = "same" /\ Mine(y) = {}
  BY <1>1, <1>2, BecameThis
<1>4. y.pc \notin Cascading \cup {"release", "job", "step"}
  BY <1>3 DEF Reading, Canceling, Cascading
<1>5. ChangeStory(c, y, step, run)
  BY <1>3, <1>4, NoChange
<1> QED BY <1>2, <1>5

LEMMA BeginChange ==
  ASSUME LocksInv, NEW c \in Clients, NEW goal, NEW pc \in {"job", "steps", "cancel_jobs"}, NEW want, Begin(c, goal, pc, want),
         goal # "CANCELED"
  PROVE  ChangeStory(c, tx'[c], step, run)
<1>1. PICK t : t = [Idle EXCEPT !.goal = goal]
  OBVIOUS
<1>2. t = Tx("idle", {}, {}, NoRows, "same", goal, <<>>, {})
  BY <1>1 DEF Idle, Tx
<1>3. Shaped(t) /\ t.mine = NoRows /\ t.run = "same" /\ t.goal = goal
  BY <1>2, Fields
<1>4. GoTo(c, t, pc, want)
  BY <1>1, Zenon DEF Begin
<1>5. PICK y : y = tx'[c]
  OBVIOUS
<1>6. y.pc = pc /\ y.run = "same" /\ y.goal = goal /\ Mine(y) = {}
  BY <1>3, <1>4, <1>5, BecameThis DEF Mine, NoRows
<1>7. ChangeStory(c, y, step, run)
  BY <1>6 DEF ChangeStory, OwnStory, Ending, Cascading
<1> QED BY <1>5, <1>7

(* A transaction writes the step that it is about.                         *)
LEMMA OwnChange ==
  ASSUME NEW c, NEW y, NEW rows, NEW status, c[1] \in {"job", "external"}, Mine(y) = {c[2]}, y.run = "same", y.pc \notin {"job", "step"},
         c[1] = "external" => rows[c[2]].status = "WAITING_FOR_EXTERNAL",
         Ending(y) => (c[1] = "job" => rows[c[2]].status = "RUNNING") /\ y.mine[c[2]].status \in {"SUCCEEDED", "FAILED"}
  PROVE  ChangeStory(c, y, rows, status)
<1>1. \A d \in Mine(y) : Changed(c, y, rows, d)
  BY DEF Changed
<1>2. OwnStory(c, y, rows)
  BY DEF OwnStory
<1> QED BY <1>1, <1>2 DEF ChangeStory

(* The statements of a worker.                                             *)
LEMMA JobChange ==
  ASSUME LocksInv, ChangeInv, NEW c \in Clients, c[1] = "job", JobClient(c, c[2]), ~RolledBack(c)
  PROVE  ChangeStory(c, tx'[c], step, run)
<1>1. PICK x : x = tx[c]
  OBVIOUS
<1>2. Shaped(x) /\ ChangeStory(c, x, step, run) /\ Story(c, x, step) /\ step \in [Steps -> StepRow] /\ c[2] \in Steps
  BY <1>1, ClientKinds DEF LocksInv, Story, TxTyped, ChangeInv, RowsTyped
<1>3. PICK y : y = tx'[c]
  OBVIOUS
<1>4. CASE BeginJob(c, c[2])
  <2>1. PICK goal \in {"CLAIM", "SUCCEEDED", "FAILED", "RETRY"} : Begin(c, goal, "job", {Exclusive("job", c[2])})
    BY <1>4 DEF BeginJob
  <2> QED BY <2>1, BeginChange
<1>5. CASE JobLocked(c, c[2])
  <2>1. x.pc = "job" /\ x.pc \in Reading /\ x.goal # "CANCELED" /\ Mine(x) = {} /\ x.run = "same"
    BY <1>1, <1>2, <1>5 DEF JobLocked, At, Reading, ChangeStory, OwnStory, Story, ControlStory
  <2>2. CASE GoTo(c, x, "commit", {})
    BY <1>1, <2>1, <2>2, ReadChange DEF Reading
  <2>3. CASE GoTo(c, x, "step", {Exclusive("step", c[2])}) /\ step[c[2]].status = (IF x.goal = "CLAIM" THEN "ENQUEUED" ELSE "RUNNING")
    <3>1. y.pc = "step" /\ y.goal = x.goal /\ y.run = "same" /\ Mine(y) = {}
      BY <1>2, <1>3, <2>1, <2>3, BecameThis
    <3>2. ChangeStory(c, y, step, run)
      BY <2>1, <2>3, <3>1 DEF ChangeStory, OwnStory, Ending, Cascading
    <3> QED BY <1>3, <3>2
  <2> QED BY <1>1, <1>5, <2>2, <2>3, Zenon DEF JobLocked
<1>6. CASE StepLocked(c, c[2])
  <2>1. /\ x.pc = "step" /\ x.pc \in Reading /\ x.goal # "CANCELED" /\ Mine(x) = {} /\ x.run = "same"
        /\ x.goal # "CLAIM" => step[c[2]].status \in {"RUNNING"} \cup Terminal
    BY <1>1, <1>2, <1>6 DEF StepLocked, At, Reading, ChangeStory, OwnStory, Story, ControlStory
  <2>2. View(c)[c[2]].status = step[c[2]].status
    BY <1>1, <1>2, <2>1, SeeRow, ViewIs
  <2>3. PICK status : \/ GoTo(c, Write(x, Written(c, c[2], status)), "commit", {})
                      \/ /\ x.goal \in Terminal /\ step[c[2]].status \notin Terminal /\ status = x.goal
                         /\ GoTo(c, Write(x, Written(c, c[2], status)), "release", {Shared("release")})
                      \/ GoTo(c, x, "commit", {})
    BY <1>1, <1>6, <2>2, Zenon DEF StepLocked
  <2>4. PICK w : w = Write(x, Written(c, c[2], status))
    OBVIOUS
  <2>5. PICK m : m = [r \in {c[2]} |-> [step[c[2]] EXCEPT !.status = status]]
    OBVIOUS
  <2>6. w = Tx(x.pc, x.want, x.held, m, x.run, x.goal, x.queue, x.ready)
    BY <1>1, <1>2, <2>1, <2>4, <2>5, FirstWritten
  <2>7. Shaped(w) /\ w.mine = m /\ w.run = "same"
    BY <2>1, <2>6, Fields
  <2>8. Mine(w) = {c[2]} /\ m[c[2]].status = status
    <3>1. PICK row \in StepRow : row = step[c[2]]
      BY <1>2
    <3>2. DOMAIN m = {c[2]} /\ m[c[2]] = [row EXCEPT !.status = status]
      BY <2>5, <3>1
    <3>3. [row EXCEPT !.status = status].status = status
      BY DEF StepRow
    <3> QED BY <2>7, <3>2, <3>3 DEF Mine
  <2>9. CASE GoTo(c, w, "commit", {})
    <3>1. y.pc = "commit" /\ Mine(y) = {c[2]} /\ y.run = "same"
      BY <1>3, <2>7, <2>8, <2>9, BecameThis
    <3>2. ~Ending(y)
      BY <3>1 DEF Ending, Cascading
    <3>3. ChangeStory(c, y, step, run)
      BY <3>1, <3>2, OwnChange
    <3> QED BY <1>3, <3>3
  <2>10. CASE /\ x.goal \in Terminal /\ step[c[2]].status \notin Terminal /\ status = x.goal
              /\ GoTo(c, w, "release", {Shared("release")})
    <3>1. y.pc = "release" /\ Mine(y) = {c[2]} /\ y.run = "same" /\ y.mine = m
      BY <1>3, <2>7, <2>8, <2>10, BecameThis
    <3>2. step[c[2]].status = "RUNNING" /\ y.mine[c[2]].status \in {"SUCCEEDED", "FAILED"}
      BY <2>1, <2>8, <2>10, <3>1 DEF Terminal
    <3>3. ChangeStory(c, y, step, run)
      BY <3>1, <3>2, OwnChange
    <3> QED BY <1>3, <3>3
  <2>11. CASE GoTo(c, x, "commit", {})
    BY <1>1, <2>1, <2>11, ReadChange DEF Reading
  <2> QED BY <2>3, <2>4, <2>9, <2>10, <2>11, Zenon
<1>7. CASE ReleaseLocked(c, c[2])
  <2>1. PICK t : t = [x EXCEPT !.queue = <<c[2]>>]
    OBVIOUS
  <2>2. Shaped(t) /\ t.mine = x.mine /\ t.run = x.run
    BY <1>2, <2>1, ExceptSame
  <2>3. GoTo(c, t, "cascade", {}) /\ x.pc = "release"
    BY <1>1, <1>7, <2>1, Zenon DEF ReleaseLocked, At
  <2>4. y.pc = "cascade" /\ y.mine = x.mine /\ y.run = x.run
    BY <1>3, <2>2, <2>3, BecameThis
  <2>5. Ending(x)
    BY <2>3 DEF Ending
  <2>6. ChangeStory(c, y, step, run)
    BY <1>2, <2>4, <2>5, SameChange
  <2> QED BY <1>3, <2>6
<1> QED BY <1>4, <1>5, <1>6, <1>7 DEF JobClient, ReleaseTimeout

(* The statements of complete_external_workflow_step.                      *)
LEMMA ExternalChange ==
  ASSUME LocksInv, ChangeInv, NEW c \in Clients, c[1] = "external", ExternalClient(c, c[2]), ~RolledBack(c)
  PROVE  ChangeStory(c, tx'[c], step, run)
<1>1. PICK x : x = tx[c]
  OBVIOUS
<1>2. Shaped(x) /\ Story(c, x, step) /\ step \in [Steps -> StepRow] /\ c[2] \in Steps
  BY <1>1, ClientKinds DEF LocksInv, Story, TxTyped, RowsTyped
<1>3. PICK y : y = tx'[c]
  OBVIOUS
<1>4. CASE BeginExternal(c, c[2])
  <2>1. PICK goal \in {"SUCCEEDED", "FAILED"} : Begin(c, goal, "steps", StepRows(c))
    BY <1>4 DEF BeginExternal
  <2> QED BY <2>1, BeginChange
<1>5. {"steps", "external_step", "external", "commit"} \subseteq (Reading \cup {"commit"}) \ {"job", "step"}
      /\ {"steps", "external_step", "external"} \subseteq Reading
  BY DEF Reading
<1>6. CASE ExternalStepsLocked(c, c[2])
  <2>1. x.pc = "steps"
    BY <1>1, <1>6 DEF ExternalStepsLocked, At
  <2>2. CASE GoTo(c, tx[c], "external_step", {Exclusive("step", c[2])})
    BY <1>1, <1>5, <2>1, <2>2, ReadChange
  <2>3. CASE GoTo(c, tx[c], "commit", {})
    BY <1>1, <1>5, <2>1, <2>3, ReadChange
  <2> QED BY <1>6, <2>2, <2>3, Zenon DEF ExternalStepsLocked
<1>7. CASE ExternalStepLocked(c, c[2])
  <2>1. x.pc = "external_step" /\ GoTo(c, tx[c], "external", {Exclusive("run", 0)})
    BY <1>1, <1>7 DEF ExternalStepLocked, At
  <2> QED BY <1>1, <1>5, <2>1, ReadChange
<1>8. CASE ExternalLocked(c, c[2])
  <2>1. x.pc = "external" /\ x.goal \in {"SUCCEEDED", "FAILED"} /\ Mine(x) = {} /\ x.run = "same"
    BY <1>1, <1>2, <1>8 DEF ExternalLocked, At, Story, ControlStory, Reading
  <2>2. View(c)[c[2]].status = step[c[2]].status
    BY <1>1, <1>2, <2>1, SeeRow, ViewIs
  <2>3. PICK q, h : \/ GoTo(c, x, "commit", {})
                    \/ /\ step[c[2]].status = "WAITING_FOR_EXTERNAL"
                       /\ GoTo(c, [Write(x, Written(c, c[2], x.goal)) EXCEPT !.queue = q, !.held = h], "cascade", {})
    BY <1>1, <1>8, <2>2, Zenon DEF ExternalLocked
  <2>4. CASE GoTo(c, x, "commit", {})
    BY <1>1, <1>5, <2>1, <2>4, ReadChange
  <2>5. CASE /\ step[c[2]].status = "WAITING_FOR_EXTERNAL"
             /\ GoTo(c, [Write(x, Written(c, c[2], x.goal)) EXCEPT !.queue = q, !.held = h], "cascade", {})
    <3>1. PICK w : w = Write(x, Written(c, c[2], x.goal))
      OBVIOUS
    <3>2. PICK m : m = [r \in {c[2]} |-> [step[c[2]] EXCEPT !.status = x.goal]]
      OBVIOUS
    <3>3. w = Tx(x.pc, x.want, x.held, m, x.run, x.goal, x.queue, x.ready)
      <4>1. PICK new : new = x.goal
        OBVIOUS
      <4> QED BY <1>1, <1>2, <2>1, <3>1, <3>2, <4>1, FirstWritten
    <3>4. Shaped(w) /\ w.mine = m /\ w.run = "same"
      BY <2>1, <3>3, Fields
    <3>5. PICK t : t = [w EXCEPT !.queue = q, !.held = h]
      OBVIOUS
    <3>6. t = Tx(w.pc, w.want, h, w.mine, w.run, w.goal, q, w.ready)
      BY <3>4, <3>5, ExceptQueueHeld, Zenon
    <3>7. Shaped(t) /\ t.mine = m /\ t.run = "same"
      BY <3>4, <3>6, Fields
    <3>8. GoTo(c, t, "cascade", {})
      BY <2>5, <3>1, <3>5, Zenon
    <3>9. y.pc = "cascade" /\ y.mine = m /\ y.run = "same"
      BY <1>3, <3>7, <3>8, BecameThis
    <3>10. Mine(y) = {c[2]} /\ y.mine[c[2]].status = x.goal
      <4>1. PICK row \in StepRow : row = step[c[2]]
        BY <1>2
      <4>2. DOMAIN m = {c[2]} /\ m[c[2]] = [row EXCEPT !.status = x.goal]
        BY <3>2, <4>1
      <4>3. [row EXCEPT !.status = x.goal].status = x.goal
        BY DEF StepRow
      <4> QED BY <3>9, <4>2, <4>3 DEF Mine
    <3>11. ChangeStory(c, y, step, run)
      BY <2>1, <2>5, <3>9, <3>10, OwnChange
    <3> QED BY <1>3, <3>11
  <2> QED BY <2>3, <2>4, <2>5
<1> QED BY <1>4, <1>6, <1>7, <1>8 DEF ExternalClient

(* The statements of append_workflow_steps.                                *)
LEMMA AppendChange ==
  ASSUME LocksInv, ChangeInv, NEW c \in Clients, c[1] = "append", AppendClient(c), ~RolledBack(c)
  PROVE  ChangeStory(c, tx'[c], step, run)
<1>1. PICK x : x = tx[c]
  OBVIOUS
<1>2. Shaped(x) /\ Story(c, x, step) /\ step \in [Steps -> StepRow]
  BY <1>1 DEF LocksInv, Story, TxTyped, RowsTyped
<1>3. PICK y : y = tx'[c]
  OBVIOUS
<1>4. {"append", "commit"} \subseteq (Reading \cup {"commit"}) \ {"job", "step"} /\ {"steps", "append"} \subseteq Reading
  BY DEF Reading
<1>5. CASE BeginAppend(c)
  <2>1. Begin(c, "APPEND", "steps", StepRows(c))
    BY <1>5 DEF BeginAppend
  <2> QED BY <2>1, BeginChange
<1>6. CASE AppendStepsLocked(c)
  <2>1. x.pc = "steps" /\ GoTo(c, tx[c], "append", {Exclusive("run", 0)})
    BY <1>1, <1>6 DEF AppendStepsLocked, At
  <2> QED BY <1>1, <1>4, <2>1, ReadChange
<1>7. CASE AppendRunLocked(c)
  <2>1. x.pc = "append" /\ Mine(x) = {} /\ x.run = "same"
    BY <1>1, <1>2, <1>7 DEF AppendRunLocked, At, Story, ControlStory, Reading
  <2>2. View(c) = step
    BY <1>1, <1>2, <2>1, NothingSeen, ViewIs
  <2>3. PICK new : new = [d \in Appended |-> InsertedRow(c, d)]
    OBVIOUS
  <2>4. PICK ready, held : \/ GoTo(c, x, "commit", {})
                           \/ ~AppendRefused(c) /\ GoTo(c, [Write(x, new) EXCEPT !.held = held, !.ready = ready], "cascade", {})
    BY <1>1, <1>7, <2>3, Zenon DEF AppendRunLocked
  <2>5. CASE GoTo(c, x, "commit", {})
    BY <1>1, <1>4, <2>1, <2>5, ReadChange
  <2>6. CASE ~AppendRefused(c) /\ GoTo(c, [Write(x, new) EXCEPT !.held = held, !.ready = ready], "cascade", {})
    <3>1. PICK w : w = Write(x, new)
      OBVIOUS
    <3>2. PICK m : m = Over(new, x.mine)
      OBVIOUS
    <3>3. Shaped(w) /\ w.mine = m /\ w.run = x.run
      BY <1>2, <3>1, <3>2, WriteSame, Zenon
    <3>4. PICK t : t = [w EXCEPT !.held = held, !.ready = ready]
      OBVIOUS
    <3>5. t = Tx(w.pc, w.want, held, w.mine, w.run, w.goal, w.queue, ready)
      BY <3>3, <3>4, ExceptHeldReady, ZenonT(40)
    <3>6. Shaped(t) /\ t.mine = m /\ t.run = "same"
      BY <2>1, <3>3, <3>5, Fields
    <3>7. GoTo(c, t, "cascade", {})
      BY <2>6, <3>1, <3>4, Zenon
    <3>8. y.pc = "cascade" /\ y.mine = m /\ y.run = "same"
      BY <1>3, <3>6, <3>7, BecameThis
    <3>9. Mine(y) = Appended /\ \A d \in Appended : y.mine[d] = new[d]
      <4>1. DOMAIN new = Appended
        BY <2>3
      <4>2. PICK old : old = x.mine
        OBVIOUS
      <4>3. DOMAIN old = {} /\ m = Over(new, old)
        BY <2>1, <3>2, <4>2, Zenon DEF Mine
      <4>4. DOMAIN m = DOMAIN new /\ \A d \in DOMAIN new : m[d] = new[d]
        BY <4>3 DEF Over
      <4> QED BY <3>8, <4>1, <4>4 DEF Mine
    <3>10. ASSUME NEW d \in Appended PROVE y.mine[d].status = "BLOCKED"
      <4>1. y.mine[d] = InsertedRow(c, d)
        BY <2>3, <3>9
      <4>2. \A n, u : Row("BLOCKED", n, u, FALSE).status = "BLOCKED"
        BY DEF Row
      <4> QED BY <4>1, <4>2, Zenon DEF InsertedRow
    <3>11. \A s \in Appended : step[s].status = "ABSENT"
      BY <2>2, <2>6 DEF AppendRefused, AlreadyApplied
    <3>12. \A d \in Mine(y) : Changed(c, y, step, d)
      BY <3>9, <3>10, <3>11 DEF Changed, Before
    <3>13. OwnStory(c, y, step)
      BY <3>8 DEF OwnStory
    <3>14. ChangeStory(c, y, step, run)
      BY <3>8, <3>9, <3>11, <3>12, <3>13 DEF ChangeStory
    <3> QED BY <1>3, <3>14
  <2> QED BY <2>4, <2>5, <2>6
<1> QED BY <1>5, <1>6, <1>7 DEF AppendClient

(* The phases of a cancellation.                                           *)
LEMMA CancelChange ==
  ASSUME LocksInv, ChangeInv, NEW c \in Clients, c[1] = "cancel", CancelClient(c)
  PROVE  ChangeStory(c, tx'[c], step, run)
<1>1. PICK x : x = tx[c]
  OBVIOUS
<1>2. Shaped(x) /\ Story(c, x, step) /\ step \in [Steps -> StepRow] /\ run \in OpenRun \cup ClosedRun
  BY <1>1 DEF LocksInv, Story, TxTyped, RowsTyped
<1>3. PICK y : y = tx'[c]
  OBVIOUS
<1>4. CASE BeginCancel(c)
  <2>1. Begin(c, "CANCEL", "cancel_jobs", CancelRows(c, "cancel_jobs"))
    BY <1>4 DEF BeginCancel, CancelOrder
  <2> QED BY <2>1, BeginChange
<1>5. CASE CancelLocked(c)
  <2>1. x.pc \in {"cancel_jobs", "cancel_release", "cancel_jobs_again", "cancel_steps", "cancel_run"}
    BY <1>1, <1>5 DEF CancelLocked
  <2>2. PICK pc : pc = CancelOrder(x.pc)
    OBVIOUS
  <2>3. pc \in (Reading \cup {"commit"}) \ {"job", "step"} /\ x.pc \in Reading
    BY <2>1, <2>2 DEF CancelOrder, Reading, Canceling
  <2>4. GoTo(c, tx[c], pc, CancelRows(c, pc))
    BY <1>1, <1>5, <2>2, Zenon DEF CancelLocked
  <2> QED BY <1>1, <2>3, <2>4, ReadChange
<1>6. CASE Sweep(c)
  <2>1. x.pc = "sweep" /\ x.pc \in Reading /\ Mine(x) = {} /\ x.run = "same"
    BY <1>1, <1>2, <1>6 DEF Sweep, At, Story, ControlStory, Reading, Canceling
  <2>2. View(c) = step /\ RunView(c) = run
    BY <1>1, <1>2, <2>1, NothingSeen, ViewIs DEF RunView
  <2>3. PICK K : K = Knows(x, step)
    OBVIOUS
  <2>4. Known(c) = K /\ K \subseteq Steps
    BY <1>1, <2>3, ViewIs DEF Knows
  <2>5. PICK swept : swept = {s \in K : step[s].status \notin Terminal}
    OBVIOUS
  <2>6. PICK new : new = [s \in K |->
                [step[s] EXCEPT !.status = IF s \in swept THEN "CANCELED" ELSE @,
                                !.pending = @ - Cardinality(Prereqs(s) \cap swept),
                                !.unsatisfied = @ + Cardinality({p \in Prereqs(s) \cap swept : <<p, s>> \in OnSuccess})]]
    OBVIOUS
  <2>7. CASE GoTo(c, x, "commit", {})
    BY <1>1, <2>1, <2>7, ReadChange DEF Reading
  <2>8. CASE run \notin ClosedRun /\ GoTo(c, [Write(x, new) EXCEPT !.run = "CANCELED"], "commit", {})
    <3>1. PICK w : w = Write(x, new)
      OBVIOUS
    <3>2. PICK m : m = Over(new, x.mine)
      OBVIOUS
    <3>3. Shaped(w) /\ w.mine = m
      BY <1>2, <3>1, <3>2, WriteSame, Zenon
    <3>4. PICK t : t = [w EXCEPT !.run = "CANCELED"]
      OBVIOUS
    <3>5. t = Tx(w.pc, w.want, w.held, w.mine, "CANCELED", w.goal, w.queue, w.ready)
      BY <3>3, <3>4, ExceptTx, Zenon
    <3>6. Shaped(t) /\ t.mine = m /\ t.run = "CANCELED"
      BY <3>3, <3>5, Fields
    <3>7. GoTo(c, t, "commit", {})
      BY <2>8, <3>1, <3>4, Zenon
    <3>8. y.pc = "commit" /\ y.mine = m /\ y.run = "CANCELED"
      BY <1>3, <3>6, <3>7, BecameThis
    <3>9. Mine(y) = K /\ \A s \in K : y.mine[s] = new[s]
      <4>1. DOMAIN new = K
        BY <2>6
      <4>2. PICK old : old = x.mine
        OBVIOUS
      <4>3. DOMAIN old = {} /\ m = Over(new, old)
        BY <2>1, <3>2, <4>2, Zenon DEF Mine
      <4>4. DOMAIN m = DOMAIN new /\ \A d \in DOMAIN new : m[d] = new[d]
        BY <4>3 DEF Over
      <4> QED BY <3>8, <4>1, <4>4 DEF Mine
    <3>10. ASSUME NEW s \in K PROVE Swept(y, step, s)
      <4>1. PICK row \in StepRow : row = step[s]
        BY <1>2, <2>4
      <4>2. PICK a, b : a = Cardinality(Prereqs(s) \cap swept) /\ b = Cardinality({p \in Prereqs(s) \cap swept : <<p, s>> \in OnSuccess})
        BY Zenon
      <4>3. PICK u : u = IF s \in swept THEN "CANCELED" ELSE row.status
        OBVIOUS
      <4>4. y.mine[s] = [row EXCEPT !.status = u, !.pending = @ - a, !.unsatisfied = @ + b]
        <5>1. new[s] = [step[s] EXCEPT !.status = IF s \in swept THEN "CANCELED" ELSE @,
                                !.pending = @ - Cardinality(Prereqs(s) \cap swept),
                                !.unsatisfied = @ + Cardinality({p \in Prereqs(s) \cap swept : <<p, s>> \in OnSuccess})]
          BY <2>6, Zenon
        <5> QED BY <3>9, <4>1, <4>2, <4>3, <5>1, Zenon
      <4>5. y.mine[s].status = u
        BY <4>4 DEF StepRow
      <4> QED BY <2>5, <3>8, <3>10, <4>1, <4>3, <4>5 DEF Swept
    <3>11. run \in OpenRun /\ run # "CANCELED"
      BY <1>2, <2>8 DEF OpenRun, ClosedRun
    <3>12. OwnStory(c, y, step)
      BY <3>8 DEF OwnStory
    <3>13. ChangeStory(c, y, step, run)
      BY <3>8, <3>9, <3>10, <3>11, <3>12 DEF ChangeStory
    <3> QED BY <1>3, <3>13
  <2>9. \/ GoTo(c, x, "commit", {})
        \/ run \notin ClosedRun /\ GoTo(c, [Write(x, new) EXCEPT !.run = "CANCELED"], "commit", {})
    BY <1>1, <1>6, <2>2, <2>4, <2>5, <2>6, Zenon DEF Sweep
  <2> QED BY <2>7, <2>8, <2>9
<1> QED BY <1>4, <1>5, <1>6 DEF CancelClient

LEMMA StepChange ==
  ASSUME LocksInv, ChangeInv, NEW c \in Clients, Step(c)
  PROVE  ChangeInv'
<1>1. CASE RolledBack(c)
  <2>1. tx'[c] = Idle /\ (\A o \in Clients \ {c} : tx'[o] = tx[o]) /\ step' = step /\ run' = run
    BY <1>1 DEF RolledBack, LocksInv, RowsTyped
  <2>2. ASSUME NEW o \in Clients PROVE ChangeStory(o, tx'[o], step, run)
    BY <2>1, IdleChange DEF ChangeInv
  <2> QED BY <2>1, <2>2 DEF ChangeInv
<1>2. CASE Commit(c)
  <2>1. PICK z : z = tx[c]
    OBVIOUS
  <2>2. tx'[c] = Idle /\ (\A o \in Clients \ {c} : tx'[o] = tx[o]) /\ step' = See(z, step) /\ run' = IF z.run = "same" THEN run ELSE z.run
    BY <1>2, <2>1, ViewIs DEF Commit, LocksInv, RowsTyped, RunView
  <2>3. z.pc = "commit" /\ step \in [Steps -> StepRow]
    BY <1>2, <2>1 DEF Commit, At, LocksInv, RowsTyped
  <2>4. ASSUME NEW o \in Clients, o # c PROVE ChangeStory(o, tx'[o], step', run')
    <3>1. PICK x : x = tx[o]
      OBVIOUS
    <3>2. Story(o, x, step) /\ Story(c, z, step) /\ Apart(x, z) /\ ChangeStory(o, x, step, run) /\ ChangeStory(c, z, step, run)
      BY <2>1, <2>4, <3>1 DEF LocksInv, LocksApart, Apart, ChangeInv
    <3>3. ChangeStory(o, x, See(z, step), IF z.run = "same" THEN run ELSE z.run)
      BY <2>3, <2>4, <3>2, ChangeRely
    <3> QED BY <2>2, <2>4, <3>1, <3>3
  <2>5. ChangeStory(c, tx'[c], step', run')
    BY <2>2, IdleChange
  <2> QED BY <2>4, <2>5 DEF ChangeInv
<1>3. CASE ~RolledBack(c) /\ ~Commit(c)
  <2>1. PICK y : Keeps(c, y)
    BY <1>3, StepKeeps
  <2>2. step' = step /\ run' = run /\ \A o \in Clients \ {c} : tx'[o] = tx[o]
    BY <2>1 DEF Keeps, LocksInv, RowsTyped
  <2>3. ChangeStory(c, tx'[c], step, run)
    <3>1. CASE Lock(c)
      BY <3>1, LockChange
    <3>2. CASE Resolve(c)
      BY <1>3, <3>2, ResolveChange
    <3>3. CASE c[1] = "job" /\ JobClient(c, c[2])
      BY <1>3, <3>3, JobChange
    <3>4. CASE c[1] = "external" /\ ExternalClient(c, c[2])
      BY <1>3, <3>4, ExternalChange
    <3>5. CASE c[1] = "append" /\ AppendClient(c)
      BY <1>3, <3>5, AppendChange
    <3>6. CASE c[1] = "cancel" /\ CancelClient(c)
      BY <1>3, <3>6, CancelChange
    <3> QED BY <1>3, <3>1, <3>2, <3>3, <3>4, <3>5, <3>6 DEF Step, Victim
  <2>4. ASSUME NEW o \in Clients PROVE ChangeStory(o, tx'[o], step, run)
    BY <2>2, <2>3 DEF ChangeInv
  <2> QED BY <2>2, <2>4 DEF ChangeInv
<1> QED BY <1>1, <1>2, <1>3

LEMMA InitChange == Init => ChangeInv
<1> SUFFICES ASSUME Init PROVE ChangeInv
  OBVIOUS
<1>1. \A c \in Clients : tx[c] = Idle
  BY DEF Init
<1> QED BY <1>1, IdleChange DEF ChangeInv

LEMMA NextChange == LocksInv /\ ChangeInv /\ [Next]_vars => ChangeInv'
<1> SUFFICES ASSUME LocksInv, ChangeInv, [Next]_vars PROVE ChangeInv'
  OBVIOUS
<1>1. CASE UNCHANGED vars
  BY <1>1 DEF vars, ChangeInv
<1> QED BY <1>1, StepChange DEF Next

-----------------------------------------------------------------------------
(* Every commit is a step of AtomicRun.                                    *)

NoneCounted(S) == S = {}

LEMMA CountIsZero ==
  ASSUME NEW S \in SUBSET Steps
  PROVE  Cardinality(S) = 0 <=> NoneCounted(S)
<1>1. IsFiniteSet(S)
  BY StepsFinite
<1> QED BY <1>1, FS_EmptySet DEF NoneCounted

(* The prerequisites of a step that a transaction leaves are over, and     *)
(* satisfied it or not, just as its counters say.                          *)
LEMMA CountersSay ==
  ASSUME NEW rows \in [Steps -> StepRow], NEW status, Sound(rows, status), NEW d \in Steps, rows[d].status # "ABSENT"
  PROVE  /\ rows[d].pending = 0 <=> \A p \in Prereqs(d) : rows[p].status \in Terminal
         /\ rows[d].pending = 0 =>
              (rows[d].unsatisfied # 0 <=> \E p \in Prereqs(d) : <<p, d>> \in OnSuccess /\ rows[p].status # "SUCCEEDED")
<1>1. PICK P : P = Pending(rows, {}, d)
  OBVIOUS
<1>2. PICK U : U = Unsatisfied(rows, {}, d)
  OBVIOUS
<1>3. Prereqs(d) \subseteq Steps
  BY DEF Prereqs
<1>4. P \in SUBSET Steps /\ U \in SUBSET Steps
  BY <1>1, <1>2, <1>3 DEF Pending, Unsatisfied
<1>5. rows[d].pending = Cardinality(P) /\ rows[d].unsatisfied = Cardinality(U)
  BY <1>1, <1>2 DEF Sound, Agree
<1>6. (rows[d].pending = 0 <=> NoneCounted(P)) /\ (rows[d].unsatisfied = 0 <=> NoneCounted(U))
  BY <1>4, <1>5, CountIsZero
<1>7. NoneCounted(P) <=> \A p \in Prereqs(d) : rows[p].status \in Terminal
  BY <1>1, Zenon DEF NoneCounted, Pending
<1>8. NoneCounted(U) <=> \A p \in Prereqs(d) : ~(<<p, d>> \in OnSuccess /\ rows[p].status \in {"FAILED", "CANCELED"})
  BY <1>2, Zenon DEF NoneCounted, Unsatisfied
<1>9. ASSUME NEW p \in Prereqs(d), rows[p].status \in Terminal
      PROVE  rows[p].status \in {"FAILED", "CANCELED"} <=> rows[p].status # "SUCCEEDED"
  BY <1>9 DEF Terminal
<1> QED BY <1>6, <1>7, <1>8, <1>9

(* What a transaction leaves, given what the steps were before the steps   *)
(* that became ready were released or canceled.                            *)
LEMMA Settled ==
  ASSUME NEW new \in [Steps -> StepRow], NEW status, Sound(new, status), NEW before,
         \A d \in Steps : \/ new[d].status = before[d]
                          \/ /\ before[d] = "BLOCKED" /\ new[d].pending = 0
                             /\ new[d].status = IF new[d].unsatisfied # 0 THEN "CANCELED" ELSE ReleasedAs(d)
  PROVE  \A d \in Steps :
           new[d].status = IF before[d] = "BLOCKED" /\ \A p \in Prereqs(d) : new[p].status \in Terminal
                           THEN IF \E p \in Prereqs(d) : <<p, d>> \in OnSuccess /\ new[p].status # "SUCCEEDED"
                                THEN "CANCELED" ELSE ReleasedAs(d)
                           ELSE before[d]
<1> SUFFICES ASSUME NEW d \in Steps
             PROVE  new[d].status = IF before[d] = "BLOCKED" /\ \A p \in Prereqs(d) : new[p].status \in Terminal
                           THEN IF \E p \in Prereqs(d) : <<p, d>> \in OnSuccess /\ new[p].status # "SUCCEEDED"
                                THEN "CANCELED" ELSE ReleasedAs(d)
                           ELSE before[d]
  OBVIOUS
<1>1. CASE new[d].status = before[d] /\ before[d] # "BLOCKED"
  BY <1>1
<1>2. CASE new[d].status = before[d] /\ before[d] = "BLOCKED"
  <2>1. new[d].pending # 0 /\ new[d].status # "ABSENT"
    BY <1>2 DEF Sound
  <2>2. ~\A p \in Prereqs(d) : new[p].status \in Terminal
    BY <2>1, CountersSay
  <2> QED BY <1>2, <2>2
<1>3. CASE /\ before[d] = "BLOCKED" /\ new[d].pending = 0
           /\ new[d].status = IF new[d].unsatisfied # 0 THEN "CANCELED" ELSE ReleasedAs(d)
  <2>1. new[d].status # "ABSENT"
    BY <1>3 DEF ReleasedAs
  <2>2. /\ \A p \in Prereqs(d) : new[p].status \in Terminal
        /\ new[d].unsatisfied # 0 <=> \E p \in Prereqs(d) : <<p, d>> \in OnSuccess /\ new[p].status # "SUCCEEDED"
    BY <1>3, <2>1, CountersSay
  <2> QED BY <1>3, <2>2
<1> QED BY <1>1, <1>2, <1>3

LEMMA SettlesIs ==
  ASSUME step' \in [Steps -> StepRow], Sound(step', run'), run' # "CANCELED", NEW before,
         \A d \in Steps : \/ step'[d].status = before[d]
                          \/ /\ before[d] = "BLOCKED" /\ step'[d].pending = 0
                             /\ step'[d].status = IF step'[d].unsatisfied # 0 THEN "CANCELED" ELSE ReleasedAs(d)
  PROVE  Atomic!Settles(before)
<1>0. PICK status : status = run'
  OBVIOUS
<1>1. PICK new \in [Steps -> StepRow] : new = step'
  OBVIOUS
<1>2. PICK after : after = [s \in Steps |-> new[s].status]
  OBVIOUS
<1>3. \A d \in Steps :
           new[d].status = IF before[d] = "BLOCKED" /\ \A p \in Prereqs(d) : new[p].status \in Terminal
                           THEN IF \E p \in Prereqs(d) : <<p, d>> \in OnSuccess /\ new[p].status # "SUCCEEDED"
                                THEN "CANCELED" ELSE ReleasedAs(d)
                           ELSE before[d]
  <2>1. /\ Sound(new, status)
        /\ \A d \in Steps : \/ new[d].status = before[d]
                            \/ /\ before[d] = "BLOCKED" /\ new[d].pending = 0
                               /\ new[d].status = IF new[d].unsatisfied # 0 THEN "CANCELED" ELSE ReleasedAs(d)
    BY <1>0, <1>1
  <2> QED BY <2>1, Settled, ZenonT(40)
<1>4. \A d : Atomic!Prereqs(d) = Prereqs(d) /\ Prereqs(d) \subseteq Steps /\ Atomic!ReleasedAs(d) = ReleasedAs(d) /\ Atomic!Over = Terminal
  BY DEF Atomic!Prereqs, Prereqs, Atomic!ReleasedAs, ReleasedAs, Atomic!Over, Terminal
<1>5. ASSUME NEW d \in Steps
      PROVE  after[d] = IF before[d] = "BLOCKED" /\ \A p \in Atomic!Prereqs(d) : after[p] \in Atomic!Over
                        THEN Atomic!Outcome(d, after) ELSE before[d]
  <2>1. \A p \in Prereqs(d) : after[p] = new[p].status
    BY <1>2, <1>4
  <2>2. Atomic!Outcome(d, after) = IF \E p \in Prereqs(d) : <<p, d>> \in OnSuccess /\ new[p].status # "SUCCEEDED"
                                THEN "CANCELED" ELSE ReleasedAs(d)
    BY <1>4, <2>1 DEF Atomic!Outcome
  <2>3. (\A p \in Atomic!Prereqs(d) : after[p] \in Atomic!Over) <=> (\A p \in Prereqs(d) : new[p].status \in Terminal)
    BY <1>4, <2>1
  <2> QED BY <1>2, <1>3, <2>2, <2>3
<1>6. [s \in Steps |-> step'[s].status] = [d \in Steps |-> IF before[d] = "BLOCKED" /\ \A p \in Atomic!Prereqs(d) : after[p] \in Atomic!Over
                        THEN Atomic!Outcome(d, after) ELSE before[d]]
  BY <1>1, <1>2, <1>5
<1>7. run' = StatusOf(new)
  BY <1>1 DEF Sound
<1>8. Atomic!RunStatus' = StatusOf(new)
  BY <1>1 DEF Atomic!RunStatus, StatusOf
<1> QED BY <1>1, <1>2, <1>6, <1>7, <1>8 DEF Atomic!Settles

LEMMA CommitFacts ==
  ASSUME LocksInv, ChangeInv, NEW c \in Clients, Commit(c), NEW x, x = tx[c]
  PROVE  /\ x.pc = "commit" /\ Story(c, x, step) /\ ChangeStory(c, x, step, run) /\ Sound(step, run)
         /\ step \in [Steps -> StepRow] /\ step' \in [Steps -> StepRow] /\ Sound(step', run')
         /\ \A s \in Steps : step'[s] = IF s \in Mine(x) THEN x.mine[s] ELSE step[s]
         /\ run' = IF x.run = "same" THEN run ELSE x.run
<1>1. x.pc = "commit" /\ Story(c, x, step) /\ TxTyped(x) /\ ChangeStory(c, x, step, run) /\ Sound(step, run) /\ step \in [Steps -> StepRow]
  BY DEF Commit, At, LocksInv, RowsTyped, ChangeInv, Story
<1>2. step' = See(x, step) /\ run' = IF x.run = "same" THEN run ELSE x.run
  BY ViewIs DEF Commit, RunView
<1>3. step' \in [Steps -> StepRow]
  BY <1>1, <1>2, SeeTyped
<1>4. Sound(step', run')
  BY <1>1, <1>2, CommitSound
<1>5. \A s \in Steps : step'[s] = IF s \in Mine(x) THEN x.mine[s] ELSE step[s]
  BY <1>2, SeeRow
<1> QED BY <1>1, <1>2, <1>3, <1>4, <1>5

(* No status changes.                                                      *)
LEMMA NothingChanges ==
  ASSUME \A s \in Steps : step'[s].status = step[s].status, run' = run
  PROVE  UNCHANGED Atomic!avars
<1>1. [s \in Steps |-> step[s].status]' = [s \in Steps |-> step[s].status]
  OBVIOUS
<1> QED BY <1>1 DEF Atomic!avars

(* A claim, a retry, or a transaction that had nothing to do.              *)
LEMMA QuietCommit ==
  ASSUME LocksInv, ChangeInv, NEW c \in Clients, Commit(c), tx[c].run = "same"
  PROVE  Atomic!AtomicNext \/ UNCHANGED Atomic!avars
<1>1. PICK x : x = tx[c]
  OBVIOUS
<1>2. /\ x.pc = "commit" /\ Story(c, x, step) /\ ChangeStory(c, x, step, run)
      /\ step \in [Steps -> StepRow]
      /\ \A s \in Steps : step'[s] = IF s \in Mine(x) THEN x.mine[s] ELSE step[s]
      /\ run' = run
  BY <1>1, CommitFacts
<1>3. \A s \in Mine(x) : {step[s].status, x.mine[s].status} \subseteq {"ENQUEUED", "RUNNING"}
  BY <1>1, <1>2 DEF Story, CommitStory
<1>4. c[1] = "cancel" => Mine(x) = {}
  BY <1>1, <1>2 DEF ChangeStory, Swept
<1>5. c[1] = "external" => Mine(x) = {}
  <2>1. c[1] = "external" /\ Mine(x) # {} => c[2] \in Mine(x) /\ step[c[2]].status = "WAITING_FOR_EXTERNAL"
    BY <1>2 DEF Story, OpenStory, ChangeStory, OwnStory
  <2> QED BY <1>3, <2>1
<1>6. ASSUME NEW s \in Mine(x), ~(c[1] = "job" /\ s = c[2]) PROVE x.mine[s].status = step[s].status
  <2>1. Changed(c, x, step, s) /\ ~(c[1] \in {"job", "external"} /\ s = c[2])
    BY <1>2, <1>4, <1>5, <1>6 DEF ChangeStory
  <2>2. Before(step, s) = step[s].status /\ step[s].status # "BLOCKED"
    BY <1>3 DEF Before
  <2> QED BY <2>1, <2>2 DEF Changed
<1>7. CASE \A s \in Steps : step'[s].status = step[s].status
  BY <1>2, <1>7, NothingChanges
<1>8. CASE ~\A s \in Steps : step'[s].status = step[s].status
  <2>1. PICK s \in Steps : step'[s].status # step[s].status
    BY <1>8
  <2>2. s \in Mine(x) /\ c[1] = "job" /\ s = c[2] /\ step'[s] = x.mine[s]
    BY <1>2, <1>6, <2>1
  <2>3. PICK a, b : a = step[s].status /\ b = step'[s].status
    BY Zenon
  <2>4. a \in {"ENQUEUED", "RUNNING"} /\ b \in {"ENQUEUED", "RUNNING"} /\ a # b
    BY <1>3, <2>1, <2>2, <2>3
  <2>5. \A r \in Steps \ {s} : step'[r].status = step[r].status
    BY <1>2, <1>6, <2>2
  <2>6. [r \in Steps |-> step'[r].status] = [[r \in Steps |-> step[r].status] EXCEPT ![s] = b]
    BY <2>3, <2>5
  <2>7. CASE a = "ENQUEUED"
    <3>1. b = "RUNNING"
      BY <2>4, <2>7
    <3>2. Atomic!Start(s)
      BY <1>2, <2>3, <2>6, <2>7, <3>1 DEF Atomic!Start
    <3> QED BY <3>2 DEF Atomic!AtomicNext
  <2>8. CASE a = "RUNNING"
    <3>1. b = "ENQUEUED"
      BY <2>4, <2>8
    <3>2. Atomic!GiveBack(s)
      BY <1>2, <2>3, <2>6, <2>8, <3>1 DEF Atomic!GiveBack
    <3> QED BY <3>2 DEF Atomic!AtomicNext
  <2> QED BY <2>4, <2>7, <2>8
<1> QED BY <1>7, <1>8

(* The end of a step.                                                      *)
LEMMA EndCommit ==
  ASSUME LocksInv, ChangeInv, NEW c \in Clients, Commit(c), tx[c].run # "same", c[1] \in {"job", "external"}
  PROVE  Atomic!AtomicNext
<1>1. PICK x : x = tx[c]
  OBVIOUS
<1>2. /\ x.pc = "commit" /\ Story(c, x, step) /\ ChangeStory(c, x, step, run)
      /\ step \in [Steps -> StepRow] /\ step' \in [Steps -> StepRow] /\ Sound(step', run')
      /\ \A s \in Steps : step'[s] = IF s \in Mine(x) THEN x.mine[s] ELSE step[s]
      /\ run' = x.run /\ x.run # "CANCELED"
  <2>1. x.run # "CANCELED"
    BY <1>1, CommitFacts DEF ChangeStory
  <2> QED BY <1>1, <2>1, CommitFacts
<1>3. PICK s \in Steps : s = c[2]
  BY ClientKinds
<1>4. PICK outcome : outcome = x.mine[s].status
  OBVIOUS
<1>5. /\ s \in Mine(x) /\ outcome \in {"SUCCEEDED", "FAILED"} /\ step'[s].status = outcome
      /\ step[s].status \in {"RUNNING", "WAITING_FOR_EXTERNAL"}
  <2>1. Ending(x)
    BY <1>1 DEF Ending
  <2> QED BY <1>2, <1>3, <1>4, <2>1 DEF ChangeStory, OwnStory
<1>6. PICK before : before = [[r \in Steps |-> step[r].status] EXCEPT ![s] = outcome]
  OBVIOUS
<1>7. before[s] = outcome /\ \A r \in Steps \ {s} : before[r] = step[r].status
  BY <1>6
<1>8. ASSUME NEW d \in Steps
      PROVE  \/ step'[d].status = before[d]
             \/ /\ before[d] = "BLOCKED" /\ step'[d].pending = 0
                /\ step'[d].status = IF step'[d].unsatisfied # 0 THEN "CANCELED" ELSE ReleasedAs(d)
  <2>1. CASE d = s
    BY <1>5, <1>7, <2>1
  <2>2. CASE d \notin Mine(x)
    BY <1>2, <1>5, <1>7, <2>2
  <2>3. CASE d \in Mine(x) /\ d # s
    <3>1. step'[d] = x.mine[d] /\ before[d] = step[d].status
      BY <1>2, <1>7, <2>3
    <3>2. step[d].status # "ABSENT"
      BY <1>2, <2>3 DEF Story, WriteStory, Owns
    <3>3. Changed(c, x, step, d) /\ Before(step, d) = step[d].status
      BY <1>2, <2>3, <3>2 DEF ChangeStory, Before
    <3> QED BY <1>3, <2>3, <3>1, <3>3 DEF Changed
  <2> QED BY <2>1, <2>2, <2>3
<1>9. Atomic!Settles(before)
  BY <1>2, <1>8, SettlesIs
<1>10. Atomic!End(s, outcome)
  <2>1. [r \in Steps |-> step[r].status][s] \in {"RUNNING", "WAITING_FOR_EXTERNAL"}
    BY <1>5
  <2>2. Atomic!Settles([[r \in Steps |-> step[r].status] EXCEPT ![s] = outcome])
    BY <1>6, <1>9, Zenon DEF Atomic!Settles
  <2> QED BY <2>1, <2>2 DEF Atomic!End, Atomic!Settles
<1> QED BY <1>5, <1>10 DEF Atomic!AtomicNext

(* An append.                                                              *)
LEMMA AppendCommit ==
  ASSUME LocksInv, WaitInv, ChangeInv, NEW c \in Clients, Commit(c), tx[c].run # "same", c[1] = "append"
  PROVE  Atomic!AtomicNext \/ UNCHANGED Atomic!avars
<1>1. PICK x : x = tx[c]
  OBVIOUS
<1>2. /\ x.pc = "commit" /\ Story(c, x, step) /\ ChangeStory(c, x, step, run) /\ Sound(step, run)
      /\ step \in [Steps -> StepRow] /\ step' \in [Steps -> StepRow] /\ Sound(step', run')
      /\ \A s \in Steps : step'[s] = IF s \in Mine(x) THEN x.mine[s] ELSE step[s]
      /\ run' = x.run /\ x.run # "CANCELED" /\ run # "CANCELED"
  <2>1. x.run # "CANCELED" /\ run # "CANCELED"
    BY <1>1, CommitFacts DEF ChangeStory
  <2> QED BY <1>1, <2>1, CommitFacts
<1>3. CASE Mine(x) = {}
  <2>1. \A s \in Steps : step'[s].status = step[s].status
    BY <1>2, <1>3
  <2>2. step' = step
    BY <1>2, <1>3
  <2>3. run' = run
    BY <1>2, <2>2 DEF Sound
  <2> QED BY <2>1, <2>3, NothingChanges
<1>4. CASE Mine(x) # {}
  <2>1. \A s \in Appended : s \in Mine(x) /\ step[s].status = "ABSENT"
    BY <1>2, <1>4 DEF ChangeStory
  <2>2. step[Window].status = "WAITING_FOR_EXTERNAL" /\ run \in OpenRun
    <3>1. OpenStory(c, x, step)
      BY <1>2 DEF Story
    <3> QED BY <1>2, <1>4, <3>1, RunIsOpen DEF OpenStory
  <2>3. \A s \in Steps : step[s].status = "ABSENT" => s \in Appended
    BY DEF WaitInv, Whole
  <2>4. PICK before : before = [s \in Steps |-> IF s \in Appended THEN "BLOCKED" ELSE step[s].status]
    OBVIOUS
  <2>5. ASSUME NEW d \in Steps
        PROVE  \/ step'[d].status = before[d]
               \/ /\ before[d] = "BLOCKED" /\ step'[d].pending = 0
                  /\ step'[d].status = IF step'[d].unsatisfied # 0 THEN "CANCELED" ELSE ReleasedAs(d)
    <3>1. CASE d \notin Mine(x)
      BY <1>2, <2>1, <2>4, <3>1
    <3>2. CASE d \in Mine(x)
      <4>1. step'[d] = x.mine[d] /\ before[d] = Before(step, d)
        BY <1>2, <2>1, <2>3, <2>4, <3>2 DEF Before
      <4>2. Changed(c, x, step, d)
        BY <1>2, <3>2 DEF ChangeStory
      <4> QED BY <4>1, <4>2 DEF Changed
    <3> QED BY <3>1, <3>2
  <2>6. Atomic!Settles(before)
    BY <1>2, <2>5, SettlesIs
  <2>7. before = [s \in Steps |-> IF s \in Appended THEN "BLOCKED" ELSE [r \in Steps |-> step[r].status][s]]
    BY <2>4
  <2>8. Window \in Steps /\ Appended \subseteq Steps
    BY LocksAssumption
  <2>9. Atomic!AppendSteps
    <3>1. run \in Atomic!OpenRun
      BY <2>2 DEF Atomic!OpenRun, OpenRun
    <3>2. [r \in Steps |-> step[r].status][Window] = "WAITING_FOR_EXTERNAL"
      BY <2>2, <2>8
    <3>3. \A s \in Appended : [r \in Steps |-> step[r].status][s] = "ABSENT"
      BY <2>1, <2>8
    <3>4. Atomic!Settles([s \in Steps |-> IF s \in Appended THEN "BLOCKED" ELSE [r \in Steps |-> step[r].status][s]])
      BY <2>6, <2>7, Zenon DEF Atomic!Settles
    <3> QED BY <3>1, <3>2, <3>3, <3>4 DEF Atomic!AppendSteps, Atomic!Settles
  <2> QED BY <2>9 DEF Atomic!AtomicNext
<1> QED BY <1>3, <1>4

(* A cancellation.                                                         *)
LEMMA CancelCommit ==
  ASSUME LocksInv, ChangeInv, NEW c \in Clients, Commit(c), tx[c].run # "same", c[1] = "cancel"
  PROVE  Atomic!AtomicNext
<1>1. PICK x : x = tx[c]
  OBVIOUS
<1>2. /\ Story(c, x, step) /\ ChangeStory(c, x, step, run)
      /\ \A s \in Steps : step'[s] = IF s \in Mine(x) THEN x.mine[s] ELSE step[s]
      /\ run' = x.run
  BY <1>1, CommitFacts
<1>3. x.run = "CANCELED" /\ run \in OpenRun
  BY <1>1, <1>2 DEF ChangeStory
<1>4. ASSUME NEW s \in Steps
      PROVE  step'[s].status = IF step[s].status \in Terminal \cup {"ABSENT"} THEN step[s].status ELSE "CANCELED"
  <2>1. CASE s \in Mine(x)
    <3>1. Swept(x, step, s) /\ step[s].status # "ABSENT"
      BY <1>2, <2>1 DEF ChangeStory, Story, WriteStory, Owns
    <3> QED BY <1>2, <2>1, <3>1 DEF Swept
  <2>2. CASE s \notin Mine(x)
    <3>1. See(x, step)[s] = step[s]
      BY <2>2, SeeRow
    <3>2. step[s].status = "ABSENT"
      BY <1>2, <1>3, <2>2, <3>1 DEF Story, CommitStory, Knows
    <3> QED BY <1>2, <2>2, <3>2
  <2> QED BY <2>1, <2>2
<1>5. [s \in Steps |-> step'[s].status] =
        [s \in Steps |-> IF [r \in Steps |-> step[r].status][s] \in Terminal \cup {"ABSENT"}
                         THEN [r \in Steps |-> step[r].status][s] ELSE "CANCELED"]
  BY <1>4
<1>6. Atomic!CancelRun
  BY <1>2, <1>3, <1>5 DEF Atomic!CancelRun, Atomic!OpenRun, OpenRun, Atomic!Over, Terminal
<1> QED BY <1>6 DEF Atomic!AtomicNext

LEMMA InitIsAtomic == Init => Atomic!AtomicInit
<1> SUFFICES ASSUME Init PROVE Atomic!AtomicInit
  OBVIOUS
<1>1. \A d : Atomic!Prereqs(d) = Prereqs(d) /\ Atomic!ReleasedAs(d) = ReleasedAs(d)
  BY DEF Atomic!Prereqs, Prereqs, Atomic!ReleasedAs, ReleasedAs
<1>2. ASSUME NEW s \in Steps
      PROVE  step[s].status = IF s \in Appended THEN "ABSENT" ELSE IF Prereqs(s) # {} THEN "BLOCKED" ELSE ReleasedAs(s)
  <2>1. CASE s \in Appended
    <3>1. step[s] = Row("ABSENT", 0, 0, FALSE)
      BY <2>1 DEF Init
    <3> QED BY <2>1, <3>1 DEF Row
  <2>2. CASE s \notin Appended /\ Prereqs(s) # {}
    <3>1. PICK n : step[s] = Row("BLOCKED", n, 0, FALSE)
      BY <2>2 DEF Init
    <3> QED BY <2>2, <3>1 DEF Row
  <2>3. CASE s \notin Appended /\ Prereqs(s) = {} /\ s \in External
    <3>1. step[s] = Row("WAITING_FOR_EXTERNAL", 0, 0, FALSE)
      BY <2>3 DEF Init
    <3> QED BY <2>3, <3>1 DEF Row, ReleasedAs
  <2>4. CASE s \notin Appended /\ Prereqs(s) = {} /\ s \notin External
    <3>1. step[s] = Row("ENQUEUED", 0, 0, TRUE)
      BY <2>4 DEF Init
    <3> QED BY <2>4, <3>1 DEF Row, ReleasedAs
  <2> QED BY <2>1, <2>2, <2>3, <2>4
<1>3. [s \in Steps |-> step[s].status] =
        [s \in Steps |-> IF s \in Appended THEN "ABSENT" ELSE IF Atomic!Prereqs(s) # {} THEN "BLOCKED" ELSE Atomic!ReleasedAs(s)]
  BY <1>1, <1>2
<1>4. run = Atomic!RunStatus
  <2>1. DOMAIN step = Steps /\ run = StatusOf(step)
    BY DEF Init
  <2> QED BY <2>1 DEF Atomic!RunStatus, StatusOf
<1> QED BY <1>3, <1>4 DEF Atomic!AtomicInit

LEMMA NextIsAtomic == LocksInv /\ WaitInv /\ ChangeInv /\ [Next]_vars => [Atomic!AtomicNext]_Atomic!avars
<1> SUFFICES ASSUME LocksInv, WaitInv, ChangeInv, [Next]_vars PROVE Atomic!AtomicNext \/ UNCHANGED Atomic!avars
  OBVIOUS
<1>1. CASE UNCHANGED vars
  BY <1>1, NothingChanges DEF vars
<1>2. ASSUME NEW c \in Clients, Step(c) PROVE Atomic!AtomicNext \/ UNCHANGED Atomic!avars
  <2>1. CASE ~Commit(c)
    <3>1. PICK y : Keeps(c, y)
      BY <1>2, <2>1, StepKeeps
    <3>2. step' = step /\ run' = run
      BY <3>1 DEF Keeps
    <3> QED BY <3>2, NothingChanges
  <2>2. CASE Commit(c)
    BY <2>2, ClientKinds, QuietCommit, EndCommit, AppendCommit, CancelCommit
  <2> QED BY <2>1, <2>2
<1> QED BY <1>1, <1>2 DEF Next

(* Every transaction happens at once, at its commit: WorkflowLocks         *)
(* implements AtomicRun, for every workflow graph and every set of         *)
(* clients, however the statements of complete_job, of the external        *)
(* completion, of append_workflow_steps and of the cancellation interleave.*)
THEOREM CommitsAreAtomicHolds == Spec => CommitsAreAtomic
BY InitInv, InitWaits, InitChange, InitIsAtomic, NextInv, NextWaits, NextChange, NextIsAtomic, PTL
   DEF Spec, CommitsAreAtomic, Atomic!AtomicSpec
=============================================================================
