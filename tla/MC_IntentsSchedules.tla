------------------------ MODULE MC_IntentsSchedules ------------------------
(***************************************************************************)
(* Enqueue intents and schedules, whose transactions share no row: each is *)
(* explored by itself, in two cases of its own.                            *)
(***************************************************************************)
EXTENDS EnqueueIntents, Schedules, TLC

CONSTANTS k1, k2, a, b, m

VARIABLE case

-----------------------------------------------------------------------------
(* Intents.                                                                *)

MCCall(k, r, ops, lock) == [key |-> k, request |-> r, ops |-> ops, lock |-> lock]

(* Two clients with two requests compete for one key, beside one promoter, *)
(* over three generations of its job.                                      *)
RaceCalls ==
  { MCCall(k1, a, "record", "NoKeyUpdate"),
    MCCall(k1, a, "record_enqueue", "NoKeyUpdate"),
    MCCall(k1, b, "enqueue", "KeyShare") }

(* Intents of two keys, one of them not decodable, meet in the batches of  *)
(* two promoters.                                                          *)
BatchCalls ==
  { MCCall(k1, a, "record_enqueue", "NoKeyUpdate"),
    MCCall(k1, b, "enqueue", "KeyShare"),
    MCCall(k2, b, "record", "NoKeyUpdate"),
    MCCall(k2, m, "record", "NoKeyUpdate") }

MCCalls == RaceCalls \cup BatchCalls

Open(T) == {t \in T : txn[t].pc # "closed"}
IntentsCase ==
  LET calls == {txn[c].call : c \in Open(Clients)} IN
  CASE case = "race" -> calls \subseteq RaceCalls /\ Cardinality(Open(Promoters)) <= 1
    [] case = "batch" -> /\ calls \subseteq BatchCalls /\ Cardinality(Open(Clients)) <= 1
                         /\ \A t \in Txs : \A k \in DOMAIN txn[t].jw : txn[t].jw[k] # NoRow => txn[t].jw[k].gen = 1

MCSymmetry == Permutations(Clients) \cup Permutations(Promoters)

-----------------------------------------------------------------------------
(* Schedules.                                                              *)

MCJitter == [t \in 0..8 |-> IF t = 3 THEN 2 ELSE IF t = 4 THEN 0 ELSE 1]
MCBases == [c \in Crons |-> IF c = "often" THEN {1, 2, 3, 4, 5} ELSE {2, 5}]

E(n, t, active, c) == [name |-> n, type |-> t, active |-> active, cron |-> c, next |-> 1]
Plain(n, t, active, c) == [kind |-> "plain", entries |-> <<E(n, t, active, c)>>]
Sync(exact, scope, entries) == [kind |-> "sync", exact |-> exact, scope |-> scope, entries |-> entries]
Definitions(enable, scope, preserve) ==
  [kind |-> "definitions", enabled |-> enable, scope |-> scope, preserve |-> preserve]

(* Two administrative sessions and the guard between the tables; two syncs *)
(* write the rows of both schedules, each in its own order.                *)
GuardOperations ==
  {Plain("n1", t, active, "often") : t \in Types, active \in BOOLEAN}
  \cup {Sync(FALSE, {}, <<E("n1", "t1", FALSE, "often"), E("n2", "t2", TRUE, "often")>>),
        Sync(FALSE, {}, <<E("n2", "t1", FALSE, "often"), E("n1", "t1", FALSE, "often")>>),
        Sync(TRUE, {"n1", "n2"}, <<E("n2", "t1", TRUE, "often")>>)}
  \cup {[kind |-> k, name |-> "n1"] : k \in {"activate", "deactivate"}}
  \cup {Definitions([t \in {"t1"} |-> e], {}, FALSE) : e \in BOOLEAN}
  \cup {Definitions([t \in {"t1"} |-> TRUE], {"t1", "t2"}, FALSE), Definitions([t \in Types |-> TRUE], {}, TRUE)}

(* Two schedulers' passes over one schedule, beside an operator.           *)
FireOperations ==
  {SchedulerPass}
  \cup {Plain("n1", "t1", TRUE, c) : c \in Crons}
  \cup {[kind |-> "cursor", name |-> "n1", next |-> 2]}

MCOperations == GuardOperations \cup FireOperations

SchedulesCase ==
  LET ops == {tx[s].op : s \in {s \in Sessions : tx[s].op # None}} IN
  CASE case = "guard" -> ops \subseteq GuardOperations /\ now = 1
    [] case = "fire" -> ops \subseteq FireOperations

-----------------------------------------------------------------------------
MCInit ==
  /\ case \in {"race", "batch", "guard", "fire"}
  /\ IntentsInit /\ (case \in {"guard", "fire"} => enabled)
  /\ Init /\ \A t \in Types : definitions[t] = None \/ case = "guard" \/ (case = "fire" /\ t = "t1")

MCNext ==
  \/ case \in {"race", "batch"} /\ IntentsNext /\ UNCHANGED <<vars, case>> /\ IntentsCase'
  \/ case \in {"guard", "fire"} /\ Next /\ UNCHANGED <<ivars, case>> /\ SchedulesCase'

MCSpec == MCInit /\ [][MCNext]_<<ivars, vars, case>>

=============================================================================
