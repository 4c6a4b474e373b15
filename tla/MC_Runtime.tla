----------------------------- MODULE MC_Runtime -----------------------------
(***************************************************************************)
(* The tasks of one runtime: its settlement, its reaper loop and its       *)
(* worker loop.  They share only the stop watch, which each module moves   *)
(* by itself at any time, so each is explored alone: in a behaviour the    *)
(* modules that its case does not name stay in their initial states.       *)
(***************************************************************************)
EXTENDS Settlement, ReaperCallbacks, WorkerCallbacks, TLC

CONSTANT Cases

VARIABLE case

AllResults == {<<"succeed", TRUE>>, <<"continue", FALSE>>, <<"retry", TRUE>>, <<"retry", FALSE>>,
               <<"fail", TRUE>>}
OnlyFailures == {<<"fail", TRUE>>}

MCSymmetry == Permutations(Leases)

(* Stops by the signal and budgets out of range are explored apart from    *)
(* descendants, and the former from callbacks that fail.                   *)
NoDescendants == \A c \in Children : desc[c].st = "unborn"
SignalCase == kind # "none" /\ budget /\ ~prior /\ ~callbacks /\ NoDescendants

SettlementCase ==
  CASE case = "settle" -> kind = "none" /\ (budget \/ NoDescendants)
    [] case = "signal" -> SignalCase
    [] case = "deadline" -> kind = "none" /\ ~prior /\ ~callbacks
    [] OTHER -> kind = "none" /\ budget

(* Of the two kinds of callbacks of the reaper only hooks fail.            *)
ReaperCase ==
  \A j \in Jobs : task[Watcher(j)].result \in {"none", "completed", "cancelled"} /\ ~task[Watcher(j)].broke

(* Of two jobs one fails or loses its heartbeat, beside one that may also  *)
(* have another result or lose its lease to the reaper.                    *)
WorkerCase ==
  Cardinality({l \in Leases : lease[l] = "reaped" \/ exec[l].do \notin {"none", "fail"}}) <= 1

MCInit ==
  /\ case \in Cases
  /\ SettlementInit /\ SettlementCase
  /\ ReaperInit
  /\ WorkerInit

MCNext ==
  \/ case \in {"settle", "signal", "deadline"} /\ SettlementNext
     /\ UNCHANGED <<rvars, wvars, case>> /\ SettlementCase'
  \/ case = "reaper" /\ ReaperNext /\ UNCHANGED <<svars, wvars, case>> /\ ReaperCase'
  \/ case = "worker" /\ WorkerNext /\ UNCHANGED <<svars, rvars, case>> /\ WorkerCase'

MCSpec == MCInit /\ [][MCNext]_<<svars, rvars, wvars, case>>

(* The fairness of the three modules, each in the case that moves it.      *)
MCFairSpec ==
  /\ MCSpec
  /\ WF_svars(case = "deadline" /\ OwnerStep)
  /\ WF_svars(case = "deadline" /\ Publish)
  /\ WF_svars(case = "deadline" /\ Tick)
  /\ WF_rvars(case = "reaper" /\ ReaperStep)
  /\ \A j \in Jobs \ Blocking : WF_rvars(case = "reaper" /\ CallbackStep(Hook(j)))
  /\ WF_wvars(case = "worker" /\ WorkerStep)
  /\ \A l \in Leases : WF_wvars(case = "worker" /\ JobStep(l)) /\ WF_wvars(case = "worker" /\ JoinStep(l))
  /\ \A l \in Leases \ BlockingLeases : WF_wvars(case = "worker" /\ ObserverStep(l))

-----------------------------------------------------------------------------
(* A stop ends: in a report once its deadlines have passed, even if no     *)
(* task ever ends, and with the reaper's and the worker's loops exited     *)
(* even if their callbacks never yield.                                    *)
StopsEnd ==
  /\ StopsAreReported
  /\ StopEndsTheReaper
  /\ StopEndsTheWorker

(* A dead letter that the reaper or a worker committed has its hook        *)
(* started, although other hooks block and observers are full, unless a    *)
(* stop comes first.                                                       *)
DeadLettersReachTheirHooks ==
  /\ DeadLettersAreHandled
  /\ ConfirmedDeadLettersAreHooked
=============================================================================
