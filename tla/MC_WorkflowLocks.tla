-------------------------- MODULE MC_WorkflowLocks --------------------------
(* One run, and the clients of it that meet.                               *)
EXTENDS WorkflowLocks

(* Two jobs, a step that waits for both, the window, and a step appended   *)
(* behind the first job.                                                   *)
Fork == {<<1, 3>>, <<2, 3>>, <<1, 5>>}
ForkSuccess == {<<1, 3>>, <<1, 5>>}

(* Two jobs that release a step each.                                      *)
Apart == {<<1, 3>>, <<2, 4>>}

(* Two completions, the append, and the jobs they release; a completion,   *)
(* the append, the job they release and an external completion, while the  *)
(* run is canceled.                                                        *)
Meeting ==
  [fork |-> {<<"job", 1>>, <<"job", 2>>, <<"job", 3>>, <<"job", 5>>, <<"append", 0>>},
   canceled |-> {<<"job", 1>>, <<"job", 5>>, <<"external", 4>>, <<"append", 0>>, <<"cancel", 0>>},
   apart |-> {<<"job", 1>>, <<"job", 2>>}]

CONSTANT Cases   \* the meetings to explore
VARIABLE case    \* the one that is explored

MCClients == UNION {Meeting[m] : m \in Cases}
MCInit == case \in Cases /\ Init
MCNext == (\E c \in Meeting[case] : Step(c)) /\ UNCHANGED case
MCSpec == MCInit /\ [][MCNext]_<<vars, case>>
=============================================================================
