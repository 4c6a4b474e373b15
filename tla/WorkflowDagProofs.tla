-------------------------- MODULE WorkflowDagProofs --------------------------
(***************************************************************************)
(* Proofs about the builders of workflows and their validation: the cycle  *)
(* search finds exactly the graphs in which a set of steps waits for       *)
(* itself, for workflows of every size, and what is persisted stays sound  *)
(* over every sequence of appends.                                         *)
(***************************************************************************)
EXTENDS WorkflowDag, FiniteSetTheorems, NaturalsInduction, WellFoundedInduction, TLAPS

(* Steps as clients build them: only three of the settings have values     *)
(* that are not acceptable.                                                *)
Steps ==
  [key : Keys \cup {Blank}, kind : {"JOB", "EXTERNAL"}, job_type : JobTypes \cup {"none"},
   deps : Seq([on : Keys \cup {Blank}, mode : Modes]),
   set : {set \in [Settings -> {"none", "ok", "bad"}] :
            \A f \in Settings : set[f] = "bad" => f \in {"max_attempts", "timeout_seconds", "execution_resource_key"}}]

-----------------------------------------------------------------------------
(* Finding the first error.                                                *)

(* A set of numbers has a least member.                                    *)
LEMMA LeastMember ==
  ASSUME NEW S \in SUBSET Nat, S # {}
  PROVE  Min(S) \in S /\ \A x \in S : Min(S) <= x
<1> DEFINE R == OpToRel(<, Nat)
<1>1. IsWellFoundedOn(R, Nat)
  BY NatLessThanWellFounded
<1>2. \A x, y \in Nat : x < y => <<x, y>> \in R
  BY DEF OpToRel
<1> HIDE DEF R
<1>3. PICK x \in S : \A y \in S : ~(<<y, x>> \in R)
  BY <1>1, WFMin
<1>4. ASSUME NEW y \in S PROVE x <= y
  <2>1. x \in Nat /\ y \in Nat
    OBVIOUS
  <2>2. ~(y < x)
    BY <1>2, <1>3, <2>1, Zenon
  <2> QED BY <2>1, <2>2
<1> QED BY <1>4 DEF Min

(* FirstOf answers with a check that failed although those before it did   *)
(* not, and with Ok when none failed.                                      *)
LEMMA FirstOfChecks ==
  ASSUME NEW checks, DOMAIN checks \subseteq Nat
  PROVE  \/ FirstOf(checks) = Ok /\ \A i \in DOMAIN checks : checks[i] = Ok
         \/ /\ FirstOf(checks) # Ok
            /\ \E i \in DOMAIN checks :
                 /\ FirstOf(checks) = checks[i] /\ checks[i] # Ok
                 /\ \A h \in DOMAIN checks : h < i => checks[h] = Ok
<1> DEFINE wrong == {i \in DOMAIN checks : checks[i] # Ok}
<1>1. CASE wrong = {}
  BY <1>1 DEF FirstOf
<1>2. CASE wrong # {}
  <2>1. wrong \in SUBSET Nat
    OBVIOUS
  <2>2. Min(wrong) \in wrong /\ \A x \in wrong : Min(wrong) <= x
    BY <1>2, <2>1, LeastMember, Zenon
  <2>3. FirstOf(checks) = checks[Min(wrong)]
    BY <1>2 DEF FirstOf
  <2> HIDE DEF wrong
  <2>4. PICK i : i = Min(wrong)
    OBVIOUS
  <2>5. i \in wrong /\ (\A x \in wrong : i <= x) /\ FirstOf(checks) = checks[i]
    BY <2>2, <2>3, <2>4, Zenon
  <2>6. i \in DOMAIN checks /\ checks[i] # Ok
    BY <2>5 DEF wrong
  <2>7. \A h \in DOMAIN checks : h < i => checks[h] = Ok
    BY <2>5, <2>6, <2>1 DEF wrong
  <2> QED BY <2>5, <2>6, <2>7, Zenon
<1> QED BY <1>1, <1>2

LEMMA FirstOfTwo ==
  ASSUME NEW a, NEW b
  PROVE  FirstOf(<<a, b>>) = IF a # Ok THEN a ELSE b
<1> DEFINE c == <<a, b>>
<1>1. DOMAIN c = {1, 2} /\ c[1] = a /\ c[2] = b
  OBVIOUS
<1> HIDE DEF c
<1>2. DOMAIN c \subseteq Nat
  BY <1>1
<1>3. FirstOf(c) = IF a # Ok THEN a ELSE b
  <2>1. CASE FirstOf(c) = Ok /\ \A i \in DOMAIN c : c[i] = Ok
    BY <1>1, <2>1
  <2>2. CASE FirstOf(c) # Ok
    <3>1. PICK i \in DOMAIN c : FirstOf(c) = c[i] /\ c[i] # Ok /\ \A h \in DOMAIN c : h < i => c[h] = Ok
      BY <1>2, <2>2, FirstOfChecks
    <3>2. \/ i = 1
          \/ i = 2 /\ c[1] = Ok
      BY <1>1, <3>1
    <3> QED BY <1>1, <3>1, <3>2
  <2> QED BY <1>2, <2>1, <2>2, FirstOfChecks
<1> QED BY <1>3 DEF c

LEMMA FirstOfThree ==
  ASSUME NEW a, NEW b, NEW d
  PROVE  FirstOf(<<a, b, d>>) = IF a # Ok THEN a ELSE IF b # Ok THEN b ELSE d
<1> DEFINE c == <<a, b, d>>
<1>1. DOMAIN c = {1, 2, 3} /\ c[1] = a /\ c[2] = b /\ c[3] = d
  OBVIOUS
<1> HIDE DEF c
<1>2. DOMAIN c \subseteq Nat
  BY <1>1
<1>3. FirstOf(c) = IF a # Ok THEN a ELSE IF b # Ok THEN b ELSE d
  <2>1. CASE FirstOf(c) = Ok /\ \A i \in DOMAIN c : c[i] = Ok
    BY <1>1, <2>1
  <2>2. CASE FirstOf(c) # Ok
    <3>1. PICK i \in DOMAIN c : FirstOf(c) = c[i] /\ c[i] # Ok /\ \A h \in DOMAIN c : h < i => c[h] = Ok
      BY <1>2, <2>2, FirstOfChecks
    <3>2. \/ i = 1
          \/ i = 2 /\ c[1] = Ok
          \/ i = 3 /\ c[1] = Ok /\ c[2] = Ok
      BY <1>1, <3>1
    <3> QED BY <1>1, <3>1, <3>2
  <2> QED BY <1>2, <2>1, <2>2, FirstOfChecks
<1> QED BY <1>3 DEF c

LEMMA FirstOfFour ==
  ASSUME NEW a, NEW b, NEW d, NEW e
  PROVE  FirstOf(<<a, b, d, e>>) = IF a # Ok THEN a ELSE IF b # Ok THEN b ELSE IF d # Ok THEN d ELSE e
<1> DEFINE c == <<a, b, d, e>>
<1>1. DOMAIN c = {1, 2, 3, 4} /\ c[1] = a /\ c[2] = b /\ c[3] = d /\ c[4] = e
  OBVIOUS
<1> HIDE DEF c
<1>2. DOMAIN c \subseteq Nat
  BY <1>1
<1>3. FirstOf(c) = IF a # Ok THEN a ELSE IF b # Ok THEN b ELSE IF d # Ok THEN d ELSE e
  <2>1. CASE FirstOf(c) = Ok /\ \A i \in DOMAIN c : c[i] = Ok
    BY <1>1, <2>1
  <2>2. CASE FirstOf(c) # Ok
    <3>1. PICK i \in DOMAIN c : FirstOf(c) = c[i] /\ c[i] # Ok /\ \A h \in DOMAIN c : h < i => c[h] = Ok
      BY <1>2, <2>2, FirstOfChecks
    <3>2. \/ i = 1
          \/ i = 2 /\ c[1] = Ok
          \/ i = 3 /\ c[1] = Ok /\ c[2] = Ok
          \/ i = 4 /\ c[1] = Ok /\ c[2] = Ok /\ c[3] = Ok
      BY <1>1, <3>1
    <3> QED BY <1>1, <3>1, <3>2
  <2> QED BY <1>2, <2>1, <2>2, FirstOfChecks
<1> QED BY <1>3 DEF c
LEMMA FirstOfSeven ==
  ASSUME NEW a, NEW b, NEW d, NEW e, NEW f, NEW g, NEW j
  PROVE  FirstOf(<<a, b, d, e, f, g, j>>) =
           IF a # Ok THEN a ELSE IF b # Ok THEN b ELSE IF d # Ok THEN d ELSE IF e # Ok THEN e ELSE 
           IF f # Ok THEN f ELSE IF g # Ok THEN g ELSE j
<1> DEFINE c == <<a, b, d, e, f, g, j>>
<1>1. DOMAIN c = {1, 2, 3, 4, 5, 6, 7} /\ c[1] = a /\ c[2] = b /\ c[3] = d /\ c[4] = e /\ c[5] = f /\ c[6] = g /\ c[7] = j
  OBVIOUS
<1> HIDE DEF c
<1>2. DOMAIN c \subseteq Nat
  BY <1>1
<1>3. FirstOf(c) = IF a # Ok THEN a ELSE IF b # Ok THEN b ELSE IF d # Ok THEN d ELSE IF e # Ok THEN e ELSE 
                   IF f # Ok THEN f ELSE IF g # Ok THEN g ELSE j
  <2>1. CASE FirstOf(c) = Ok /\ \A i \in DOMAIN c : c[i] = Ok
    BY <1>1, <2>1
  <2>2. CASE FirstOf(c) # Ok
    <3>1. PICK i \in DOMAIN c : FirstOf(c) = c[i] /\ c[i] # Ok /\ \A h \in DOMAIN c : h < i => c[h] = Ok
      BY <1>2, <2>2, FirstOfChecks
    <3>2. \/ i = 1
          \/ i = 2 /\ c[1] = Ok
          \/ i = 3 /\ c[1] = Ok /\ c[2] = Ok
          \/ i = 4 /\ c[1] = Ok /\ c[2] = Ok /\ c[3] = Ok
          \/ i = 5 /\ c[1] = Ok /\ c[2] = Ok /\ c[3] = Ok /\ c[4] = Ok
          \/ i = 6 /\ c[1] = Ok /\ c[2] = Ok /\ c[3] = Ok /\ c[4] = Ok /\ c[5] = Ok
          \/ i = 7 /\ c[1] = Ok /\ c[2] = Ok /\ c[3] = Ok /\ c[4] = Ok /\ c[5] = Ok /\ c[6] = Ok
      BY <1>1, <3>1
    <3> QED BY <1>1, <3>1, <3>2
  <2> QED BY <1>2, <2>1, <2>2, FirstOfChecks
<1> QED BY <1>3 DEF c

-----------------------------------------------------------------------------
(* The cycle search.                                                       *)

(* The search of a list of n steps, as the function is_acyclic computes.   *)
Turns(steps, n, f) ==
  f = [k \in 0..n |-> IF k = 0 THEN SearchStart(steps) ELSE Visit(steps, f[k - 1])]

(* Any number of turns of the loop can be taken.                           *)
LEMMA TurnsExist ==
  ASSUME NEW steps, NEW n \in Nat
  PROVE  \E f : Turns(steps, n, f)
<1> DEFINE Bad == {k \in Nat : ~\E f : Turns(steps, k, f)}
<1> SUFFICES ASSUME Bad # {} PROVE FALSE
  OBVIOUS
<1>1. PICK k \in Bad : \A h \in Bad : k <= h
  BY LeastMember
<1>2. k \in Nat /\ ~\E f : Turns(steps, k, f)
  OBVIOUS
<1>3. CASE k = 0
  <2>1. PICK f : f = [j \in 0..0 |-> SearchStart(steps)]
    OBVIOUS
  <2>2. f = [j \in 0..0 |-> IF j = 0 THEN SearchStart(steps) ELSE Visit(steps, f[j - 1])]
    BY <2>1
  <2> QED BY <1>2, <1>3, <2>2 DEF Turns
<1>4. CASE k # 0
  <2>1. k - 1 \in Nat /\ k - 1 \notin Bad
    BY <1>1, <1>2, <1>4
  <2>2. PICK g : Turns(steps, k - 1, g)
    BY <2>1
  <2>3. PICK f : f = [j \in 0..k |-> IF j < k THEN g[j] ELSE Visit(steps, g[k - 1])]
    OBVIOUS
  <2>4. ASSUME NEW j \in 0..k
        PROVE  f[j] = IF j = 0 THEN SearchStart(steps) ELSE Visit(steps, f[j - 1])
    <3>1. \A i \in 0..(k - 1) : g[i] = IF i = 0 THEN SearchStart(steps) ELSE Visit(steps, g[i - 1])
      BY <2>2 DEF Turns
    <3>2. \A i \in 0..(k - 1) : f[i] = g[i]
      BY <1>2, <2>3
    <3>3. CASE j < k
      BY <1>2, <3>1, <3>2, <3>3
    <3>4. CASE j = k
      <4>1. f[k] = Visit(steps, g[k - 1]) /\ f[k - 1] = g[k - 1]
        BY <1>2, <1>4, <2>3
      <4> QED BY <1>4, <3>4, <4>1
    <3> QED BY <1>2, <3>3, <3>4
  <2>5. Turns(steps, k, f)
    BY <2>3, <2>4 DEF Turns
  <2> QED BY <1>2, <2>5
<1> QED BY <1>3, <1>4

(* Search is the result of as many turns as there are steps.               *)
LEMMA SearchTurns ==
  ASSUME NEW steps, Len(steps) \in Nat
  PROVE  \E f : Turns(steps, Len(steps), f) /\ Search(steps) = f[Len(steps)]
BY TurnsExist DEF Search, Turns

(* A set of steps that have been visited: the counts are those of the      *)
(* edges that are left, a step is ready when none is left, and no set of   *)
(* visited steps waits for itself.                                         *)
Visited(steps, s, V) ==
  /\ V \subseteq DOMAIN steps
  /\ s = [indegree |-> [i \in DOMAIN steps |-> Cardinality(Prerequisites(steps, i) \ V)],
          ready |-> {i \in DOMAIN steps \ V : Prerequisites(steps, i) \subseteq V},
          visited |-> Cardinality(V)]
  /\ \A i \in V : Prerequisites(steps, i) \subseteq V
  /\ \A set \in (SUBSET V) \ {{}} : \E i \in set : Prerequisites(steps, i) \cap set = {}

LEMMA NoEdgesLeft ==
  ASSUME NEW steps \in Seq(Steps), NEW i, NEW V
  PROVE  /\ IsFiniteSet(Prerequisites(steps, i) \ V)
         /\ Cardinality(Prerequisites(steps, i) \ V) \in Nat
         /\ (Cardinality(Prerequisites(steps, i) \ V) = 0) <=> (Prerequisites(steps, i) \subseteq V)
<1>1. Len(steps) \in Nat /\ DOMAIN steps = 1..Len(steps)
  OBVIOUS
<1>2. Prerequisites(steps, i) \ V \subseteq 1..Len(steps)
  BY <1>1 DEF Prerequisites
<1>3. IsFiniteSet(Prerequisites(steps, i) \ V)
  <2>1. IsFiniteSet(1..Len(steps))
    BY <1>1, FS_Interval
  <2> QED BY <1>2, <2>1, FS_Subset
<1>4. Cardinality(Prerequisites(steps, i) \ V) \in Nat
  BY <1>3, FS_CardinalityType
<1>5. (Cardinality(Prerequisites(steps, i) \ V) = 0) <=> (Prerequisites(steps, i) \ V = {})
  BY <1>3, FS_EmptySet
<1> QED BY <1>3, <1>4, <1>5

(* The search starts with nothing visited, ...                             *)
LEMMA SearchStarts ==
  ASSUME NEW steps \in Seq(Steps)
  PROVE  Visited(steps, SearchStart(steps), {})
<1>1. \A i : Prerequisites(steps, i) \ {} = Prerequisites(steps, i)
  OBVIOUS
<1>2. ASSUME NEW i
      PROVE  (Cardinality(Prerequisites(steps, i)) = 0) <=> (Prerequisites(steps, i) \subseteq {})
  <2>1. (Cardinality(Prerequisites(steps, i) \ {}) = 0) <=> (Prerequisites(steps, i) \subseteq {})
    BY NoEdgesLeft
  <2> QED BY <1>1, <2>1
<1>3. Cardinality({}) = 0
  BY FS_EmptySet
<1>4. {i \in DOMAIN steps : [j \in DOMAIN steps |-> Cardinality(Prerequisites(steps, j))][i] = 0}
        = {i \in DOMAIN steps \ {} : Prerequisites(steps, i) \subseteq {}}
  BY <1>2
<1>5. [j \in DOMAIN steps |-> Cardinality(Prerequisites(steps, j))]
        = [i \in DOMAIN steps |-> Cardinality(Prerequisites(steps, i) \ {})]
  BY <1>1
<1>6. SearchStart(steps) = [indegree |-> [i \in DOMAIN steps |-> Cardinality(Prerequisites(steps, i) \ {})],
          ready |-> {i \in DOMAIN steps \ {} : Prerequisites(steps, i) \subseteq {}},
          visited |-> Cardinality({})]
  BY <1>3, <1>4, <1>5 DEF SearchStart
<1> QED BY <1>6 DEF Visited

(* ... a turn of the loop visits one more step, or finds none ready, ...   *)
LEMMA VisitOne ==
  ASSUME NEW steps \in Seq(Steps), NEW s, NEW V, Visited(steps, s, V)
  PROVE  \/ s.ready = {} /\ Visit(steps, s) = s
         \/ \E p \in DOMAIN steps \ V : Visited(steps, Visit(steps, s), V \cup {p})
<1> DEFINE Pre(i) == Prerequisites(steps, i)
           p == CHOOSE q \in s.ready : TRUE
           W == V \cup {p}
           next == {i \in DOMAIN steps : p \in Pre(i)}
           left == [i \in DOMAIN steps |-> IF i \in next THEN s.indegree[i] - 1 ELSE s.indegree[i]]
           more == (s.ready \ {p}) \cup {i \in next : left[i] = 0}
<1>0. /\ V \subseteq DOMAIN steps
      /\ \A i \in DOMAIN steps : s.indegree[i] = Cardinality(Pre(i) \ V)
      /\ s.ready = {i \in DOMAIN steps \ V : Pre(i) \subseteq V}
      /\ s.visited = Cardinality(V)
      /\ \A i \in V : Pre(i) \subseteq V
      /\ \A set \in (SUBSET V) \ {{}} : \E i \in set : Pre(i) \cap set = {}
  BY DEF Visited
<1>1. CASE s.ready = {}
  BY <1>1 DEF Visit
<1>2. CASE s.ready # {}
  <2>1. p \in s.ready
    BY <1>2
  <2>2. Visit(steps, s) = [indegree |-> left, ready |-> more, visited |-> s.visited + 1]
    BY <1>2 DEF Visit
  <2> HIDE DEF p, Pre
  <2>3. p \in DOMAIN steps /\ p \notin V /\ Pre(p) \subseteq V
    BY <1>0, <2>1
  <2>4. ASSUME NEW i \in DOMAIN steps
        PROVE  /\ left[i] = Cardinality(Pre(i) \ W)
               /\ (left[i] = 0) <=> (Pre(i) \subseteq W)
    <3>1. Pre(i) \ W = (Pre(i) \ V) \ {p}
      OBVIOUS
    <3>2. IsFiniteSet(Pre(i) \ V)
      BY NoEdgesLeft DEF Pre
    <3>3. Cardinality(Pre(i) \ W) =
            IF p \in Pre(i) \ V THEN Cardinality(Pre(i) \ V) - 1 ELSE Cardinality(Pre(i) \ V)
      BY ZenonT(40), <3>1, <3>2, FS_RemoveElement
    <3>4. left[i] = Cardinality(Pre(i) \ W)
      BY <1>0, <2>3, <3>3
    <3>5. (Cardinality(Pre(i) \ W) = 0) <=> (Pre(i) \subseteq W)
      BY NoEdgesLeft DEF Pre
    <3> QED BY <3>4, <3>5
  <2>5. left = [i \in DOMAIN steps |-> Cardinality(Pre(i) \ W)]
    BY <2>4
  <2>6. more = {i \in DOMAIN steps \ W : Pre(i) \subseteq W}
    <3>1. ASSUME NEW i \in DOMAIN steps
          PROVE  i \in more <=> (i \notin W /\ Pre(i) \subseteq W)
      <4>1. CASE p \in Pre(i)
        <5>1. i \notin V /\ i # p
          BY <1>0, <2>3, <4>1
        <5>2. i \notin s.ready
          BY <1>0, <2>3, <4>1
        <5> QED BY <2>4, <4>1, <5>1, <5>2
      <4>2. CASE p \notin Pre(i)
        <5>1. Pre(i) \subseteq W <=> Pre(i) \subseteq V
          BY <4>2
        <5>2. i \in more <=> i \in s.ready /\ i # p
          BY <4>2
        <5> QED BY <1>0, <5>1, <5>2
      <4> QED BY <4>1, <4>2
    <3>2. more \subseteq DOMAIN steps
      BY <1>0
    <3> QED BY <3>1, <3>2
  <2>7. s.visited + 1 = Cardinality(W)
    <3>1. IsFiniteSet(V)
      <4>1. IsFiniteSet(1..Len(steps)) /\ DOMAIN steps = 1..Len(steps)
        BY FS_Interval
      <4> QED BY <1>0, <4>1, FS_Subset
    <3> QED BY <1>0, <2>3, <3>1, FS_AddElement
  <2>8. W \subseteq DOMAIN steps /\ \A i \in W : Pre(i) \subseteq W
    BY <1>0, <2>3
  <2>9. ASSUME NEW set \in (SUBSET W) \ {{}}
        PROVE  \E i \in set : Pre(i) \cap set = {}
    <3>1. CASE set \cap V = {}
      BY <2>3, <3>1
    <3>2. CASE set \cap V # {}
      <4>1. PICK i \in set \cap V : Pre(i) \cap (set \cap V) = {}
        BY <1>0, <3>2
      <4> QED BY <1>0, <4>1
    <3> QED BY <3>1, <3>2
  <2>10. Visited(steps, Visit(steps, s), W)
    <3>1. Visit(steps, s) = [indegree |-> [i \in DOMAIN steps |-> Cardinality(Pre(i) \ W)],
                             ready |-> {i \in DOMAIN steps \ W : Pre(i) \subseteq W},
                             visited |-> Cardinality(W)]
      BY <2>2, <2>5, <2>6, <2>7, Zenon
    <3> QED BY <2>8, <2>9, <3>1 DEF Visited, Pre
  <2> QED BY <2>3, <2>10
<1> QED BY <1>1, <1>2

(* ... and at the end every step has been visited or none is ready.        *)
LEMMA SearchEnds ==
  ASSUME NEW steps \in Seq(Steps)
  PROVE  \E V : /\ Visited(steps, Search(steps), V)
                /\ Search(steps).ready = {} \/ Cardinality(V) = Len(steps)
<1>1. PICK f : Turns(steps, Len(steps), f) /\ Search(steps) = f[Len(steps)]
  BY SearchTurns
<1>2. Len(steps) \in Nat
  OBVIOUS
<1>3. f[0] = SearchStart(steps) /\ \A k \in 1..Len(steps) : f[k] = Visit(steps, f[k - 1])
  BY <1>1, <1>2 DEF Turns
<1> DEFINE Good(k) == \E V : Visited(steps, f[k], V) /\ (f[k].ready = {} \/ Cardinality(V) = k)
           Bad == {k \in 0..Len(steps) : ~Good(k)}
<1>4. Bad = {}
  <2> SUFFICES ASSUME Bad # {} PROVE FALSE
    OBVIOUS
  <2>1. Bad \in SUBSET Nat
    OBVIOUS
  <2>2. PICK k \in Bad : \A h \in Bad : k <= h
    BY <2>1, LeastMember
  <2>3. k \in 0..Len(steps) /\ ~Good(k)
    OBVIOUS
  <2>4. k # 0
    <3>1. Visited(steps, SearchStart(steps), {}) /\ Cardinality({}) = 0
      BY SearchStarts, FS_EmptySet
    <3> QED BY <1>3, <2>3, <3>1, Zenon
  <2>5. k - 1 \in 0..Len(steps) /\ k - 1 \notin Bad /\ k \in 1..Len(steps)
    BY <1>2, <2>2, <2>3, <2>4
  <2>6. PICK V : Visited(steps, f[k - 1], V) /\ (f[k - 1].ready = {} \/ Cardinality(V) = k - 1)
    BY <2>5
  <2>7. f[k] = Visit(steps, f[k - 1])
    BY <1>3, <2>5
  <2>8. CASE f[k - 1].ready = {} /\ Visit(steps, f[k - 1]) = f[k - 1]
    BY <2>3, <2>6, <2>7, <2>8
  <2>9. ASSUME NEW p \in DOMAIN steps \ V, Visited(steps, Visit(steps, f[k - 1]), V \cup {p}), f[k - 1].ready # {}
        PROVE  FALSE
    <3>1. IsFiniteSet(V)
      <4>1. IsFiniteSet(1..Len(steps)) /\ DOMAIN steps = 1..Len(steps)
        BY FS_Interval
      <4> QED BY <2>6, <4>1, FS_Subset DEF Visited
    <3>2. Cardinality(V \cup {p}) = k
      <4>1. Cardinality(V) = k - 1
        BY <2>6, <2>9
      <4>2. Cardinality(V \cup {p}) = Cardinality(V) + 1
        BY <3>1, FS_AddElement
      <4> QED BY <2>3, <4>1, <4>2
    <3> QED BY <2>3, <2>7, <2>9, <3>2
  <2>10. f[k - 1].ready = {} => Visit(steps, f[k - 1]) = f[k - 1]
    BY DEF Visit
  <2> QED BY <2>6, <2>8, <2>9, <2>10, VisitOne
<1>5. Good(Len(steps))
  BY <1>2, <1>4
<1> QED BY <1>1, <1>5

(* The search tells exactly the graphs in which no set of steps waits for  *)
(* itself: is_acyclic, for lists of every length.                          *)
THEOREM CycleSearchIsExact ==
  ASSUME NEW steps \in Seq(Steps)
  PROVE  IsAcyclic(steps) <=> WellFounded(steps)
<1> DEFINE Pre(i) == Prerequisites(steps, i)
<1>1. PICK V : /\ Visited(steps, Search(steps), V)
               /\ Search(steps).ready = {} \/ Cardinality(V) = Len(steps)
  BY SearchEnds
<1>2. /\ V \subseteq DOMAIN steps
      /\ Search(steps).ready = {i \in DOMAIN steps \ V : Pre(i) \subseteq V}
      /\ Search(steps).visited = Cardinality(V)
      /\ \A set \in (SUBSET V) \ {{}} : \E i \in set : Pre(i) \cap set = {}
  BY <1>1 DEF Visited
<1>3. WellFounded(steps) <=>
        \A set \in (SUBSET DOMAIN steps) \ {{}} : \E i \in set : Pre(i) \cap set = {}
  BY ZenonT(40) DEF WellFounded, Prerequisites
<1>4. IsFiniteSet(1..Len(steps)) /\ Cardinality(1..Len(steps)) = Len(steps) /\ DOMAIN steps = 1..Len(steps)
  <2>1. Len(steps) \in Nat /\ DOMAIN steps = 1..Len(steps) /\ 1 \in Int
    OBVIOUS
  <2>2. IsFiniteSet(1..Len(steps))
        /\ Cardinality(1..Len(steps)) = IF 1 > Len(steps) THEN 0 ELSE Len(steps) - 1 + 1
    BY <2>1, FS_Interval
  <2> QED BY <2>1, <2>2
<1>5. Cardinality(V) = Len(steps) <=> V = DOMAIN steps
  BY <1>2, <1>4, FS_Subset
<1>6. IsAcyclic(steps) <=> V = DOMAIN steps
  BY <1>2, <1>5 DEF IsAcyclic
<1> HIDE DEF Pre
<1>7. ASSUME V # DOMAIN steps PROVE ~WellFounded(steps)
  <2>1. Search(steps).ready = {}
    BY <1>1, <1>5, <1>7
  <2>2. DOMAIN steps \ V \in (SUBSET DOMAIN steps) \ {{}}
    BY <1>2, <1>7
  <2>3. \A i \in DOMAIN steps \ V : Pre(i) \cap (DOMAIN steps \ V) # {}
    <3>1. \A i : Pre(i) \subseteq DOMAIN steps
      BY DEF Pre, Prerequisites
    <3> QED BY <1>2, <2>1, <3>1
  <2> QED BY <1>3, <2>2, <2>3, Zenon
<1> QED BY <1>2, <1>3, <1>6, <1>7

-----------------------------------------------------------------------------
(* The checks of a step.                                                   *)

ShapeErrors ==
  {"BlankStepKey", "BlankStepJobType", "NonPositiveStepMaxAttempts", "NonPositiveStepTimeoutSeconds",
   "InvalidStepExecutionResourceKey", "ExternalStepJobTypeNotAllowed", "ExternalStepQueueSettingsNotAllowed"}

(* validate_step_shape accepts the well-formed steps, and its error names  *)
(* the step.                                                               *)
LEMMA StepShapeIsExact ==
  ASSUME NEW s \in Steps
  PROVE  \/ StepShape(s) = Ok /\ WellFormed(s)
         \/ /\ StepShape(s) # Ok /\ ~WellFormed(s)
            /\ StepShape(s).is \in ShapeErrors /\ StepShape(s).step = s.key
<1>1. /\ s.key \in Keys \cup {Blank} /\ s.kind \in {"JOB", "EXTERNAL"}
      /\ \A f \in Settings :
           /\ s.set[f] \in {"none", "ok", "bad"}
           /\ s.set[f] = "bad" => f \in {"max_attempts", "timeout_seconds", "execution_resource_key"}
  BY DEF Steps
<1>2. s.key \in Keys <=> s.key # Blank
  BY <1>1, DagAssumption
<1>4. PICK a, b, c, d, e :
        /\ a = Check(s.key = Blank, "BlankStepKey", s.key)
        /\ b = Check(s.job_type \in {"none", Blank}, "BlankStepJobType", s.key)
        /\ c = Check(Has(s, "max_attempts", "bad"), "NonPositiveStepMaxAttempts", s.key)
        /\ d = Check(Has(s, "timeout_seconds", "bad"), "NonPositiveStepTimeoutSeconds", s.key)
        /\ e = Check(Has(s, "execution_resource_key", "bad"), "InvalidStepExecutionResourceKey", s.key)
  OBVIOUS
<1>5. PICK g, h :
        /\ g = Check(s.job_type # "none", "ExternalStepJobTypeNotAllowed", s.key)
        /\ h = Check(\E f \in Settings : s.set[f] # "none", "ExternalStepQueueSettingsNotAllowed", s.key)
  OBVIOUS
<1> DEFINE Fits(x) == x # Ok => x.is \in ShapeErrors /\ x.step = s.key
<1>6. /\ a = Ok <=> s.key \in Keys
      /\ b = Ok <=> s.job_type \notin {"none", Blank}
      /\ c = Ok <=> ~Has(s, "max_attempts", "bad")
      /\ d = Ok <=> ~Has(s, "timeout_seconds", "bad")
      /\ e = Ok <=> ~Has(s, "execution_resource_key", "bad")
      /\ Fits(a) /\ Fits(b) /\ Fits(c) /\ Fits(d) /\ Fits(e)
  BY <1>2, <1>4 DEF Check, Ok, ShapeErrors
<1>7. /\ g = Ok <=> s.job_type = "none"
      /\ h = Ok <=> \A f \in Settings : s.set[f] = "none"
      /\ Fits(g) /\ Fits(h)
  BY <1>5 DEF Check, Ok, ShapeErrors
<1>8. (~Has(s, "max_attempts", "bad") /\ ~Has(s, "timeout_seconds", "bad") /\ ~Has(s, "execution_resource_key", "bad"))
        <=> \A f \in Settings : s.set[f] # "bad"
  BY <1>1 DEF Has
<1>9. StepShape(s) = FirstOf(<<a, IF s.kind = "JOB" THEN FirstOf(<<b, c, d, e>>) ELSE FirstOf(<<g, h>>)>>)
  BY <1>4, <1>5, Zenon DEF StepShape
<1>10. PICK x : x = IF s.kind = "JOB" THEN FirstOf(<<b, c, d, e>>) ELSE FirstOf(<<g, h>>)
  OBVIOUS
<1>11. StepShape(s) = IF a # Ok THEN a ELSE x
  BY <1>9, <1>10, FirstOfTwo
<1>12. x = IF s.kind = "JOB" THEN IF b # Ok THEN b ELSE IF c # Ok THEN c ELSE IF d # Ok THEN d ELSE e
          ELSE IF g # Ok THEN g ELSE h
  BY <1>10, FirstOfTwo, FirstOfFour
<1>13. Fits(x) /\ (x = Ok <=> IF s.kind = "JOB"
                   THEN s.job_type \notin {"none", Blank} /\ \A f \in Settings : s.set[f] # "bad"
                   ELSE s.job_type = "none" /\ \A f \in Settings : s.set[f] = "none")
  BY <1>6, <1>7, <1>8, <1>12
<1> QED BY <1>6, <1>11, <1>13 DEF WellFormed

(* validate_step_dependency_shape: its error is the dependency's.          *)
LEMMA DependencyShapeIsExact ==
  ASSUME NEW s, NEW i
  PROVE  \/ /\ DependencyShape(s, i) = Ok
            /\ s.deps[i].on # Blank /\ s.deps[i].on # s.key
            /\ ~\E h \in 1..(i - 1) : s.deps[h].on = s.deps[i].on
         \/ /\ DependencyShape(s, i) # Ok /\ DependencyShape(s, i).step = s.key
            /\ \/ DependencyShape(s, i).is = "BlankDependencyStepKey" /\ s.deps[i].on = Blank
               \/ DependencyShape(s, i).is = "SelfDependency" /\ s.deps[i].on = s.key
               \/ /\ DependencyShape(s, i).is = "DuplicateDependency"
                  /\ \E h \in 1..(i - 1) : s.deps[h].on = s.deps[i].on
<1>1. PICK a, b, c :
        /\ a = Check(s.deps[i].on = Blank, "BlankDependencyStepKey", s.key)
        /\ b = Check(s.deps[i].on = s.key, "SelfDependency", s.key)
        /\ c = Check(\E h \in 1..(i - 1) : s.deps[h].on = s.deps[i].on, "DuplicateDependency", s.key)
  OBVIOUS
<1>2. DependencyShape(s, i) = IF a # Ok THEN a ELSE IF b # Ok THEN b ELSE c
  <2>1. DependencyShape(s, i) = FirstOf(<<a, b, c>>)
    BY <1>1, Zenon DEF DependencyShape
  <2> QED BY <2>1, FirstOfThree
<1>3. /\ a = IF s.deps[i].on = Blank THEN [is |-> "BlankDependencyStepKey", step |-> s.key] ELSE Ok
      /\ b = IF s.deps[i].on = s.key THEN [is |-> "SelfDependency", step |-> s.key] ELSE Ok
      /\ c = IF \E h \in 1..(i - 1) : s.deps[h].on = s.deps[i].on
             THEN [is |-> "DuplicateDependency", step |-> s.key] ELSE Ok
  BY <1>1 DEF Check
<1> QED BY <1>2, <1>3 DEF Ok

(* The dependencies of a step are accepted when they name other steps, each*)
(* of them once.                                                           *)
LEMMA DependencyShapesAreExact ==
  ASSUME NEW s \in Steps
  PROVE  (\A d \in DOMAIN s.deps : DependencyShape(s, d) = Ok) <=>
           /\ WaitsOnce(s)
           /\ \A d \in DOMAIN s.deps : s.deps[d].on \notin {Blank, s.key}
<1>1. s.deps \in Seq([on : Keys \cup {Blank}, mode : Modes])
  BY DEF Steps
<1>2. DOMAIN s.deps = 1..Len(s.deps) /\ Len(s.deps) \in Nat
  BY <1>1
<1>3. WaitsOnce(s) <=> \A d \in DOMAIN s.deps : ~\E h \in 1..(d - 1) : s.deps[h].on = s.deps[d].on
  <2>1. ASSUME WaitsOnce(s), NEW d \in DOMAIN s.deps, NEW h \in 1..(d - 1), s.deps[h].on = s.deps[d].on
        PROVE  FALSE
    BY <1>2, <2>1 DEF WaitsOnce
  <2>2. ASSUME \A d \in DOMAIN s.deps : ~\E h \in 1..(d - 1) : s.deps[h].on = s.deps[d].on,
               NEW d \in DOMAIN s.deps, NEW e \in DOMAIN s.deps, s.deps[d].on = s.deps[e].on
        PROVE  d = e
    <3>1. d < e => d \in 1..(e - 1)
      BY <1>2
    <3>2. e < d => e \in 1..(d - 1)
      BY <1>2
    <3>3. ~(d < e) /\ ~(e < d)
      BY <2>2, <3>1, <3>2
    <3> QED BY <1>2, <3>3
  <2> QED BY <2>1, <2>2 DEF WaitsOnce
<1>4. \A d : DependencyShape(s, d) = Ok <=>
        s.deps[d].on \notin {Blank, s.key} /\ ~\E h \in 1..(d - 1) : s.deps[h].on = s.deps[d].on
  BY DependencyShapeIsExact
<1> QED BY <1>3, <1>4

(* validate_step_enqueue: a step that is accepted is well formed and waits *)
(* for other steps, for each of them once.                                 *)
LEMMA ValidateStepIsExact ==
  ASSUME NEW s \in Steps
  PROVE  /\ ValidateStep(s) = Ok <=>
              /\ WellFormed(s) /\ WaitsOnce(s)
              /\ \A d \in DOMAIN s.deps : s.deps[d].on \notin {Blank, s.key}
         /\ \/ ValidateStep(s) = StepShape(s)
            \/ \E d \in DOMAIN s.deps : ValidateStep(s) = DependencyShape(s, d)
<1> DEFINE checks == [i \in DOMAIN s.deps |-> DependencyShape(s, i)]
<1>1. s.deps \in Seq([on : Keys \cup {Blank}, mode : Modes])
  BY DEF Steps
<1>2. DOMAIN s.deps = 1..Len(s.deps) /\ Len(s.deps) \in Nat
  BY <1>1
<1>3. DOMAIN checks = DOMAIN s.deps /\ DOMAIN checks \subseteq Nat
  BY <1>2
<1>4. ValidateStep(s) = IF StepShape(s) # Ok THEN StepShape(s) ELSE FirstOf(checks)
  BY FirstOfTwo DEF ValidateStep
<1>5. (FirstOf(checks) = Ok) <=> \A d \in DOMAIN s.deps : DependencyShape(s, d) = Ok
  <2>1. (FirstOf(checks) = Ok) <=> \A d \in DOMAIN checks : checks[d] = Ok
    BY <1>3, FirstOfChecks
  <2> QED BY <1>3, <2>1
<1>6. FirstOf(checks) # Ok => \E d \in DOMAIN s.deps : FirstOf(checks) = DependencyShape(s, d)
  <2>1. FirstOf(checks) # Ok => \E d \in DOMAIN checks : FirstOf(checks) = checks[d]
    BY <1>3, FirstOfChecks
  <2> QED BY <1>3, <2>1
<1>7. StepShape(s) = Ok <=> WellFormed(s)
  BY StepShapeIsExact
<1> HIDE DEF checks
<1> QED BY <1>4, <1>5, <1>6, <1>7, DependencyShapesAreExact

(* An error that names a fault, and is an error.                           *)
Fits(error, steps, known) == Names(error, steps, known) /\ (error.is = "ok" => error = Ok)

(* The checks of a step name a fault of it, wherever it stands in a list.  *)
LEMMA StepErrorsFit ==
  ASSUME NEW steps \in Seq(Steps), NEW i \in DOMAIN steps, NEW known
  PROVE  /\ Fits(StepShape(steps[i]), steps, known)
         /\ \A d \in DOMAIN steps[i].deps : Fits(DependencyShape(steps[i], d), steps, known)
         /\ Fits(ValidateStep(steps[i]), steps, known)
<1> DEFINE s == steps[i]
<1>1. s \in Steps
  OBVIOUS
<1>2. Fits(Ok, steps, known)
  BY DEF Fits, Names, Ok
<1>3. Fits(StepShape(s), steps, known)
  <2>1. CASE StepShape(s) = Ok
    BY <1>2, <2>1
  <2>2. CASE StepShape(s) # Ok
    <3>1. ~WellFormed(s) /\ StepShape(s).is \in ShapeErrors /\ StepShape(s).step = s.key
      BY <1>1, <2>2, StepShapeIsExact
    <3> QED BY <3>1 DEF Fits, Names, ShapeErrors
  <2> QED BY <2>1, <2>2
<1>4. ASSUME NEW d \in DOMAIN s.deps
      PROVE  Fits(DependencyShape(s, d), steps, known)
  <2> DEFINE e == DependencyShape(s, d)
  <2>1. CASE e = Ok
    BY <1>2, <2>1
  <2>2. CASE e # Ok
    <3>0. DOMAIN s.deps = 1..Len(s.deps) /\ Len(s.deps) \in Nat
      BY <1>1 DEF Steps
    <3>1. e.step = s.key /\ s.deps[d].on \in Waits(steps, i)
      BY <2>2, DependencyShapeIsExact DEF Waits
    <3>2. CASE e.is = "BlankDependencyStepKey"
      BY <3>2 DEF Fits, Names
    <3>3. CASE e.is = "SelfDependency" /\ s.deps[d].on = s.key
      BY <3>1, <3>3 DEF Fits, Names
    <3>4. CASE e.is = "DuplicateDependency" /\ \E h \in 1..(d - 1) : s.deps[h].on = s.deps[d].on
      <4>1. ~WaitsOnce(s)
        BY <3>0, <3>4 DEF WaitsOnce
      <4> QED BY <3>1, <3>4, <4>1 DEF Fits, Names
    <3> QED BY <2>2, <3>2, <3>3, <3>4, DependencyShapeIsExact
  <2> QED BY <2>1, <2>2
<1> QED BY <1>1, <1>3, <1>4, ValidateStepIsExact

-----------------------------------------------------------------------------
(* The checks of a list of steps.                                          *)

LEMMA CheckIs ==
  ASSUME NEW w \in BOOLEAN, NEW name, NEW key, name # "ok"
  PROVE  /\ (Check(w, name, key) = Ok) <=> ~w
         /\ w => Check(w, name, key) = [is |-> name, step |-> key]
BY DEF Check, Ok

(* The first error of a list of checks fits when each does.                *)
LEMMA FirstErrorFits ==
  ASSUME NEW checks, DOMAIN checks \subseteq Nat, NEW steps, NEW known,
         \A i \in DOMAIN checks : Fits(checks[i], steps, known)
  PROVE  /\ Fits(FirstOf(checks), steps, known)
         /\ (FirstOf(checks) = Ok) <=> \A i \in DOMAIN checks : checks[i] = Ok
<1>1. Fits(Ok, steps, known)
  BY DEF Fits, Names, Ok
<1> QED BY <1>1, FirstOfChecks

LEMMA OkFits ==
  ASSUME NEW steps, NEW known
  PROVE  /\ Fits(Ok, steps, known)
         /\ \A w, name, key :
              name \notin {"ok", "CycleDetected", "MissingDependency", "SelfDependency", "DuplicateDependency", "DuplicateStepKey",
                           "ExternalStepQueueSettingsNotAllowed", "NonPositiveStepMaxAttempts",
                           "NonPositiveStepTimeoutSeconds", "InvalidStepExecutionResourceKey", "BlankStepJobType"}
                => Fits(Check(w, name, key), steps, known)
BY DEF Fits, Names, Ok, Check

LEMMA ShapesAreExact ==
  ASSUME NEW steps \in Seq(Steps), NEW known
  PROVE  /\ Fits(Shapes(steps, known), steps, known)
         /\ (Shapes(steps, known) = Ok) <=>
              /\ \A i \in DOMAIN steps : WellFormed(steps[i])
              /\ api = "append" => \A i \in DOMAIN steps : ValidateStep(steps[i]) = Ok
              /\ DistinctKeys(steps) /\ KeysOf(steps) \cap known = {}
<1> DEFINE Own(i) == IF api = "append" THEN ValidateStep(steps[i]) ELSE StepShape(steps[i])
           Twice(i) == steps[i].key \in known \cup {steps[h].key : h \in 1..(i - 1)}
           New(i) == Check(Twice(i), "DuplicateStepKey", steps[i].key)
           checks == [i \in DOMAIN steps |-> FirstOf(<<Own(i), New(i)>>)]
<1>1. DOMAIN steps = 1..Len(steps) /\ Len(steps) \in Nat /\ \A i \in DOMAIN steps : steps[i] \in Steps
  OBVIOUS
<1>2. Shapes(steps, known) = FirstOf(checks)
  BY DEF Shapes
<1>3. ASSUME NEW i \in DOMAIN steps
      PROVE  /\ New(i) = Ok <=> ~Twice(i)
             /\ Fits(New(i), steps, known)
  <2>1. Twice(i) \in BOOLEAN
    OBVIOUS
  <2> HIDE DEF Twice
  <2>2. (New(i) = Ok <=> ~Twice(i)) /\ (Twice(i) => New(i) = [is |-> "DuplicateStepKey", step |-> steps[i].key])
    BY <2>1, CheckIs
  <2>3. CASE ~Twice(i)
    BY <2>2, <2>3, OkFits
  <2>4. CASE Twice(i)
    <3>1. steps[i].key \in known \/ \E h \in DOMAIN steps : h # i /\ steps[h].key = steps[i].key
      BY <1>1, <2>4 DEF Twice
    <3>2. PICK e : e = New(i)
      OBVIOUS
    <3>3. e.is = "DuplicateStepKey" /\ e.step = steps[i].key
      <4>1. e = [is |-> "DuplicateStepKey", step |-> steps[i].key]
        BY <2>2, <2>4, <3>2, Zenon
      <4> QED BY <4>1
    <3>4. e.step \in known \/ \E h, k \in {k \in DOMAIN steps : steps[k].key = e.step} : h # k
      BY <3>1, <3>3
    <3>5. Fits(e, steps, known)
      BY <3>3, <3>4 DEF Fits, Names
    <3> QED BY <2>2, <3>2, <3>5
  <2> QED BY <2>3, <2>4
<1>4. ASSUME NEW i \in DOMAIN steps
      PROVE  /\ Own(i) = Ok <=> WellFormed(steps[i]) /\ (api = "append" => ValidateStep(steps[i]) = Ok)
             /\ Fits(Own(i), steps, known)
  <2>1. (StepShape(steps[i]) = Ok <=> WellFormed(steps[i])) /\ (ValidateStep(steps[i]) = Ok => WellFormed(steps[i]))
    BY <1>1, StepShapeIsExact, ValidateStepIsExact
  <2> QED BY <2>1, StepErrorsFit
<1> HIDE DEF Own, New
<1>5. \A i \in DOMAIN steps : checks[i] = IF Own(i) # Ok THEN Own(i) ELSE New(i)
  BY FirstOfTwo
<1>6. DOMAIN checks = DOMAIN steps /\ DOMAIN checks \subseteq Nat
  BY <1>1
<1> HIDE DEF checks
<1>7. /\ Fits(FirstOf(checks), steps, known)
      /\ (FirstOf(checks) = Ok) <=> \A i \in DOMAIN checks : checks[i] = Ok
  <2>1. \A i \in DOMAIN checks : Fits(checks[i], steps, known)
    BY <1>3, <1>4, <1>5, <1>6
  <2> QED BY <1>6, <2>1, FirstErrorFits
<1>8. (Shapes(steps, known) = Ok) <=>
        \A i \in DOMAIN steps : /\ WellFormed(steps[i]) /\ (api = "append" => ValidateStep(steps[i]) = Ok)
                                /\ ~Twice(i)
  BY <1>2, <1>3, <1>4, <1>5, <1>6, <1>7, Zenon
<1>9. (\A i \in DOMAIN steps : ~Twice(i)) <=> DistinctKeys(steps) /\ KeysOf(steps) \cap known = {}
  <2>1. ASSUME \A i \in DOMAIN steps : ~Twice(i), NEW h \in DOMAIN steps, NEW i \in DOMAIN steps,
               steps[h].key = steps[i].key
        PROVE  h = i
    <3>1. h < i => h \in 1..(i - 1)
      BY <1>1
    <3>2. i < h => i \in 1..(h - 1)
      BY <1>1
    <3>3. ~(h < i) /\ ~(i < h)
      BY <2>1, <3>1, <3>2
    <3> QED BY <1>1, <3>3
  <2>2. (\A i \in DOMAIN steps : ~Twice(i)) => KeysOf(steps) \cap known = {}
    BY DEF KeysOf
  <2>3. ASSUME DistinctKeys(steps), KeysOf(steps) \cap known = {}, NEW i \in DOMAIN steps
        PROVE  ~Twice(i)
    <3>1. steps[i].key \notin known
      BY <2>3 DEF KeysOf
    <3>2. \A h \in 1..(i - 1) : h \in DOMAIN steps /\ h # i
      BY <1>1
    <3> QED BY <2>3, <3>1, <3>2 DEF DistinctKeys
  <2> QED BY <2>1, <2>2, <2>3 DEF DistinctKeys
<1> QED BY <1>2, <1>7, <1>8, <1>9

LEMMA DependenciesAreExact ==
  ASSUME NEW steps \in Seq(Steps), NEW known
  PROVE  /\ Fits(Dependencies(steps, known), steps, known)
         /\ (Dependencies(steps, known) = Ok) <=>
              \A i \in DOMAIN steps : \A d \in DOMAIN steps[i].deps :
                 /\ DependencyShape(steps[i], d) = Ok
                 /\ steps[i].deps[d].on \in known \cup KeysOf(steps)
<1> DEFINE Own(i, d) == DependencyShape(steps[i], d)
           Missing(i, d) == steps[i].deps[d].on \notin Known(steps, known, i)
           There(i, d) == Check(Missing(i, d), "MissingDependency", steps[i].key)
           inner(i) == [d \in DOMAIN steps[i].deps |-> FirstOf(<<Own(i, d), There(i, d)>>)]
           checks == [i \in DOMAIN steps |-> FirstOf(inner(i))]
<1>1. DOMAIN steps = 1..Len(steps) /\ Len(steps) \in Nat /\ \A i \in DOMAIN steps : steps[i] \in Steps
  OBVIOUS
<1>2. Dependencies(steps, known) = FirstOf(checks)
  BY DEF Dependencies
<1>3. ASSUME NEW i \in DOMAIN steps, NEW d \in DOMAIN steps[i].deps
      PROVE  /\ There(i, d) = Ok <=> ~Missing(i, d)
             /\ Fits(There(i, d), steps, known)
  <2>1. Missing(i, d) \in BOOLEAN
    OBVIOUS
  <2>2. Missing(i, d) => ~(Waits(steps, i) \subseteq known \cup KeysOf(steps))
    BY DEF Known, Waits
  <2> HIDE DEF Missing
  <2>3. /\ There(i, d) = Ok <=> ~Missing(i, d)
        /\ Missing(i, d) => There(i, d) = [is |-> "MissingDependency", step |-> steps[i].key]
    BY <2>1, CheckIs
  <2>4. CASE ~Missing(i, d)
    BY <2>3, <2>4, OkFits
  <2>5. CASE Missing(i, d)
    <3>1. PICK e : e = There(i, d)
      OBVIOUS
    <3>2. e.is = "MissingDependency" /\ e.step = steps[i].key
      <4>1. e = [is |-> "MissingDependency", step |-> steps[i].key]
        BY <2>3, <2>5, <3>1, Zenon
      <4> QED BY <4>1
    <3>3. Fits(e, steps, known)
      BY <2>2, <2>5, <3>2 DEF Fits, Names
    <3> QED BY <2>3, <3>1, <3>3
  <2> QED BY <2>4, <2>5
<1>4. ASSUME NEW i \in DOMAIN steps
      PROVE  /\ Fits(FirstOf(inner(i)), steps, known)
             /\ (FirstOf(inner(i)) = Ok) <=> \A d \in DOMAIN steps[i].deps : Own(i, d) = Ok /\ ~Missing(i, d)
  <2> HIDE DEF There, Missing
  <2>1. \A d \in DOMAIN steps[i].deps : inner(i)[d] = IF Own(i, d) # Ok THEN Own(i, d) ELSE There(i, d)
    BY FirstOfTwo
  <2>2. DOMAIN inner(i) = DOMAIN steps[i].deps /\ DOMAIN inner(i) \subseteq Nat
    <3>1. DOMAIN steps[i].deps = 1..Len(steps[i].deps) /\ Len(steps[i].deps) \in Nat
      BY <1>1 DEF Steps
    <3> QED BY <3>1
  <2>3. \A d \in DOMAIN steps[i].deps : Fits(Own(i, d), steps, known)
    BY StepErrorsFit
  <2> HIDE DEF inner, Own
  <2>4. \A d \in DOMAIN inner(i) : Fits(inner(i)[d], steps, known)
    BY <1>3, <2>1, <2>2, <2>3
  <2>5. /\ Fits(FirstOf(inner(i)), steps, known)
        /\ (FirstOf(inner(i)) = Ok) <=> \A d \in DOMAIN inner(i) : inner(i)[d] = Ok
    BY <2>2, <2>4, FirstErrorFits
  <2> QED BY <1>3, <2>1, <2>2, <2>5
<1> HIDE DEF inner
<1>5. DOMAIN checks = DOMAIN steps /\ DOMAIN checks \subseteq Nat /\ \A i \in DOMAIN steps : checks[i] = FirstOf(inner(i))
  BY <1>1
<1> HIDE DEF checks, Own, Missing
<1>6. /\ Fits(FirstOf(checks), steps, known)
      /\ (FirstOf(checks) = Ok) <=> \A i \in DOMAIN checks : checks[i] = Ok
  <2>1. \A i \in DOMAIN checks : Fits(checks[i], steps, known)
    BY <1>4, <1>5
  <2> QED BY <1>5, <2>1, FirstErrorFits
<1>7. (Dependencies(steps, known) = Ok) <=>
        \A i \in DOMAIN steps : \A d \in DOMAIN steps[i].deps : Own(i, d) = Ok /\ ~Missing(i, d)
  BY <1>2, <1>4, <1>5, <1>6, Zenon
<1> QED BY <1>2, <1>6, <1>7 DEF Own, Missing, Known

(* validate_workflow_dag and validate_workflow_step_append accept exactly  *)
(* the lists that are sound beside the persisted keys.                     *)
LEMMA ValidateStepsIsExact ==
  ASSUME NEW steps \in Seq(Steps), NEW known \in SUBSET Keys
  PROVE  /\ Fits(ValidateSteps(steps, known), steps, known)
         /\ (ValidateSteps(steps, known) = Ok) <=> steps # <<>> /\ Sound(steps, known)
<1>1. PICK a, b, d, e :
        /\ a = Check(steps = <<>>, "EmptySteps", "none")
        /\ b = Shapes(steps, known)
        /\ d = Dependencies(steps, known)
        /\ e = Check(~IsAcyclic(steps), "CycleDetected", "none")
  OBVIOUS
<1>2. ValidateSteps(steps, known) = IF a # Ok THEN a ELSE IF b # Ok THEN b ELSE IF d # Ok THEN d ELSE e
  <2>1. ValidateSteps(steps, known) = FirstOf(<<a, b, d, e>>)
    BY <1>1, Zenon DEF ValidateSteps
  <2> QED BY <2>1, FirstOfFour
<1>3. Fits(a, steps, known) /\ (a = Ok <=> steps # <<>>)
  <2>1. Fits(a, steps, known)
    BY <1>1, OkFits
  <2>2. a = Ok <=> steps # <<>>
    BY <1>1 DEF Check, Ok
  <2> QED BY <2>1, <2>2
<1>4. Fits(e, steps, known) /\ (e = Ok <=> WellFounded(steps))
  <2>1. IsAcyclic(steps) <=> WellFounded(steps)
    BY CycleSearchIsExact
  <2>2. CASE WellFounded(steps)
    <3>1. e = Ok
      BY <1>1, <2>1, <2>2 DEF Check
    <3> QED BY <2>2, <3>1, OkFits
  <2>3. CASE ~WellFounded(steps)
    <3>1. e = [is |-> "CycleDetected", step |-> "none"]
      BY <1>1, <2>1, <2>3 DEF Check
    <3> QED BY <2>3, <3>1 DEF Fits, Names, Ok
  <2> QED BY <2>2, <2>3
<1>5. Fits(b, steps, known) /\ Fits(d, steps, known)
  BY <1>1, ShapesAreExact, DependenciesAreExact
<1>6. Fits(ValidateSteps(steps, known), steps, known)
  BY <1>2, <1>3, <1>4, <1>5
<1>7. (ValidateSteps(steps, known) = Ok) <=> a = Ok /\ b = Ok /\ d = Ok /\ e = Ok
  BY <1>2
<1> DEFINE Fine(i) ==
             /\ WaitsOnce(steps[i])
             /\ \A j \in DOMAIN steps[i].deps : steps[i].deps[j].on \notin {Blank, steps[i].key}
           There(i) == \A j \in DOMAIN steps[i].deps : steps[i].deps[j].on \in known \cup KeysOf(steps)
<1>8. ASSUME NEW i \in DOMAIN steps
      PROVE  /\ (\A j \in DOMAIN steps[i].deps : DependencyShape(steps[i], j) = Ok) => Fine(i)
             /\ Fine(i) => \A j \in DOMAIN steps[i].deps : DependencyShape(steps[i], j) = Ok
             /\ ValidateStep(steps[i]) = Ok <=> WellFormed(steps[i]) /\ Fine(i)
  <2>1. steps[i] \in Steps
    OBVIOUS
  <2>2. ValidateStep(steps[i]) = Ok <=> WellFormed(steps[i]) /\ Fine(i)
    BY <2>1, ValidateStepIsExact
  <2>3. Fine(i) <=> \A j \in DOMAIN steps[i].deps : DependencyShape(steps[i], j) = Ok
    BY <2>1, DependencyShapesAreExact
  <2> HIDE DEF Fine
  <2> QED BY <2>2, <2>3
<1>9. b = Ok <=> /\ \A i \in DOMAIN steps : WellFormed(steps[i])
                 /\ api = "append" => \A i \in DOMAIN steps : ValidateStep(steps[i]) = Ok
                 /\ DistinctKeys(steps) /\ KeysOf(steps) \cap known = {}
  BY <1>1, ShapesAreExact
<1>10. d = Ok <=> \A i \in DOMAIN steps : Fine(i) /\ There(i)
  <2>1. d = Ok <=> \A i \in DOMAIN steps : \A j \in DOMAIN steps[i].deps :
                     DependencyShape(steps[i], j) = Ok /\ steps[i].deps[j].on \in known \cup KeysOf(steps)
    BY <1>1, DependenciesAreExact
  <2> HIDE DEF Fine
  <2> QED BY <1>8, <2>1
<1>11. ASSUME \A i \in DOMAIN steps : WellFormed(steps[i]), KeysOf(steps) \cap known = {}
       PROVE  (\A i \in DOMAIN steps : Fine(i) /\ There(i)) <=>
                /\ \A i \in DOMAIN steps : WaitsOnce(steps[i])
                /\ \A i \in DOMAIN steps : Waits(steps, i) \subseteq (KeysOf(steps) \ {steps[i].key}) \cup known
  <2>0. Blank \notin known \cup KeysOf(steps)
    BY <1>11, DagAssumption DEF WellFormed, KeysOf
  <2>1. ASSUME NEW i \in DOMAIN steps, Fine(i), There(i)
        PROVE  Waits(steps, i) \subseteq (KeysOf(steps) \ {steps[i].key}) \cup known
    BY <2>1 DEF Waits
  <2>2. ASSUME NEW i \in DOMAIN steps, WaitsOnce(steps[i]),
               Waits(steps, i) \subseteq (KeysOf(steps) \ {steps[i].key}) \cup known
        PROVE  Fine(i) /\ There(i)
    <3>1. steps[i].key \in KeysOf(steps)
      BY DEF KeysOf
    <3>2. \A j \in DOMAIN steps[i].deps : steps[i].deps[j].on \in Waits(steps, i)
      BY DEF Waits
    <3> QED BY <1>11, <2>0, <2>2, <3>1, <3>2
  <2> QED BY <2>1, <2>2
<1> HIDE DEF Fine, There
<1>12. (ValidateSteps(steps, known) = Ok) <=> steps # <<>> /\ Sound(steps, known)
  <2>1. ASSUME ValidateSteps(steps, known) = Ok PROVE steps # <<>> /\ Sound(steps, known)
    BY <1>3, <1>4, <1>7, <1>9, <1>10, <1>11, <2>1 DEF Sound
  <2>2. ASSUME steps # <<>>, Sound(steps, known) PROVE ValidateSteps(steps, known) = Ok
    BY <1>3, <1>4, <1>7, <1>8, <1>9, <1>10, <1>11, <2>2 DEF Sound
  <2> QED BY <2>1, <2>2
<1> QED BY <1>6, <1>12

(* Runs as clients build them.                                             *)
Runs ==
  [workflow_type : {"ok", "blank"}, idempotency_key : {"none", "ok", "blank"},
   active_key : {"none", "ok", "blank", "too_long"}, result : Keys \cup {Blank, "none"}, steps : Seq(Steps)]

Complete(r) ==
  /\ r.result \in KeysOf(r.steps) \cup {"none"}
  /\ r.idempotency_key \in {"none", "ok"} /\ r.active_key \in {"none", "ok"} /\ r.workflow_type = "ok"

(* validate_workflow_run_enqueue.                                          *)
LEMMA ValidateRunIsExact ==
  ASSUME NEW r \in Runs
  PROVE  /\ Fits(ValidateRun(r), r.steps, {})
         /\ (ValidateRun(r) = Ok) <=> r.steps # <<>> /\ Sound(r.steps, {}) /\ Complete(r)
<1> DEFINE steps == r.steps
<1>0. /\ steps \in Seq(Steps) /\ r.workflow_type \in {"ok", "blank"}
      /\ r.idempotency_key \in {"none", "ok", "blank"} /\ r.active_key \in {"none", "ok", "blank", "too_long"}
  BY DEF Runs
<1> HIDE DEF steps
<1>1. PICK a, b, d, e :
        /\ a = Check(r.idempotency_key = "blank", "BlankIdempotencyKey", "none")
        /\ b = Check(r.active_key = "blank", "BlankActiveKey", "none")
        /\ d = Check(r.active_key = "too_long", "ActiveKeyTooLong", "none")
        /\ e = Check(r.result = Blank, "BlankResultStepKey", "none")
  OBVIOUS
<1>2. PICK f, g, j :
        /\ f = Check(r.workflow_type = "blank", "BlankWorkflowType", "none")
        /\ g = ValidateSteps(steps, {})
        /\ j = Check(r.result # "none" /\ r.result \notin KeysOf(steps), "UnknownResultStepKey", "none")
  OBVIOUS
<1>3. ValidateRun(r) = IF a # Ok THEN a ELSE IF b # Ok THEN b ELSE IF d # Ok THEN d ELSE IF e # Ok THEN e ELSE
                       IF f # Ok THEN f ELSE IF g # Ok THEN g ELSE j
  <2>1. ValidateRun(r) = FirstOf(<<a, b, d, e, f, g, j>>)
    BY <1>1, <1>2, Zenon DEF ValidateRun, steps
  <2> QED BY <2>1, FirstOfSeven
<1>4. /\ Fits(a, steps, {}) /\ Fits(b, steps, {}) /\ Fits(d, steps, {}) /\ Fits(e, steps, {})
      /\ Fits(f, steps, {}) /\ Fits(j, steps, {})
  BY <1>1, <1>2, OkFits
<1>5. Fits(g, steps, {}) /\ (g = Ok <=> steps # <<>> /\ Sound(steps, {}))
  BY <1>0, <1>2, ValidateStepsIsExact
<1>6. Fits(ValidateRun(r), steps, {})
  BY <1>3, <1>4, <1>5
<1>7. /\ a = Ok <=> r.idempotency_key # "blank"
      /\ b = Ok <=> r.active_key # "blank"
      /\ d = Ok <=> r.active_key # "too_long"
      /\ e = Ok <=> r.result # Blank
  BY <1>1 DEF Check, Ok
<1>8. /\ f = Ok <=> r.workflow_type # "blank"
      /\ j = Ok <=> r.result \in KeysOf(steps) \cup {"none"}
  BY <1>2 DEF Check, Ok
<1>9. Sound(steps, {}) /\ r.result \in KeysOf(steps) \cup {"none"} => r.result # Blank
  BY DagAssumption DEF Sound, WellFormed, KeysOf
<1>10. (ValidateRun(r) = Ok) <=> steps # <<>> /\ Sound(steps, {}) /\ Complete(r)
  <2>1. (ValidateRun(r) = Ok) <=> a = Ok /\ b = Ok /\ d = Ok /\ e = Ok /\ f = Ok /\ g = Ok /\ j = Ok
    BY <1>3
  <2>2. Complete(r) <=> /\ r.result \in KeysOf(steps) \cup {"none"} /\ r.idempotency_key # "blank"
                        /\ r.active_key # "blank" /\ r.active_key # "too_long" /\ r.workflow_type # "blank"
    BY <1>0 DEF Complete, steps
  <2> QED BY <1>5, <1>7, <1>8, <1>9, <2>1, <2>2
<1> QED BY <1>6, <1>10 DEF steps

-----------------------------------------------------------------------------
(* Appending.                                                              *)

(* A sound batch beside sound steps makes a sound list: the batch names    *)
(* persisted steps, which never name a step of the batch.                  *)
LEMMA AppendKeepsSound ==
  ASSUME NEW old \in Seq(Steps), NEW batch \in Seq(Steps), Sound(old, {}), Sound(batch, KeysOf(old))
  PROVE  old \o batch \in Seq(Steps) /\ Sound(old \o batch, {})
<1> DEFINE all == old \o batch
           m == Len(old)
           n == Len(batch)
<1>1. /\ m \in Nat /\ n \in Nat /\ all \in Seq(Steps) /\ DOMAIN all = 1..(m + n)
      /\ DOMAIN old = 1..m /\ DOMAIN batch = 1..n
      /\ \A i \in 1..m : all[i] = old[i]
      /\ \A i \in 1..n : all[m + i] = batch[i]
  OBVIOUS
<1> HIDE DEF all, m, n
<1>2. ASSUME NEW i \in 1..(m + n)
      PROVE  \/ i \in 1..m /\ all[i] = old[i]
             \/ i - m \in 1..n /\ i = m + (i - m) /\ all[i] = batch[i - m] /\ i > m
  BY <1>1
<1>3. KeysOf(all) = KeysOf(old) \cup KeysOf(batch)
  <2>1. KeysOf(all) \subseteq KeysOf(old) \cup KeysOf(batch)
    <3>1. ASSUME NEW i \in 1..(m + n) PROVE all[i].key \in KeysOf(old) \cup KeysOf(batch)
      BY <1>1, <1>2 DEF KeysOf
    <3> QED BY <1>1, <3>1 DEF KeysOf
  <2>2. KeysOf(old) \subseteq KeysOf(all)
    BY SMTT(40), <1>1 DEF KeysOf
  <2>3. KeysOf(batch) \subseteq KeysOf(all)
    <3>1. ASSUME NEW k \in 1..n PROVE batch[k].key \in KeysOf(all)
      <4>1. m + k \in DOMAIN all /\ all[m + k] = batch[k]
        BY <1>1
      <4> QED BY <4>1 DEF KeysOf
    <3> QED BY <1>1, <3>1 DEF KeysOf
  <2> QED BY <2>1, <2>2, <2>3
<1>4. KeysOf(batch) \cap KeysOf(old) = {}
  BY DEF Sound
<1>5. \A i \in 1..(m + n) : WellFormed(all[i]) /\ WaitsOnce(all[i])
  BY <1>1, <1>2 DEF Sound
<1>6. DistinctKeys(all)
  <2>1. ASSUME NEW h \in 1..(m + n), NEW i \in 1..(m + n), all[h].key = all[i].key
        PROVE  h = i
    <3>1. CASE h \in 1..m /\ i \in 1..m
      BY <1>1, <2>1, <3>1 DEF Sound, DistinctKeys
    <3>2. CASE h \notin 1..m /\ i \notin 1..m
      <4>1. h - m = i - m
        <5>1. h - m \in 1..n /\ all[h] = batch[h - m] /\ i - m \in 1..n /\ all[i] = batch[i - m]
          BY <1>2, <3>2
        <5>2. \A k, l \in 1..n : batch[k].key = batch[l].key => k = l
          BY <1>1 DEF Sound, DistinctKeys
        <5> QED BY <2>1, <5>1, <5>2
      <4> QED BY <1>1, <4>1
    <3>3. CASE h \in 1..m /\ i \notin 1..m
      <4>1. all[h].key \in KeysOf(old) /\ all[i].key \in KeysOf(batch)
        BY <1>1, <1>2, <3>3 DEF KeysOf
      <4> QED BY <1>4, <2>1, <4>1
    <3>4. CASE h \notin 1..m /\ i \in 1..m
      <4>1. all[i].key \in KeysOf(old) /\ all[h].key \in KeysOf(batch)
        BY <1>1, <1>2, <3>4 DEF KeysOf
      <4> QED BY <1>4, <2>1, <4>1
    <3> QED BY <3>1, <3>2, <3>3, <3>4
  <2> QED BY <1>1, <2>1 DEF DistinctKeys
<1>7. ASSUME NEW i \in 1..(m + n)
      PROVE  Waits(all, i) \subseteq KeysOf(all) \ {all[i].key}
  <2>1. CASE i \in 1..m /\ all[i] = old[i]
    <3>1. Waits(all, i) = Waits(old, i)
      BY <2>1 DEF Waits
    <3>2. Waits(old, i) \subseteq KeysOf(old) \ {old[i].key}
      BY <1>1, <2>1 DEF Sound
    <3> QED BY <1>3, <2>1, <3>1, <3>2
  <2>2. CASE i - m \in 1..n /\ all[i] = batch[i - m]
    <3>1. Waits(all, i) = Waits(batch, i - m)
      BY <2>2 DEF Waits
    <3>2. Waits(batch, i - m) \subseteq (KeysOf(batch) \ {batch[i - m].key}) \cup KeysOf(old)
      BY <1>1, <2>2 DEF Sound
    <3>3. batch[i - m].key \in KeysOf(batch)
      BY <1>1, <2>2 DEF KeysOf
    <3> QED BY <1>3, <1>4, <2>2, <3>1, <3>2, <3>3
  <2> QED BY <1>2, <2>1, <2>2
<1>8. ASSUME NEW set \in (SUBSET (1..(m + n))) \ {{}}
      PROVE  \E i \in set : \A d \in DOMAIN all[i].deps : \A p \in set : all[p].key # all[i].deps[d].on
  <2>1. CASE set \cap 1..m # {}
    <3>1. PICK i \in set \cap 1..m :
            \A d \in DOMAIN old[i].deps : \A p \in set \cap 1..m : old[p].key # old[i].deps[d].on
      <4>1. set \cap 1..m \in (SUBSET DOMAIN old) \ {{}}
        BY <1>1, <2>1
      <4> QED BY <4>1 DEF Sound, WellFounded
    <3>2. all[i] = old[i]
      BY <1>1, <3>1
    <3>3. ASSUME NEW d \in DOMAIN all[i].deps, NEW p \in set
          PROVE  all[p].key # all[i].deps[d].on
      <4>1. CASE p \in 1..m
        BY <1>1, <3>1, <3>2, <4>1
      <4>2. CASE p \notin 1..m
        <5>1. all[p].key \in KeysOf(batch)
          BY <1>1, <1>2, <4>2 DEF KeysOf
        <5>2. all[i].deps[d].on \in KeysOf(old)
          BY <1>1, <3>1, <3>2 DEF Sound, Waits
        <5> QED BY <1>4, <5>1, <5>2
      <4> QED BY <4>1, <4>2
    <3> QED BY <3>1, <3>3
  <2>2. CASE set \cap 1..m = {}
    <3> DEFINE low == {k \in 1..n : m + k \in set}
    <3>1. \A i \in set : i - m \in low /\ i - m \in 1..n /\ all[i] = batch[i - m]
      BY <1>1, <1>2, <2>2
    <3>2. low \in (SUBSET DOMAIN batch) \ {{}}
      BY <1>1, <3>1
    <3> HIDE DEF low
    <3>3. PICK k \in low : \A d \in DOMAIN batch[k].deps : \A p \in low : batch[p].key # batch[k].deps[d].on
      BY <3>2 DEF Sound, WellFounded
    <3>4. m + k \in set /\ all[m + k] = batch[k]
      BY <1>1, <3>3 DEF low
    <3>5. PICK i : i = m + k
      OBVIOUS
    <3>6. i \in set /\ all[i] = batch[k]
      BY <3>4, <3>5
    <3>7. \A d \in DOMAIN all[i].deps : \A p \in set : all[p].key # all[i].deps[d].on
      BY <3>1, <3>3, <3>6
    <3> QED BY <3>6, <3>7
  <2> QED BY <2>1, <2>2
<1>9. WellFounded(all)
  BY ZenonT(40), <1>1, <1>8 DEF WellFounded
<1>10. KeysOf(all) \cap {} = {} /\ \A i \in DOMAIN all : Waits(all, i) \subseteq (KeysOf(all) \ {all[i].key}) \cup {}
  BY <1>1, <1>7
<1>11. Sound(all, {})
  BY <1>1, <1>5, <1>6, <1>9, <1>10, Zenon DEF Sound
<1> QED BY <1>1, <1>11 DEF all

-----------------------------------------------------------------------------
(* The builders.                                                           *)

(* What is said of the last answer.                                        *)
AnswerInv == RefusedIsUnsound /\ AcceptedRunIsComplete /\ ErrorNamesTheFault

(* What the builders hold is of the right shape, and what is persisted is  *)
(* sound also while nothing is.                                            *)
DagInv ==
  /\ draft = NoDraft \/ draft \in Steps
  /\ run \in Runs
  /\ persisted \in Seq(Steps) /\ Sound(persisted, {})
  /\ AnswerInv

(* It depends on the answer and on what is persisted.                      *)
LEMMA AnswerSame ==
  ASSUME AnswerInv, answer' = answer, persisted' = persisted
  PROVE  AnswerInv'
BY DEF AnswerInv, RefusedIsUnsound, AcceptedRunIsComplete, ErrorNamesTheFault

LEMMA NoAnswerInv ==
  ASSUME answer' = NoAnswer
  PROVE  AnswerInv'
BY DEF AnswerInv, RefusedIsUnsound, AcceptedRunIsComplete, ErrorNamesTheFault, Names, NoAnswer

LEMMA NoRunTyped == NoRun \in Runs /\ [NoRun EXCEPT !.workflow_type = "blank"] \in Runs
<1>1. <<>> \in Seq(Steps)
  OBVIOUS
<1>2. PICK none : none = <<>>
  OBVIOUS
<1>3. NoRun = [workflow_type |-> "ok", idempotency_key |-> "none", active_key |-> "none", result |-> "none", steps |-> none]
  BY <1>2 DEF NoRun
<1>4. none \in Seq(Steps)
  BY <1>1, <1>2, Zenon
<1> QED BY <1>3, <1>4 DEF Runs

LEMMA DagInitInv == DagInit => DagInv
<1> SUFFICES ASSUME DagInit PROVE DagInv
  OBVIOUS
<1>1. draft = NoDraft /\ run \in Runs /\ persisted = <<>> /\ answer = NoAnswer
  BY NoRunTyped DEF DagInit
<1>2. persisted \in Seq(Steps) /\ Sound(persisted, {})
  BY <1>1 DEF Sound, WellFounded, DistinctKeys, KeysOf
<1>3. RefusedIsUnsound /\ AcceptedRunIsComplete /\ ErrorNamesTheFault
  BY <1>1 DEF RefusedIsUnsound, AcceptedRunIsComplete, ErrorNamesTheFault, Names, NoAnswer
<1> QED BY <1>1, <1>2, <1>3 DEF DagInv, AnswerInv

(* A check that fails: its error names a fault of the input, and an input  *)
(* of the last validation that was refused is not sound and complete.      *)
LEMMA FailsInv ==
  ASSUME DagInv, NEW check, NEW of, NEW input, Fails(check, of, input),
         Fits(check, input.steps, IF of = "append" THEN KeysOf(persisted) ELSE {}),
         of \in {"build", "append"} =>
           \/ input.steps = <<>> \/ ~Sound(input.steps, IF of = "append" THEN KeysOf(persisted) ELSE {})
           \/ input.workflow_type = "blank" \/ input.idempotency_key = "blank"
           \/ input.active_key \in {"blank", "too_long"}
           \/ input.result \notin KeysOf(input.steps) \cup {"none"}
  PROVE  DagInv'
<1>1. /\ draft' = NoDraft /\ run' = NoRun /\ persisted' = persisted
      /\ answer' = [is |-> check.is, of |-> of, step |-> check.step, input |-> input]
      /\ check.is # "ok"
  BY DEF Fails, Said, Fits
<1>2. answer'.is = check.is /\ answer'.of = of /\ answer'.step = check.step /\ answer'.input = input
  BY <1>1
<1> DEFINE known == IF of = "append" THEN KeysOf(persisted) ELSE {}
<1>3. RefusedIsUnsound'
  BY <1>1, <1>2 DEF RefusedIsUnsound
<1>4. AcceptedRunIsComplete'
  BY <1>1, <1>2 DEF AcceptedRunIsComplete
<1>5. ErrorNamesTheFault'
  <2>1. Names(answer', input.steps, known)
    BY <1>2 DEF Fits, Names
  <2> QED BY <1>1, <1>2, <2>1 DEF ErrorNamesTheFault
<1>6. persisted' \in Seq(Steps) /\ Sound(persisted, {})' /\ run' \in Runs
  BY <1>1, NoRunTyped DEF DagInv
<1> QED BY <1>1, <1>3, <1>4, <1>5, <1>6 DEF DagInv, AnswerInv

(* An operation that leaves the answer and the persisted steps alone.      *)
LEMMA QuietInv ==
  ASSUME DagInv, answer' = answer, persisted' = persisted,
         draft' = NoDraft \/ draft' \in Steps, run' \in Runs
  PROVE  DagInv'
<1>1. AnswerInv' /\ persisted' \in Seq(Steps) /\ Sound(persisted, {})'
  BY AnswerSame DEF DagInv
<1> QED BY <1>1 DEF DagInv

LEMMA NewDraftTyped ==
  ASSUME NEW key \in Keys \cup {Blank}, NEW kind \in {"JOB", "EXTERNAL"}, NEW job_type \in JobTypes \cup {"none"}
  PROVE  NewDraft(key, kind, job_type) \in Steps
<1>1. <<>> \in Seq([on : Keys \cup {Blank}, mode : Modes])
  OBVIOUS
<1>2. PICK none, set : none = <<>> /\ set = [f \in Settings |-> IF f = "stage" /\ kind = "JOB" THEN "ok" ELSE "none"]
  OBVIOUS
<1>3. NewDraft(key, kind, job_type) = [key |-> key, kind |-> kind, job_type |-> job_type, deps |-> none, set |-> set]
  BY <1>2, Zenon DEF NewDraft
<1>4. none \in Seq([on : Keys \cup {Blank}, mode : Modes])
  BY <1>1, <1>2, Zenon
<1>5. set \in [Settings -> {"none", "ok", "bad"}] /\ \A f \in Settings : set[f] # "bad"
  BY <1>2
<1> QED BY <1>3, <1>4, <1>5 DEF Steps

LEMMA NewStepInv ==
  ASSUME DagInv, NEW key \in Keys \cup {Blank}, NEW kind \in {"JOB", "EXTERNAL"},
         NEW job_type \in JobTypes \cup {"none"}, NEW checked, NewStep(key, kind, job_type, checked)
  PROVE  DagInv'
<1>1. PICK d, a, b :
        /\ d = NewDraft(key, kind, job_type)
        /\ a = Check(key = Blank, "BlankStepKey", key)
        /\ b = Check(kind = "JOB" /\ job_type = Blank, "BlankStepJobType", key)
  OBVIOUS
<1>2. \/ Fails(FirstOf(<<a, b>>), "step", [NoRun EXCEPT !.steps = <<d>>])
      \/ draft' = d /\ answer' = NoAnswer /\ run' = run /\ persisted' = persisted
  BY <1>1 DEF NewStep
<1>3. d \in Steps /\ d.key = key /\ d.kind = kind /\ d.job_type = job_type
  BY <1>1, NewDraftTyped DEF NewDraft
<1>4. CASE draft' = d /\ answer' = NoAnswer /\ run' = run /\ persisted' = persisted
  <2>1. AnswerInv'
    BY <1>4, NoAnswerInv
  <2> QED BY <1>3, <1>4, <2>1 DEF DagInv
<1>5. CASE Fails(FirstOf(<<a, b>>), "step", [NoRun EXCEPT !.steps = <<d>>])
  <2>1. PICK input : input = [NoRun EXCEPT !.steps = <<d>>]
    OBVIOUS
  <2>2. input.steps = <<d>>
    BY <2>1 DEF NoRun
  <2>3. PICK c : c = FirstOf(<<a, b>>)
    OBVIOUS
  <2>4. c = IF a # Ok THEN a ELSE b
    BY <2>3, FirstOfTwo
  <2>6. Fits(a, <<d>>, {})
    BY <1>1, OkFits
  <2>7. Fits(b, <<d>>, {})
    <3>1. CASE ~(kind = "JOB" /\ job_type = Blank)
      <4>1. b = Ok
        BY <1>1, <3>1 DEF Check
      <4> QED BY <4>1, OkFits
    <3>2. CASE kind = "JOB" /\ job_type = Blank
      <4>1. b = [is |-> "BlankStepJobType", step |-> key]
        BY <1>1, <3>2 DEF Check
      <4>2. ~WellFormed(d)
        BY <1>3, <3>2 DEF WellFormed
      <4>3. 1 \in DOMAIN <<d>> /\ <<d>>[1] = d
        OBVIOUS
      <4>4. PICK steps : steps = <<d>>
        OBVIOUS
      <4>5. 1 \in DOMAIN steps /\ steps[1] = d
        BY <4>3, <4>4, Zenon
      <4>6. Fits(b, steps, {})
        BY <1>3, <4>1, <4>2, <4>5 DEF Fits, Names, Ok
      <4> QED BY <4>4, <4>6, Zenon
    <3> QED BY <3>1, <3>2
  <2>8. Fits(c, input.steps, {})
    BY <2>2, <2>4, <2>6, <2>7, Zenon
  <2>9. Fails(c, "step", input)
    BY <1>5, <2>1, <2>3, Zenon
  <2> QED BY <2>8, <2>9, FailsInv
<1> QED BY <1>2, <1>4, <1>5

LEMMA ConfigureInv ==
  ASSUME DagInv, NEW setting \in Settings, NEW value \in {"none", "ok", "bad"}, Configure(setting, value)
  PROVE  DagInv'
<1>1. /\ draft \in Steps /\ draft' = [draft EXCEPT !.set[setting] = value]
      /\ value = "bad" => setting \in {"max_attempts", "timeout_seconds", "execution_resource_key"}
      /\ run' = run /\ persisted' = persisted /\ answer' = answer
  BY DEF Configure, DagInv
<1>2. draft' \in Steps
  BY <1>1 DEF Steps
<1> QED BY <1>1, <1>2, QuietInv DEF DagInv

LEMMA DependencyAdded ==
  ASSUME NEW s \in Steps, NEW on \in Keys \cup {Blank}, NEW mode \in Modes
  PROVE  WithDependency(s, on, mode) \in Steps
<1>1. PICK more : more = Append(s.deps, [on |-> on, mode |-> mode])
  OBVIOUS
<1>2. s.deps \in Seq([on : Keys \cup {Blank}, mode : Modes]) /\ [on |-> on, mode |-> mode] \in [on : Keys \cup {Blank}, mode : Modes]
  BY DEF Steps
<1>3. more \in Seq([on : Keys \cup {Blank}, mode : Modes])
  BY <1>1, <1>2
<1>4. WithDependency(s, on, mode) = [s EXCEPT !.deps = more]
  BY <1>1 DEF WithDependency
<1>5. [s EXCEPT !.deps = more] \in Steps
  BY <1>3 DEF Steps
<1> QED BY <1>4, <1>5, Zenon

LEMMA DependsOnInv ==
  ASSUME DagInv, NEW on \in Keys \cup {Blank}, NEW mode \in Modes, DependsOn(on, mode)
  PROVE  DagInv'
<1>1. /\ draft \in Steps /\ draft' = WithDependency(draft, on, mode)
      /\ run' = run /\ persisted' = persisted /\ answer' = answer
  BY DEF DependsOn, DagInv
<1>2. draft' \in Steps
  BY <1>1, DependencyAdded
<1> QED BY <1>1, <1>2, QuietInv DEF DagInv

LEMMA StepAppended ==
  ASSUME NEW r \in Runs, NEW s \in Steps
  PROVE  /\ [r EXCEPT !.steps = Append(@, s)] \in Runs
         /\ [r EXCEPT !.steps = Append(@, s)].steps = Append(r.steps, s)
<1>1. PICK more : more = Append(r.steps, s)
  OBVIOUS
<1>2. more \in Seq(Steps)
  BY <1>1 DEF Runs
<1>3. [r EXCEPT !.steps = Append(@, s)] = [r EXCEPT !.steps = more]
  BY <1>1
<1>4. [r EXCEPT !.steps = more] \in Runs /\ [r EXCEPT !.steps = more].steps = more
  BY <1>2 DEF Runs
<1> QED BY <1>1, <1>3, <1>4, Zenon

LEMMA AddStepInv ==
  ASSUME DagInv, AddStep
  PROVE  DagInv'
<1>0. draft \in Steps /\ run \in Runs
  BY DEF AddStep, DagInv
<1>1. PICK input, a, b :
        /\ input = [run EXCEPT !.steps = Append(@, draft)]
        /\ a = ValidateStep(draft)
        /\ b = Check(api = "dag" /\ draft.key \in KeysOf(run.steps), "DuplicateStepKey", draft.key)
  OBVIOUS
<1>2. \/ Fails(FirstOf(<<a, b>>), "step", input)
      \/ run' = input /\ draft' = NoDraft /\ persisted' = persisted /\ answer' = answer
  BY <1>1 DEF AddStep
<1>3. input \in Runs /\ input.steps = Append(run.steps, draft)
  BY <1>0, <1>1, StepAppended
<1>4. CASE run' = input /\ draft' = NoDraft /\ persisted' = persisted /\ answer' = answer
  BY <1>3, <1>4, QuietInv
<1>5. CASE Fails(FirstOf(<<a, b>>), "step", input)
  <2> DEFINE steps == input.steps
             i == Len(run.steps) + 1
  <2>1. run.steps \in Seq(Steps)
    BY <1>0 DEF Runs
  <2>2. /\ steps \in Seq(Steps) /\ i \in DOMAIN steps /\ steps[i] = draft
        /\ \A h \in DOMAIN run.steps : h \in DOMAIN steps /\ h # i /\ steps[h] = run.steps[h]
    BY <1>0, <1>3, <2>1
  <2> HIDE DEF steps, i
  <2>3. Fits(a, steps, {})
    BY <1>1, <2>2, StepErrorsFit
  <2>4. Fits(b, steps, {})
    <3>1. CASE ~(api = "dag" /\ draft.key \in KeysOf(run.steps))
      <4>1. b = Ok
        BY <1>1, <3>1 DEF Check
      <4> QED BY <4>1, OkFits
    <3>2. CASE api = "dag" /\ draft.key \in KeysOf(run.steps)
      <4>1. b = [is |-> "DuplicateStepKey", step |-> draft.key]
        BY <1>1, <3>2 DEF Check
      <4>2. PICK h \in DOMAIN run.steps : run.steps[h].key = draft.key
        BY <3>2 DEF KeysOf
      <4>3. h \in DOMAIN steps /\ h # i /\ steps[h].key = b.step /\ steps[i].key = b.step
        BY <2>2, <4>1, <4>2
      <4> QED BY <2>2, <4>1, <4>3 DEF Fits, Names, Ok
    <3> QED BY <3>1, <3>2
  <2>5. PICK c : c = FirstOf(<<a, b>>)
    OBVIOUS
  <2>6. c = IF a # Ok THEN a ELSE b
    BY <2>5, FirstOfTwo
  <2>7. Fits(c, input.steps, {})
    BY <2>3, <2>4, <2>6 DEF steps
  <2>8. Fails(c, "step", input)
    BY <1>5, <2>5, Zenon
  <2> QED BY <2>7, <2>8, FailsInv
<1> QED BY <1>2, <1>4, <1>5

LEMMA AfterInv ==
  ASSUME DagInv, NEW key \in Keys \cup {Blank}, NEW on \in Keys \cup {Blank}, NEW mode \in Modes, After(key, on, mode)
  PROVE  DagInv'
<1>1. PICK a, b, c :
        /\ a = Check(key = Blank, "BlankStepKey", key)
        /\ b = Check(on = Blank, "BlankDependencyStepKey", key)
        /\ c = Check(key \notin KeysOf(run.steps), "UnknownStepKey", key)
  OBVIOUS
<1> DEFINE steps == [i \in DOMAIN run.steps |->
                       IF run.steps[i].key = key THEN WithDependency(run.steps[i], on, mode) ELSE run.steps[i]]
<1>2. \/ Fails(FirstOf(<<a, b, c>>), "after", run)
      \/ run' = [run EXCEPT !.steps = steps] /\ draft' = draft /\ persisted' = persisted /\ answer' = answer
  BY <1>1 DEF After
<1>3. CASE run' = [run EXCEPT !.steps = steps] /\ draft' = draft /\ persisted' = persisted /\ answer' = answer
  <2>1. run \in Runs /\ run.steps \in Seq(Steps)
    BY DEF DagInv, Runs
  <2>2. \A s \in Steps : WithDependency(s, on, mode) \in Steps
    BY DependencyAdded
  <2>3. steps \in Seq(Steps)
    BY <2>1, <2>2
  <2> HIDE DEF steps
  <2>4. run' \in Runs
    BY <1>3, <2>1, <2>3 DEF Runs
  <2> QED BY <1>3, <2>4, QuietInv DEF DagInv
<1>4. CASE Fails(FirstOf(<<a, b, c>>), "after", run)
  <2>1. PICK e : e = FirstOf(<<a, b, c>>)
    OBVIOUS
  <2>2. e = IF a # Ok THEN a ELSE IF b # Ok THEN b ELSE c
    BY <2>1, FirstOfThree
  <2>3. Fits(a, run.steps, {}) /\ Fits(b, run.steps, {}) /\ Fits(c, run.steps, {})
    BY <1>1, OkFits
  <2>4. Fits(e, run.steps, {})
    BY <2>2, <2>3
  <2>5. Fails(e, "after", run)
    BY <1>4, <2>1, Zenon
  <2> QED BY <2>4, <2>5, FailsInv
<1> QED BY <1>2, <1>3, <1>4

LEMMA SetOptionInv ==
  ASSUME DagInv, NEW option \in {"idempotency_key", "active_key"}, NEW value \in Options \cup {"none"},
         SetOption(option, value)
  PROVE  DagInv'
<1>1. /\ option = "idempotency_key" => value # "too_long"
      /\ run' = [run EXCEPT ![option] = value] /\ draft' = draft /\ persisted' = persisted /\ answer' = answer
  BY DEF SetOption
<1>2. value \in {"none", "ok", "blank", "too_long"}
  BY DagAssumption
<1>3. run' \in Runs
  BY <1>1, <1>2 DEF DagInv, Runs
<1> QED BY <1>1, <1>3, QuietInv DEF DagInv

LEMMA ResultStepInv ==
  ASSUME DagInv, NEW key \in Keys \cup {Blank, "none"}, ResultStep(key)
  PROVE  DagInv'
<1>1. PICK e : e = Check(key = Blank, "BlankResultStepKey", "none")
  OBVIOUS
<1>2. \/ Fails(e, "result", run)
      \/ run' = [run EXCEPT !.result = key] /\ draft' = draft /\ persisted' = persisted /\ answer' = answer
  BY <1>1 DEF ResultStep
<1>3. CASE Fails(e, "result", run)
  <2>1. Fits(e, run.steps, {})
    BY <1>1, OkFits
  <2> QED BY <1>3, <2>1, FailsInv
<1>4. CASE run' = [run EXCEPT !.result = key] /\ draft' = draft /\ persisted' = persisted /\ answer' = answer
  <2>1. run' \in Runs
    BY <1>4 DEF DagInv, Runs
  <2> QED BY <1>4, <2>1, QuietInv DEF DagInv
<1> QED BY <1>2, <1>3, <1>4

(* An accepted input: what becomes of the persisted steps is sound, and    *)
(* an accepted run is complete.                                            *)
LEMMA AcceptedInv ==
  ASSUME DagInv, NEW of \in {"build", "append"}, NEW input, NEW steps \in Seq(Steps),
         Sound(steps, {}), persisted' = steps, draft' = draft, run' = NoRun,
         of = "build" => Complete(input), Said(Ok, of, input)
  PROVE  DagInv'
<1>1. answer'.is = "ok" /\ answer'.of = of /\ answer'.input = input
  BY DEF Said, Ok
<1>2. RefusedIsUnsound'
  BY <1>1 DEF RefusedIsUnsound
<1>3. AcceptedRunIsComplete'
  BY <1>1 DEF AcceptedRunIsComplete, Complete
<1>4. ErrorNamesTheFault'
  BY <1>1 DEF ErrorNamesTheFault, Names
<1>5. AnswerInv'
  BY <1>2, <1>3, <1>4 DEF AnswerInv
<1> QED BY <1>5, NoRunTyped DEF DagInv

LEMMA BuildInv ==
  ASSUME DagInv, Build
  PROVE  DagInv'
<1> DEFINE each == [i \in DOMAIN run.steps |-> ValidateStep(run.steps[i])]
<1>0. run \in Runs /\ run.steps \in Seq(Steps)
  BY DEF DagInv, Runs
<1>1. PICK a, b, check :
        /\ a = FirstOf(each) /\ b = ValidateRun(run)
        /\ check = IF api = "dag" THEN FirstOf(<<a, b>>) ELSE b
  OBVIOUS
<1>2. \/ Fails(check, "build", run)
      \/ check = Ok /\ persisted' = run.steps /\ Said(Ok, "build", run) /\ run' = NoRun /\ draft' = draft
  BY <1>1 DEF Build
<1>3. check = IF api = "dag" /\ a # Ok THEN a ELSE b
  BY <1>1, FirstOfTwo
<1>4. Fits(b, run.steps, {}) /\ (b = Ok <=> run.steps # <<>> /\ Sound(run.steps, {}) /\ Complete(run))
  BY <1>0, <1>1, ValidateRunIsExact
<1>5. Fits(a, run.steps, {}) /\ (Sound(run.steps, {}) => a = Ok)
  <2>1. DOMAIN each = DOMAIN run.steps /\ DOMAIN each \subseteq Nat
    BY <1>0
  <2>2. \A i \in DOMAIN each : each[i] = ValidateStep(run.steps[i])
    BY <2>1
  <2>3. \A i \in DOMAIN each : Fits(each[i], run.steps, {})
    BY <1>0, <2>1, <2>2, StepErrorsFit
  <2>4. ASSUME Sound(run.steps, {}), NEW i \in DOMAIN each PROVE each[i] = Ok
    <3>1. run.steps[i] \in Steps /\ i \in DOMAIN run.steps
      BY <1>0, <2>1
    <3>2. /\ WellFormed(run.steps[i]) /\ WaitsOnce(run.steps[i])
          /\ Waits(run.steps, i) \subseteq (KeysOf(run.steps) \ {run.steps[i].key}) \cup {}
      BY <2>4, <3>1 DEF Sound
    <3>3. Blank \notin KeysOf(run.steps)
      BY <2>4, DagAssumption DEF Sound, WellFormed, KeysOf
    <3>4. \A d \in DOMAIN run.steps[i].deps : run.steps[i].deps[d].on \notin {Blank, run.steps[i].key}
      BY <3>2, <3>3 DEF Waits
    <3> QED BY <2>2, <3>1, <3>2, <3>4, ValidateStepIsExact
  <2> HIDE DEF each
  <2>5. Fits(FirstOf(each), run.steps, {}) /\ ((FirstOf(each) = Ok) <=> \A i \in DOMAIN each : each[i] = Ok)
    BY <2>1, <2>3, FirstErrorFits
  <2> QED BY <1>1, <2>4, <2>5
<1>6. CASE Fails(check, "build", run)
  <2>1. Fits(check, run.steps, {})
    BY <1>3, <1>4, <1>5
  <2>2. check # Ok
    BY <1>6 DEF Fails
  <2>3. run.steps = <<>> \/ ~Sound(run.steps, {}) \/ ~Complete(run)
    BY <1>3, <1>4, <1>5, <2>2
  <2>4. Complete(run) \/ run.workflow_type = "blank" \/ run.idempotency_key = "blank"
           \/ run.active_key \in {"blank", "too_long"} \/ run.result \notin KeysOf(run.steps) \cup {"none"}
    BY <1>0 DEF Complete, Runs
  <2> QED BY <1>6, <2>1, <2>3, <2>4, FailsInv
<1>7. CASE check = Ok /\ persisted' = run.steps /\ Said(Ok, "build", run) /\ run' = NoRun /\ draft' = draft
  <2>1. Sound(run.steps, {}) /\ Complete(run)
    BY <1>3, <1>4, <1>7
  <2> QED BY <1>0, <1>7, <2>1, AcceptedInv
<1> QED BY <1>2, <1>6, <1>7

LEMMA AppendStepsInv ==
  ASSUME DagInv, AppendSteps
  PROVE  DagInv'
<1>0. run \in Runs /\ run.steps \in Seq(Steps) /\ persisted \in Seq(Steps) /\ Sound(persisted, {})
  BY DEF DagInv, Runs
<1>1. PICK check : check = ValidateSteps(run.steps, KeysOf(persisted))
  OBVIOUS
<1>2. \/ Fails(check, "append", run)
      \/ /\ check = Ok /\ persisted' = persisted \o run.steps /\ Said(Ok, "append", run)
         /\ run' = NoRun /\ draft' = draft
  BY <1>1 DEF AppendSteps
<1>3. KeysOf(persisted) \in SUBSET Keys
  BY <1>0 DEF Sound, WellFormed, KeysOf
<1>4. /\ Fits(check, run.steps, KeysOf(persisted))
      /\ check = Ok <=> run.steps # <<>> /\ Sound(run.steps, KeysOf(persisted))
  BY <1>0, <1>1, <1>3, ValidateStepsIsExact
<1>5. CASE Fails(check, "append", run)
  <2>1. check # Ok
    BY <1>5 DEF Fails
  <2> QED BY <1>4, <1>5, <2>1, FailsInv
<1>6. CASE /\ check = Ok /\ persisted' = persisted \o run.steps /\ Said(Ok, "append", run)
           /\ run' = NoRun /\ draft' = draft
  <2>1. persisted \o run.steps \in Seq(Steps) /\ Sound(persisted \o run.steps, {})
    BY <1>0, <1>4, <1>6, AppendKeepsSound
  <2> QED BY <1>6, <2>1, AcceptedInv
<1> QED BY <1>2, <1>5, <1>6

LEMMA DagNextInv == DagInv /\ [DagNext]_dvars => DagInv'
<1> SUFFICES ASSUME DagInv, [DagNext]_dvars PROVE DagInv'
  OBVIOUS
<1>1. ASSUME NEW key \in Keys \cup {Blank}, NEW checked \in BOOLEAN, NewStep(key, "EXTERNAL", "none", checked)
      PROVE  DagInv'
  BY <1>1, NewStepInv
<1>2. ASSUME NEW key \in Keys \cup {Blank}, NEW checked \in BOOLEAN, NEW job_type \in JobTypes,
             NewStep(key, "JOB", job_type, checked)
      PROVE  DagInv'
  BY <1>2, NewStepInv
<1>3. ASSUME NEW setting \in Settings, NEW value \in {"none", "ok", "bad"}, Configure(setting, value)
      PROVE  DagInv'
  BY <1>3, ConfigureInv
<1>4. ASSUME NEW on \in Keys \cup {Blank}, NEW mode \in Modes, DependsOn(on, mode)
      PROVE  DagInv'
  BY <1>4, DependsOnInv
<1>5. ASSUME NEW on \in Keys \cup {Blank}, NEW mode \in Modes, NEW key \in Keys \cup {Blank}, After(key, on, mode)
      PROVE  DagInv'
  BY <1>5, AfterInv
<1>6. ASSUME NEW value \in Options \cup {"none"}, SetOption("idempotency_key", value) \/ SetOption("active_key", value)
      PROVE  DagInv'
  BY <1>6, SetOptionInv
<1>7. ASSUME NEW key \in Keys \cup {Blank, "none"}, ResultStep(key)
      PROVE  DagInv'
  BY <1>7, ResultStepInv
<1>8. CASE AddStep
  BY <1>8, AddStepInv
<1>9. CASE Build
  BY <1>9, BuildInv
<1>10. CASE AppendSteps
  BY <1>10, AppendStepsInv
<1>11. CASE UNCHANGED dvars
  <2>1. draft' = draft /\ run' = run /\ persisted' = persisted /\ answer' = answer
    BY <1>11 DEF dvars
  <2> QED BY <2>1, QuietInv DEF DagInv
<1> QED BY <1>1, <1>2, <1>3, <1>4, <1>5, <1>6, <1>7, <1>8, <1>9, <1>10, <1>11 DEF DagNext

(* The validation of workflows is exact, for workflows of every size and   *)
(* every sequence of builder calls and appends: what is stored is an       *)
(* acyclic graph with all of its parts although each append only looks at  *)
(* its own batch, what is refused had a fault, and the error names it.     *)
THEOREM DagCorrect == DagSpec => []ValidationIsExact
<1>1. DagInv => ValidationIsExact
  BY DEF DagInv, AnswerInv, ValidationIsExact, PersistedIsSound
<1> QED BY <1>1, DagInitInv, DagNextInv, PTL DEF DagSpec
=============================================================================
