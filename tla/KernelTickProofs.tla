-------------------------- MODULE KernelTickProofs --------------------------
(***************************************************************************)
(* Proofs about KernelTick: for every memory, text, route and policy, the  *)
(* memory stays well formed, a tick calls models within the policy, what   *)
(* is remembered was done, and exact answers stay.                         *)
(***************************************************************************)
EXTENDS KernelTick, FiniteSetTheorems, TLAPS

-----------------------------------------------------------------------------
(* Routes and policies *)

\* A route that the policy allows is within the policy once enforced.
LEMMA EnforceIsWithin ==
  ASSUME NEW p \in Policies, NEW route \in Routes, allows(p, route)
  PROVE  WithinPolicy(p, enforce(p, route))
<1>1. CASE Downgrades(p, route)
  <2>1. /\ enforce(p, route).backend = "free"
        /\ enforce(p, route).max_tokens <= p.free_max_tokens
    BY <1>1 DEF enforce, Lesser, Policies, Routes
  <2>2. p.models_enabled
    BY DEF allows
  <2> QED BY <2>1, <2>2 DEF WithinPolicy
<1>2. CASE ~Downgrades(p, route)
  <2>1. /\ enforce(p, route).backend = route.backend
        /\ enforce(p, route).max_tokens = Lesser(route.max_tokens, TierCap(p, route.backend))
    BY <1>2 DEF enforce
  <2>2. TierCap(p, route.backend) \in Nat
    BY DEF TierCap, Policies
  <2>3. enforce(p, route).max_tokens <= TierCap(p, route.backend)
    BY <2>1, <2>2 DEF Lesser, Routes
  <2> QED BY <1>2, <2>1, <2>3 DEF WithinPolicy, allows, TierCap, Downgrades
<1> QED BY <1>1, <1>2

\* Enforcing a policy gives a route again.
LEMMA EnforceGivesRoute ==
  ASSUME NEW p \in Policies, NEW route \in Routes
  PROVE  enforce(p, route) \in Routes
BY DEF enforce, Routes, Backends, Lesser, TierCap, Policies

\* The router proposes a route.
LEMMA ResolveGivesRoute ==
  ASSUME NEW words, NEW keys, NEW long_running \in BOOLEAN
  PROVE  resolve(words, keys, long_running) \in Routes
BY DEF resolve, Routes, Backends

-----------------------------------------------------------------------------
(* The memory *)

\* A finite set under a total and transitive relation has a greatest element.
LEMMA FiniteHasTop ==
  ASSUME NEW F, IsFiniteSet(F), F # {}, NEW R,
         \A x, y \in F : <<x, y>> \in R \/ <<y, x>> \in R,
         \A x, y, z \in F : <<x, y>> \in R /\ <<y, z>> \in R => <<x, z>> \in R
  PROVE  \E m \in F : \A x \in F : <<x, m>> \in R
<1> DEFINE HasTop(U) == \E m \in U : \A x \in U : <<x, m>> \in R
           Bad == {U \in SUBSET F : U # {} /\ ~HasTop(U)}
<1>1. SUFFICES ASSUME Bad # {} PROVE FALSE
  OBVIOUS
<1>2. /\ FiniteSubsetsOf(F) = SUBSET F
      /\ IsWellFoundedOn(StrictSubsetOrdering(F), FiniteSubsetsOf(F))
  BY FS_FiniteSubsetsOfFinite, FS_StrictSubsetOrderingWellFounded
<1>3. PICK U \in Bad : \A V \in Bad : <<V, U>> \notin StrictSubsetOrdering(F)
  <2>1. Bad \subseteq SUBSET F
    OBVIOUS
  <2> HIDE DEF Bad
  <2> QED BY <1>1, <1>2, <2>1, WFMin
<1>4. PICK a \in U : TRUE
  OBVIOUS
<1> DEFINE V == U \ {a}
<1>5. V \in SUBSET F /\ <<V, U>> \in StrictSubsetOrdering(F)
  <2>1. V \in SUBSET F /\ U \in SUBSET F /\ V \subseteq U /\ V # U
    OBVIOUS
  <2> HIDE DEF V
  <2> QED BY <2>1 DEF StrictSubsetOrdering
<1>6. CASE V = {}
  BY <1>4, <1>6
<1>7. CASE V # {}
  <2>1. HasTop(V)
    BY <1>3, <1>5, <1>7
  <2>2. PICK m \in V : \A x \in V : <<x, m>> \in R
    BY <2>1
  <2>3. CASE <<a, m>> \in R
    BY <2>2, <2>3, <1>3
  <2>4. CASE <<m, a>> \in R
    BY <2>2, <2>4, <1>3, <1>4
  <2> QED BY <2>2, <2>3, <2>4, <1>3, <1>4
<1> QED BY <1>6, <1>7

\* Reinforcing a well-formed memory leaves it well formed, keeps the action of a
\* record that was there, and does not lower its confidence.
LEMMA ReinforceKeeps ==
  ASSUME NEW m, DOMAIN m \subseteq Intents, m \in [DOMAIN m -> PatternRecord],
         NEW i \in Intents, NEW action \in Actions, NEW route \in Routes \cup {NoRoute}
  PROVE  /\ reinforce(m, i, action, route) \in [DOMAIN m \cup {i} -> PatternRecord]
         /\ \A j \in DOMAIN m :
              /\ reinforce(m, i, action, route)[j].action = m[j].action
              /\ reinforce(m, i, action, route)[j].confidence >= m[j].confidence
         /\ i \notin DOMAIN m => reinforce(m, i, action, route)[i].action = action
<1> DEFINE n == reinforce(m, i, action, route)
<1>1. DOMAIN n = DOMAIN m \cup {i}
  BY DEF reinforce
<1>2. ASSUME NEW j \in DOMAIN m
      PROVE  /\ n[j] \in PatternRecord
             /\ n[j].action = m[j].action
             /\ n[j].confidence >= m[j].confidence
  <2>1. m[j] \in PatternRecord
    OBVIOUS
  <2>2. CASE j # i
    <3>1. n[j] = m[j]
      BY <2>2 DEF reinforce
    <3> QED BY <2>1, <3>1 DEF PatternRecord, Confidences
  <2>3. CASE j = i
    <3>1. n[j] = Strengthened(m[j], route)
      BY <2>3 DEF reinforce
    <3>2. /\ Lesser(100, m[j].confidence + 5) \in Confidences
          /\ Lesser(100, m[j].confidence + 5) >= m[j].confidence
      BY <2>1 DEF PatternRecord, Confidences, Lesser
    <3>3. (IF route = NoRoute THEN m[j].route ELSE route) \in Routes \cup {NoRoute}
      BY <2>1 DEF PatternRecord
    <3> QED BY <2>1, <3>1, <3>2, <3>3 DEF Strengthened, PatternRecord
  <2> QED BY <2>2, <2>3
<1>3. i \notin DOMAIN m => n[i] = [action |-> action, confidence |-> 100, route |-> route]
  BY DEF reinforce
<1>4. i \notin DOMAIN m => n[i] \in PatternRecord
  BY <1>3 DEF PatternRecord, Confidences
<1>5. n = [j \in DOMAIN n |-> n[j]]
  BY DEF reinforce
<1>6. n \in [DOMAIN m \cup {i} -> PatternRecord]
  <2> HIDE DEF n
  <2> QED BY <1>1, <1>2, <1>4, <1>5
<1> QED BY <1>2, <1>3, <1>6

\* Scores are natural numbers.
LEMMA ScoreInNat ==
  ASSUME NEW m, m \in [DOMAIN m -> PatternRecord],
         NEW q \in Intents, NEW i \in DOMAIN m, i \in Intents
  PROVE  Score(m, q, i) \in Nat
<1>1. Overlap(q, i) \in Nat
  BY IntentsAssumption, FS_Intersection, FS_CardinalityType DEF Overlap
<1>2. Union(q, i) \in Nat /\ Union(q, i) # 0
  <2>1. IsFiniteSet(Tokens[q] \cup Tokens[i]) /\ Tokens[q] \cup Tokens[i] # {}
    BY IntentsAssumption, FS_Union
  <2> QED BY <2>1, FS_CardinalityType, FS_EmptySet DEF Union
<1>3. m[i].confidence \in Nat
  BY DEF PatternRecord, Confidences
<1>4. 200 * Overlap(q, i) * m[i].confidence + Union(q, i) \in Nat
  BY <1>1, <1>2, <1>3
<1>5. \A a, b \in Nat : b # 0 => a \div (2 * b) \in Nat
  OBVIOUS
<1> QED BY <1>2, <1>4, <1>5 DEF Score

\* If there are candidates, the one taken is among them and none scores higher.
LEMMA BestIsCandidate ==
  ASSUME NEW m, DOMAIN m \subseteq Intents, m \in [DOMAIN m -> PatternRecord],
         NEW o \in Seq(Intents), {o[k] : k \in DOMAIN o} = DOMAIN m,
         NEW q \in Intents, Candidates(m, o, q) # {}
  PROVE  /\ BestCandidate(m, o, q) \in Candidates(m, o, q)
         /\ \A j \in Candidates(m, o, q) :
              Score(m, q, o[j]) <= Score(m, q, o[BestCandidate(m, o, q)])
<1> DEFINE found == Candidates(m, o, q)
           score == [k \in found |-> Score(m, q, o[k])]
           better(j, k) == score[j] < score[k] \/ (score[j] = score[k] /\ k <= j)
           R == {p \in found \X found : better(p[1], p[2])}
<1>1. found \subseteq 1..Len(o)
  BY DEF Candidates
<1>2. IsFiniteSet(found)
  <2>1. Len(o) \in Int /\ 1 \in Int
    OBVIOUS
  <2>2. IsFiniteSet(1..Len(o))
    BY <2>1, FS_Interval
  <2> HIDE DEF found
  <2> QED BY <1>1, <2>2, FS_Subset
<1>3. \A k \in found : score[k] \in Nat /\ k \in Nat
  <2>1. \A k \in found : o[k] \in DOMAIN m /\ o[k] \in Intents
    BY <1>1
  <2> QED BY <1>1, <2>1, ScoreInNat
<1>4. \A j, k \in found : better(j, k) \/ better(k, j)
  BY <1>3
<1>5. \A j, k, l \in found : better(j, k) /\ better(k, l) => better(j, l)
  BY <1>3
<1>6. \A j, k \in found : <<j, k>> \in R <=> better(j, k)
  OBVIOUS
<1>7. \E k \in found : \A j \in found : <<j, k>> \in R
  <2> HIDE DEF found, R, better
  <2> QED BY <1>2, <1>4, <1>5, <1>6, FiniteHasTop DEF found
<1>8. \E k \in found : \A j \in found : better(j, k)
  BY <1>6, <1>7
<1>9. BestCandidate(m, o, q) = CHOOSE k \in found : \A j \in found : better(j, k)
  BY DEF BestCandidate
<1>10. /\ BestCandidate(m, o, q) \in found
       /\ \A j \in found : better(j, BestCandidate(m, o, q))
  <2> HIDE DEF found, better
  <2> QED BY <1>8, <1>9
<1>11. \A j \in found : score[j] <= score[BestCandidate(m, o, q)]
  BY <1>3, <1>10
<1> QED BY <1>10, <1>11

\* An answer comes from a record of the memory.
LEMMA AnswerIsRecord ==
  ASSUME NEW m, DOMAIN m \subseteq Intents, m \in [DOMAIN m -> PatternRecord],
         NEW o \in Seq(Intents), {o[k] : k \in DOMAIN o} = DOMAIN m,
         NEW q \in Intents, lookup_best(m, o, q) # NoMatch
  PROVE  lookup_best(m, o, q).source \in DOMAIN m
<1>1. CASE ExactHit(m, q)
  BY <1>1 DEF ExactHit, lookup_best
<1>2. CASE ~ExactHit(m, q)
  <2>1. Candidates(m, o, q) # {}
    BY <1>2 DEF lookup_best
  <2>2. BestCandidate(m, o, q) \in DOMAIN o
    BY <2>1, BestIsCandidate DEF Candidates
  <2>3. lookup_best(m, o, q).source = o[BestCandidate(m, o, q)]
    BY <1>2, <2>1 DEF lookup_best
  <2> QED BY <2>2, <2>3
<1> QED BY <1>1, <1>2

\* The order of a memory: a sequence that lists each of its intents once.
Lists(o, D) ==
  /\ o \in Seq(Intents)
  /\ {o[k] : k \in DOMAIN o} = D
  /\ Len(o) = Cardinality(D)

\* The order a file gives back lists the records.
LEMMA SortedLists ==
  ASSUME NEW D \in SUBSET Intents, NEW o \in SortedOrders(D)
  PROVE  Lists(o, D)
<1>1. Cardinality(D) \in Nat
  BY IntentsAssumption, FS_Subset, FS_CardinalityType
<1>2. o \in [1..Cardinality(D) -> D] /\ {o[k] : k \in DOMAIN o} = D
  BY DEF SortedOrders
<1>3. o \in Seq(Intents) /\ Len(o) = Cardinality(D)
  BY <1>1, <1>2
<1> QED BY <1>2, <1>3 DEF Lists

\* The order after a reinforcement lists the records.
LEMMA OrderWithLists ==
  ASSUME NEW m, DOMAIN m \subseteq Intents, NEW o, Lists(o, DOMAIN m),
         NEW i \in Intents
  PROVE  Lists(OrderWith(m, o, i), DOMAIN m \cup {i})
<1>1. CASE i \in DOMAIN m
  <2>1. DOMAIN m \cup {i} = DOMAIN m
    BY <1>1
  <2> QED BY <1>1, <2>1 DEF OrderWith
<1>2. CASE i \notin DOMAIN m
  <2> DEFINE n == Append(o, i)
  <2>1. n \in Seq(Intents) /\ Len(n) = Len(o) + 1 /\ Len(o) \in Nat
    BY DEF Lists
  <2>2. {n[k] : k \in DOMAIN n} = DOMAIN m \cup {i}
    <3>1. DOMAIN n = DOMAIN o \cup {Len(o) + 1}
      BY DEF Lists
    <3>2. \A k \in DOMAIN o : n[k] = o[k]
      BY DEF Lists
    <3>3. n[Len(o) + 1] = i
      BY DEF Lists
    <3> HIDE DEF n
    <3> QED BY <3>1, <3>2, <3>3 DEF Lists
  <2>3. Cardinality(DOMAIN m \cup {i}) = Cardinality(DOMAIN m) + 1
    BY <1>2, IntentsAssumption, FS_Subset, FS_AddElement
  <2>4. OrderWith(m, o, i) = n
    BY <1>2 DEF OrderWith
  <2> QED BY <2>1, <2>2, <2>3, <2>4 DEF Lists
<1> QED BY <1>1, <1>2

-----------------------------------------------------------------------------
(* The tick *)

\* What a tick asks for, and the route it puts to the budget, are of their types.
LEMMA TickAsks ==
  ASSUME PatternsOK, OrderOK, NEW t \in Texts, NEW payload \in Payloads
  PROVE  /\ Normal[t] \in Intents
         /\ Wanted(t, Answer(t)) \in Actions
         /\ Proposed(t, Answer(t), payload) \in Routes
<1>1. Normal[t] \in Intents
  BY TickAssumption
<1>2. Answer(t) # NoMatch =>
        /\ patterns[Answer(t).source].action \in Actions
        /\ patterns[Answer(t).source].route \in Routes \cup {NoRoute}
  <2>1. SUFFICES ASSUME Answer(t) # NoMatch
                 PROVE  patterns[Answer(t).source] \in PatternRecord
    BY DEF PatternRecord
  <2>2. Answer(t).source \in DOMAIN patterns
    BY <1>1, <2>1, AnswerIsRecord DEF Answer, PatternsOK, OrderOK
  <2> QED BY <2>2 DEF PatternsOK
<1>3. Wanted(t, Answer(t)) \in Actions
  BY <1>2, TickAssumption DEF Wanted
<1>4. /\ payload.route \in Routes \cup {NoRoute}
      /\ resolve(Words[t], payload.keys, payload.long_running) \in Routes
  <2>1. payload.route \in Routes \cup {NoRoute} /\ payload.long_running \in BOOLEAN
    BY TickAssumption
  <2> QED BY <2>1, ResolveGivesRoute
<1>5. Proposed(t, Answer(t), payload) \in Routes
  <2> DEFINE stored == IF Answer(t) # NoMatch THEN patterns[Answer(t).source].route ELSE NoRoute
             asked  == Answer(t) = NoMatch /\ StaticRoutes[t] = "noop"
  <2>1. stored \in Routes \cup {NoRoute}
    BY <1>2
  <2>2. CASE stored # NoRoute
    <3>1. Proposed(t, Answer(t), payload) = stored
      BY <2>2 DEF Proposed
    <3> QED BY <2>1, <2>2, <3>1
  <2>3. CASE stored = NoRoute /\ payload.route # NoRoute /\ ~asked
    <3>1. Proposed(t, Answer(t), payload) = payload.route
      BY <2>3 DEF Proposed
    <3> QED BY <1>4, <2>3, <3>1
  <2>4. CASE stored = NoRoute /\ ~(payload.route # NoRoute /\ ~asked)
    <3>1. Proposed(t, Answer(t), payload)
            = resolve(Words[t], payload.keys, payload.long_running)
      BY <2>4 DEF Proposed
    <3> QED BY <1>4, <3>1
  <2> QED BY <2>2, <2>3, <2>4
<1> QED BY <1>1, <1>3, <1>5

\* The two ways an action's success enters the history and the memory.
Recorded(i, action) == did' = [did EXCEPT ![i] = @ \cup ({action} \ {"noop"})]
Learned(i, action, route) ==
  /\ action # "noop"
  /\ patterns' = reinforce(patterns, i, action, route)
  /\ order' = OrderWith(patterns, order, i)

\* What a tick does: it calls a model within the policy or none, and it learns at
\* most what it records as done.
LEMMA TickDoes ==
  ASSUME TickTypeOK, NEW t \in Texts, NEW payload \in Payloads, Tick(t, payload)
  PROVE  /\ policy' = policy
         /\ \E action \in Actions, route \in Routes \cup {NoRoute} :
              /\ \/ call' = NoCall
                 \/ /\ route \in Routes
                    /\ call' = [by |-> "tick", route |-> route]
                    /\ WithinPolicy(policy, route)
              /\ did' = did \/ Recorded(Normal[t], action)
              /\ \/ UNCHANGED <<patterns, order>>
                 \/ Recorded(Normal[t], action) /\ Learned(Normal[t], action, route)
<1> DEFINE match == Answer(t)
           wanted == Wanted(t, match)
           asked == Proposed(t, match, payload)
           refused == wanted = "model_infer" /\ ~allows(policy, asked)
           action == IF refused THEN "noop" ELSE wanted
           route == IF action = "model_infer" THEN enforce(policy, asked) ELSE NoRoute
<1>1. policy \in Policies
  BY TickAssumption DEF TickTypeOK
<1>2. wanted \in Actions /\ asked \in Routes
  BY TickAsks DEF TickTypeOK
<1>3. action \in Actions
  BY <1>2, TickAssumption
<1>4. action = "model_infer" => route \in Routes /\ WithinPolicy(policy, route)
  <2>1. SUFFICES ASSUME action = "model_infer"
                 PROVE  route \in Routes /\ WithinPolicy(policy, route)
    OBVIOUS
  <2>2. allows(policy, asked) /\ route = enforce(policy, asked)
    BY <2>1
  <2> HIDE DEF asked, route, action
  <2> QED BY <1>1, <1>2, <2>2, EnforceIsWithin, EnforceGivesRoute
<1>5. route \in Routes \cup {NoRoute}
  BY <1>4
<1>6. PICK status \in Outcomes(action, route) :
        /\ call' = CalledBy("tick", action, route)
        /\ IF status \in Success
           THEN Learn(t, match, action, route) /\ Recorded(Normal[t], action)
           ELSE UNCHANGED <<patterns, order, did>>
        /\ policy' = policy
  BY Zenon DEF Tick, Recorded
<1> HIDE DEF match, action, route
<1>7. \/ call' = NoCall
      \/ /\ route \in Routes
         /\ call' = [by |-> "tick", route |-> route]
         /\ WithinPolicy(policy, route)
  BY <1>4, <1>6 DEF CalledBy
<1>8. did' = did \/ Recorded(Normal[t], action)
  BY <1>6
<1>9. \/ UNCHANGED <<patterns, order>>
      \/ Recorded(Normal[t], action) /\ Learned(Normal[t], action, route)
  BY <1>6 DEF Learn, Learned
<1> QED BY <1>3, <1>5, <1>6, <1>7, <1>8, <1>9

\* A step that learns keeps the memory well formed.
LEMMA LearnKeepsTypes ==
  ASSUME PatternsOK, OrderOK, NEW i \in Intents, NEW action \in Actions,
         NEW route \in Routes \cup {NoRoute}, Learned(i, action, route)
  PROVE  PatternsOK' /\ OrderOK'
<1> DEFINE n == reinforce(patterns, i, action, route)
           o == OrderWith(patterns, order, i)
<1>1. DOMAIN patterns \subseteq Intents /\ patterns \in [DOMAIN patterns -> PatternRecord]
  BY DEF PatternsOK
<1>2. Lists(order, DOMAIN patterns)
  BY DEF OrderOK, Lists
<1>3. n \in [DOMAIN patterns \cup {i} -> PatternRecord]
  BY <1>1, ReinforceKeeps
<1>4. Lists(o, DOMAIN patterns \cup {i})
  BY <1>1, <1>2, OrderWithLists
<1>5. patterns' = n /\ order' = o
  BY DEF Learned
<1> HIDE DEF n, o
<1> QED BY <1>1, <1>3, <1>4, <1>5 DEF PatternsOK, OrderOK, Lists

\* A step that records keeps the history well formed and loses nothing of it.
LEMMA RecordKeeps ==
  ASSUME did \in [Intents -> SUBSET Actions], NEW i \in Intents, NEW action \in Actions,
         did' = did \/ Recorded(i, action)
  PROVE  /\ did' \in [Intents -> SUBSET Actions]
         /\ \A j \in Intents : did[j] \subseteq did'[j]
         /\ Recorded(i, action) /\ action # "noop" => action \in did'[i]
BY DEF Recorded

\* A graph that completes learns and records "task_graph".
LEMMA GraphLearns ==
  ASSUME NEW i \in Intents, GraphLearned(i)
  PROVE  /\ "task_graph" \in Actions
         /\ Recorded(i, "task_graph")
         /\ Learned(i, "task_graph", NoRoute)
         /\ call' = NoCall
         /\ policy' = policy
<1>1. {"task_graph"} \ {"noop"} = {"task_graph"}
  OBVIOUS
<1> QED BY <1>1, TickAssumption DEF GraphLearned, Recorded, Learned

-----------------------------------------------------------------------------
(* Invariants *)

TickInv == TickTypeOK /\ TickCallsWithinPolicy /\ LearnedActionWasExecuted

LEMMA TickInitInv == TickInit => TickInv
<1> SUFFICES ASSUME TickInit PROVE TickInv
  OBVIOUS
<1>1. PatternsOK
  BY TickAssumption DEF TickInit, PatternsOK
<1>2. OrderOK
  <2>1. DOMAIN LoadedPatterns \in SUBSET Intents
    BY TickAssumption
  <2> QED BY <2>1, SortedLists DEF TickInit, OrderOK, Lists
<1>3. call = NoCall /\ NoCall.by # "tick" /\ NoCall \in ModelCalls
  BY DEF TickInit, NoCall, ModelCalls
<1>4. did \in [Intents -> SUBSET Actions]
  BY DEF TickInit
<1>5. LearnedActionWasExecuted
  BY DEF TickInit, LearnedActionWasExecuted
<1> QED BY <1>1, <1>2, <1>3, <1>4, <1>5
        DEF TickInit, TickInv, TickTypeOK, TickCallsWithinPolicy

\* Learning what is recorded keeps the invariant on what is remembered.
LEMMA LearnKeepsDone ==
  ASSUME TickTypeOK, LearnedActionWasExecuted, NEW i \in Intents, NEW action \in Actions,
         NEW route \in Routes \cup {NoRoute}, did' = did \/ Recorded(i, action),
         \/ UNCHANGED <<patterns, order>>
         \/ Recorded(i, action) /\ Learned(i, action, route)
  PROVE  LearnedActionWasExecuted'
<1>1. \A j \in Intents : did[j] \subseteq did'[j]
  BY RecordKeeps DEF TickTypeOK
<1>2. DOMAIN patterns \subseteq Intents /\ patterns \in [DOMAIN patterns -> PatternRecord]
  BY DEF TickTypeOK, PatternsOK
<1>3. CASE UNCHANGED <<patterns, order>>
  BY <1>1, <1>2, <1>3 DEF LearnedActionWasExecuted
<1>4. CASE Recorded(i, action) /\ Learned(i, action, route)
  <2>1. action \in did'[i]
    BY <1>4, RecordKeeps DEF TickTypeOK, Learned
  <2>2. /\ DOMAIN patterns' = DOMAIN patterns \cup {i}
        /\ \A j \in DOMAIN patterns : patterns'[j].action = patterns[j].action
        /\ i \notin DOMAIN patterns => patterns'[i].action = action
    <3>1. patterns' = reinforce(patterns, i, action, route)
      BY <1>4 DEF Learned
    <3>2. reinforce(patterns, i, action, route) \in [DOMAIN patterns \cup {i} -> PatternRecord]
      BY <1>2, ReinforceKeeps
    <3>3. \A j \in DOMAIN patterns :
            reinforce(patterns, i, action, route)[j].action = patterns[j].action
      BY <1>2, ReinforceKeeps
    <3>4. i \notin DOMAIN patterns => reinforce(patterns, i, action, route)[i].action = action
      BY <1>2, ReinforceKeeps
    <3>5. DOMAIN patterns' = DOMAIN patterns \cup {i}
      BY <3>1, <3>2
    <3> QED BY <3>1, <3>3, <3>4, <3>5
  <2> QED BY <1>1, <1>2, <2>1, <2>2 DEF LearnedActionWasExecuted
<1> QED BY <1>3, <1>4

LEMMA TickNextInv == TickInv /\ [TickNext]_tickVars => TickInv'
<1> SUFFICES ASSUME TickInv, [TickNext]_tickVars PROVE TickInv'
  OBVIOUS
<1> USE DEF TickInv
<1>0. /\ PatternsOK /\ OrderOK /\ did \in [Intents -> SUBSET Actions]
      /\ policy \in KernelPolicies
  BY DEF TickTypeOK
<1>1. ASSUME NEW t \in Texts, NEW payload \in Payloads, Tick(t, payload)
      PROVE  TickInv'
  <2>1. PICK action \in Actions, route \in Routes \cup {NoRoute} :
          /\ \/ call' = NoCall
             \/ /\ route \in Routes
                /\ call' = [by |-> "tick", route |-> route]
                /\ WithinPolicy(policy, route)
          /\ did' = did \/ Recorded(Normal[t], action)
          /\ \/ UNCHANGED <<patterns, order>>
             \/ Recorded(Normal[t], action) /\ Learned(Normal[t], action, route)
    BY <1>1, TickDoes
  <2>2. policy' = policy
    BY <1>1, TickDoes
  <2>3. Normal[t] \in Intents
    BY TickAssumption
  <2>4. PatternsOK' /\ OrderOK'
    <3>1. CASE UNCHANGED <<patterns, order>>
      BY <1>0, <3>1 DEF PatternsOK, OrderOK
    <3>2. CASE Learned(Normal[t], action, route)
      BY <1>0, <2>3, <3>2, LearnKeepsTypes
    <3> QED BY <2>1, <3>1, <3>2
  <2>5. did' \in [Intents -> SUBSET Actions]
    BY <1>0, <2>1, <2>3, RecordKeeps
  <2>6. call' \in ModelCalls /\ (call'.by = "tick" => WithinPolicy(policy', call'.route))
    BY <2>1, <2>2 DEF ModelCalls, NoCall
  <2>7. LearnedActionWasExecuted'
    BY <2>1, <2>3, LearnKeepsDone
  <2> QED BY <1>0, <2>2, <2>4, <2>5, <2>6, <2>7 DEF TickTypeOK, TickCallsWithinPolicy
<1>2. ASSUME NEW i \in GraphIntents, GraphLearned(i)
      PROVE  TickInv'
  <2>1. /\ i \in Intents
        /\ "task_graph" \in Actions
        /\ Recorded(i, "task_graph")
        /\ Learned(i, "task_graph", NoRoute)
        /\ call' = NoCall
        /\ policy' = policy
    BY <1>2, TickAssumption, GraphLearns
  <2>2. PatternsOK' /\ OrderOK'
    BY <1>0, <2>1, LearnKeepsTypes
  <2>3. did' \in [Intents -> SUBSET Actions]
    BY <1>0, <2>1, RecordKeeps
  <2>4. LearnedActionWasExecuted'
    BY <2>1, LearnKeepsDone
  <2> QED BY <1>0, <2>1, <2>2, <2>3, <2>4
          DEF TickTypeOK, TickCallsWithinPolicy, ModelCalls, NoCall
<1>3. ASSUME NEW given \in NodeRoutes \cup {NoRoute}, GraphModelCall(given)
      PROVE  TickInv'
  <2>1. call' \in ModelCalls /\ call'.by # "tick"
    <3>1. (IF given = NoRoute THEN [backend |-> "local", max_tokens |-> 256] ELSE given)
            \in Routes
      BY TickAssumption DEF Routes, Backends
    <3> QED BY <1>3, <3>1 DEF GraphModelCall, CalledBy, ModelCalls, NoCall
  <2>2. UNCHANGED <<patterns, order, policy, did>>
    BY <1>3 DEF GraphModelCall
  <2> QED BY <2>1, <2>2 DEF TickTypeOK, PatternsOK, OrderOK, TickCallsWithinPolicy,
                            LearnedActionWasExecuted
<1>4. ASSUME NEW p \in KernelPolicies, Restart(p)
      PROVE  TickInv'
  <2>1. Lists(order', DOMAIN patterns)
    BY <1>0, <1>4, SortedLists DEF Restart, PatternsOK
  <2>2. patterns' = patterns /\ did' = did /\ policy' = p /\ call' = NoCall
    BY <1>4 DEF Restart
  <2> QED BY <1>0, <2>1, <2>2 DEF TickTypeOK, PatternsOK, OrderOK, Lists, ModelCalls, NoCall,
                                  TickCallsWithinPolicy, LearnedActionWasExecuted
<1>5. CASE UNCHANGED tickVars
  BY <1>5 DEF tickVars, TickTypeOK, PatternsOK, OrderOK, TickCallsWithinPolicy,
              LearnedActionWasExecuted
<1> QED BY <1>1, <1>2, <1>3, <1>4, <1>5 DEF TickNext

LEMMA TickInvHolds == TickSpec => []TickInv
BY TickInitInv, TickNextInv, PTL DEF TickSpec

\* For all memories, texts and policies, the memory and its order stay well formed:
\* TickTypeOK.
THEOREM TickTypeCorrect == TickSpec => []TickTypeOK
<1>1. TickInv => TickTypeOK
  BY DEF TickInv
<1> QED BY <1>1, TickInvHolds, PTL

\* A tick never calls a model outside the policy: TickCallsWithinPolicy.
THEOREM TicksStayWithinPolicy == TickSpec => []TickCallsWithinPolicy
<1>1. TickInv => TickCallsWithinPolicy
  BY DEF TickInv
<1> QED BY <1>1, TickInvHolds, PTL

\* What is remembered was loaded or done: LearnedActionWasExecuted.
THEOREM MemoryIsEarned == TickSpec => []LearnedActionWasExecuted
<1>1. TickInv => LearnedActionWasExecuted
  BY DEF TickInv
<1> QED BY <1>1, TickInvHolds, PTL

-----------------------------------------------------------------------------
(* Exact answers *)

\* Learning takes no exact answer away and does not change its action.
LEMMA LearnKeepsAnswers ==
  ASSUME PatternsOK, NEW i \in Intents, NEW action \in Actions,
         NEW route \in Routes \cup {NoRoute}, Learned(i, action, route),
         NEW j \in DOMAIN patterns, ExactHit(patterns, j)
  PROVE  ExactHit(patterns', j) /\ patterns'[j].action = patterns[j].action
<1> DEFINE n == reinforce(patterns, i, action, route)
<1>1. DOMAIN patterns \subseteq Intents /\ patterns \in [DOMAIN patterns -> PatternRecord]
  BY DEF PatternsOK
<1>2. n \in [DOMAIN patterns \cup {i} -> PatternRecord]
  BY <1>1, ReinforceKeeps
<1>3. n[j].action = patterns[j].action /\ n[j].confidence >= patterns[j].confidence
  BY <1>1, ReinforceKeeps
<1>4. n[j].confidence \in Nat /\ patterns[j].confidence \in Nat
  <2> HIDE DEF n
  <2> QED BY <1>1, <1>2 DEF PatternRecord, Confidences
<1>5. patterns' = n
  BY DEF Learned
<1> HIDE DEF n
<1> QED BY <1>2, <1>3, <1>4, <1>5, IntentsAssumption DEF ExactHit

\* An exact answer stays what it is: ExactAnswersStay.
THEOREM ExactAnswersKept == TickSpec => ExactAnswersStay
<1>1. ASSUME TickInv, [TickNext]_tickVars, NEW j \in DOMAIN patterns, ExactHit(patterns, j)
      PROVE  ExactHit(patterns', j) /\ patterns'[j].action = patterns[j].action
  <2>1. PatternsOK
    BY <1>1 DEF TickInv, TickTypeOK
  <2>2. CASE patterns' = patterns
    BY <1>1, <2>2
  <2>3. ASSUME NEW t \in Texts, NEW payload \in Payloads, Tick(t, payload)
        PROVE  ExactHit(patterns', j) /\ patterns'[j].action = patterns[j].action
    <3>1. PICK action \in Actions, route \in Routes \cup {NoRoute} :
            UNCHANGED <<patterns, order>> \/ Learned(Normal[t], action, route)
      BY <1>1, <2>3, TickDoes DEF TickInv
    <3>2. Normal[t] \in Intents
      BY TickAssumption
    <3> QED BY <1>1, <2>1, <2>2, <3>1, <3>2, LearnKeepsAnswers
  <2>4. ASSUME NEW i \in GraphIntents, GraphLearned(i)
        PROVE  ExactHit(patterns', j) /\ patterns'[j].action = patterns[j].action
    <3>1. i \in Intents /\ "task_graph" \in Actions /\ Learned(i, "task_graph", NoRoute)
      BY <2>4, TickAssumption, GraphLearns
    <3> QED BY <1>1, <2>1, <3>1, LearnKeepsAnswers
  <2> QED BY <1>1, <2>2, <2>3, <2>4 DEF TickNext, GraphModelCall, Restart, tickVars
<1>2. TickInv /\ [TickNext]_tickVars => [KeepsExactAnswers]_tickVars
  BY <1>1 DEF KeepsExactAnswers
<1> QED BY <1>2, TickInvHolds, PTL DEF TickSpec, ExactAnswersStay

-----------------------------------------------------------------------------
(* Answers do not depend on the order but for ties *)

\* Of two orders of one memory the second answers at least as well as the first.
LEMMA OrdersAnswerAsWell ==
  ASSUME NEW m, DOMAIN m \subseteq Intents, m \in [DOMAIN m -> PatternRecord],
         NEW o, Lists(o, DOMAIN m), NEW r, Lists(r, DOMAIN m), NEW q \in Intents,
         ~ExactHit(m, q), Candidates(m, o, q) # {}
  PROVE  /\ Candidates(m, r, q) # {}
         /\ lookup_best(m, o, q).score <= lookup_best(m, r, q).score
<1> DEFINE k == BestCandidate(m, o, q)
<1>1. o \in Seq(Intents) /\ {o[j] : j \in DOMAIN o} = DOMAIN m
  BY DEF Lists
<1>2. r \in Seq(Intents) /\ {r[j] : j \in DOMAIN r} = DOMAIN m
  BY DEF Lists
<1>3. k \in Candidates(m, o, q)
  BY <1>1, BestIsCandidate
<1>4. PICK j \in DOMAIN r : r[j] = o[k]
  <2>1. k \in DOMAIN o
    BY <1>3 DEF Candidates
  <2> HIDE DEF k
  <2> QED BY <1>1, <1>2, <2>1
<1>5. j \in Candidates(m, r, q)
  <2> HIDE DEF k
  <2> QED BY <1>3, <1>4 DEF Candidates
<1>6. Score(m, q, r[j]) <= Score(m, q, r[BestCandidate(m, r, q)])
  BY <1>2, <1>5, BestIsCandidate
<1>7. /\ lookup_best(m, o, q).score = Score(m, q, o[k])
      /\ lookup_best(m, r, q).score = Score(m, q, r[BestCandidate(m, r, q)])
  BY <1>5 DEF lookup_best
<1> HIDE DEF k
<1> QED BY <1>4, <1>5, <1>6, <1>7

\* Two orders of one memory answer equally well.
LEMMA OrdersScoreAlike ==
  ASSUME NEW m, DOMAIN m \subseteq Intents, m \in [DOMAIN m -> PatternRecord],
         NEW o, Lists(o, DOMAIN m), NEW r, Lists(r, DOMAIN m), NEW q \in Intents
  PROVE  lookup_best(m, o, q).score = lookup_best(m, r, q).score
<1>1. CASE ExactHit(m, q)
  BY <1>1 DEF lookup_best
<1>2. CASE ~ExactHit(m, q) /\ Candidates(m, o, q) = {}
  <2>1. Candidates(m, r, q) = {}
    BY <1>2, OrdersAnswerAsWell
  <2> QED BY <1>2, <2>1 DEF lookup_best
<1>3. CASE ~ExactHit(m, q) /\ Candidates(m, o, q) # {}
  <2>1. /\ Candidates(m, r, q) # {}
        /\ lookup_best(m, o, q).score <= lookup_best(m, r, q).score
    BY <1>3, OrdersAnswerAsWell
  <2>2. lookup_best(m, r, q).score <= lookup_best(m, o, q).score
    BY <1>3, <2>1, OrdersAnswerAsWell
  <2>3. ASSUME NEW s, Lists(s, DOMAIN m), Candidates(m, s, q) # {}
        PROVE  lookup_best(m, s, q).score \in Nat
    <3>1. BestCandidate(m, s, q) \in DOMAIN s
      BY <2>3, BestIsCandidate DEF Candidates, Lists
    <3>2. s[BestCandidate(m, s, q)] \in DOMAIN m
      BY <2>3, <3>1 DEF Lists
    <3>3. lookup_best(m, s, q).score = Score(m, q, s[BestCandidate(m, s, q)])
      BY <1>3, <2>3 DEF lookup_best
    <3> QED BY <3>2, <3>3, ScoreInNat
  <2> QED BY <1>3, <2>1, <2>2, <2>3
<1> QED BY <1>1, <1>2, <1>3

\* A restart, or any step that learns nothing, changes no score: RestartKeepsScore.
THEOREM ScoresKept == TickSpec => RestartKeepsScore
<1>1. ASSUME TickInv, TickInv' PROVE KeepsScores
  <2>1. PatternsOK /\ Lists(order, DOMAIN patterns) /\ Lists(order', DOMAIN patterns')
    BY <1>1 DEF TickInv, TickTypeOK, OrderOK, Lists
  <2> QED BY <2>1, OrdersScoreAlike DEF KeepsScores, PatternsOK
<1>2. TickInv /\ [TickNext]_tickVars => [KeepsScores]_tickVars
  BY <1>1, TickNextInv
<1> QED BY <1>2, TickInvHolds, PTL DEF TickSpec, RestartKeepsScore

=============================================================================
