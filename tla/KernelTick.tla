----------------------------- MODULE KernelTick -----------------------------
(***************************************************************************)
(* The kernel's tick (HadesKernel.tick): an intent is answered from        *)
(* memory, else from the static routes, else by a model; a model route     *)
(* passes the budget; the action is executed; a success that memory did    *)
(* not answer is learned.  The handlers of graph runs share the memory:    *)
(* a graph that completes teaches its intent the action "task_graph", and  *)
(* a "model_infer" node calls a model.                                     *)
(*                                                                         *)
(* The memory is saved by every change, so a restart keeps it but for the  *)
(* order of its records.  The policy is given to the kernel when it is     *)
(* built.  The event a tick appends to state.json is left out: no handler  *)
(* reads it.                                                               *)
(***************************************************************************)
EXTENDS PatternIndex

CONSTANTS Texts,           \* intents as they come in
          Normal,          \* the normalised intent of each
          Words,           \* the number of words of each
          StaticRoutes,    \* the action of each in patterns.json, or "noop"
          Payloads,        \* what intents come with
          GraphIntents,    \* intents that graphs run for
          NodeRoutes,      \* model routes in the payloads of graph nodes
          KernelPolicies,  \* policies kernels are built with
          LoadedPatterns   \* the records of pattern_index.json at first

ASSUME TickAssumption ==
  /\ Normal \in [Texts -> Intents]
  /\ Words \in [Texts -> Nat]
  /\ StaticRoutes \in [Texts -> Actions]
  /\ Payloads \subseteq [keys : Nat, long_running : BOOLEAN, route : Routes \cup {NoRoute}]
  /\ GraphIntents \subseteq Intents
  /\ NodeRoutes \subseteq Routes
  /\ KernelPolicies \subseteq Policies
  /\ DOMAIN LoadedPatterns \subseteq Intents
  /\ LoadedPatterns \in [DOMAIN LoadedPatterns -> PatternRecord]
  /\ {"noop", "model_infer", "task_graph"} \subseteq Actions

VARIABLES patterns,   \* the records of the memory
          order,      \* the order of the dictionary that holds them
          policy,     \* the BudgetLedger's
          call,       \* the model call of the last handler
          did         \* history: the actions that succeeded for an intent

tickVars == <<patterns, order, policy, call, did>>

NoCall == [by |-> "nobody", route |-> NoRoute]
ModelCalls == {NoCall} \cup [by : {"tick", "graph"}, route : Routes]

TickInit ==
  /\ patterns = LoadedPatterns
  /\ order \in SortedOrders(DOMAIN LoadedPatterns)
  /\ policy \in KernelPolicies
  /\ call = NoCall
  /\ did = [i \in Intents |-> {}]

(* Resolution *)

Answer(t) == lookup_best(patterns, order, Normal[t])

\* The action for a text, given what memory answers to it.
Wanted(t, match) ==
  IF match # NoMatch THEN patterns[match.source].action
  ELSE IF StaticRoutes[t] # "noop" THEN StaticRoutes[t]
  ELSE "model_infer"

\* The route put to the budget: the remembered one, or the payload's unless the
\* router is asked, else the router's.
Proposed(t, match, payload) ==
  LET routed == resolve(Words[t], payload.keys, payload.long_running)
      stored == IF match # NoMatch THEN patterns[match.source].route ELSE NoRoute
      asked  == match = NoMatch /\ StaticRoutes[t] = "noop"
  IN  CASE stored # NoRoute                                       -> stored
        [] stored = NoRoute /\ payload.route # NoRoute /\ ~asked -> payload.route
        [] OTHER                                                  -> routed

(* Execution *)

\* The statuses the executor may answer with.
Outcomes(action, route) ==
  CASE action = "noop"          -> {"ignored"}
    [] action = "model_infer"   -> IF route.backend = "other" THEN {"failed"}
                                   ELSE {"ok", "failed"}
    [] action = "clawx_monitor" -> {"accepted", "dispatched", "failed"}
    [] OTHER                    -> {"ok"}

Success == {"ok", "dispatched", "ignored"}

CalledBy(who, action, route) ==
  IF action = "model_infer" /\ route.backend # "other"
  THEN [by |-> who, route |-> route] ELSE NoCall

\* A success is learned if neither the memory nor a refusal of the budget
\* answered.
Learn(t, match, action, route) ==
  IF match # NoMatch \/ action = "noop" THEN UNCHANGED <<patterns, order>>
  ELSE /\ patterns' = reinforce(patterns, Normal[t], action, route)
       /\ order' = OrderWith(patterns, order, Normal[t])

\* Mutant: the remembered route goes to the model as it is.
TickUnbudgeted(t, payload) ==
  LET match  == Answer(t)
      action == Wanted(t, match)
      route  == IF action = "model_infer" THEN Proposed(t, match, payload) ELSE NoRoute
  IN  \E status \in Outcomes(action, route) :
        /\ call' = CalledBy("tick", action, route)
        /\ IF status \in Success
           THEN /\ Learn(t, match, action, route)
                /\ did' = [did EXCEPT ![Normal[t]] = @ \cup ({action} \ {"noop"})]
           ELSE UNCHANGED <<patterns, order, did>>
        /\ UNCHANGED policy

\* Mutant: what was answered is learned whether it succeeded or not.
TickLearnsFailures(t, payload) ==
  LET match   == Answer(t)
      wanted  == Wanted(t, match)
      asked   == Proposed(t, match, payload)
      refused == wanted = "model_infer" /\ ~allows(policy, asked)
      action  == IF refused THEN "noop" ELSE wanted
      route   == IF action = "model_infer" THEN enforce(policy, asked) ELSE NoRoute
  IN  \E status \in Outcomes(action, route) :
        /\ call' = CalledBy("tick", action, route)
        /\ Learn(t, match, action, route)
        /\ did' = IF status \in Success
                  THEN [did EXCEPT ![Normal[t]] = @ \cup ({action} \ {"noop"})]
                  ELSE did
        /\ UNCHANGED policy

Tick(t, payload) ==
  LET match   == Answer(t)
      wanted  == Wanted(t, match)
      asked   == Proposed(t, match, payload)
      refused == wanted = "model_infer" /\ ~allows(policy, asked)
      action  == IF refused THEN "noop" ELSE wanted
      route   == IF action = "model_infer" THEN enforce(policy, asked) ELSE NoRoute
  IN  \E status \in Outcomes(action, route) :
        /\ call' = CalledBy("tick", action, route)
        /\ IF status \in Success
           THEN /\ Learn(t, match, action, route)
                /\ did' = [did EXCEPT ![Normal[t]] = @ \cup ({action} \ {"noop"})]
           ELSE UNCHANGED <<patterns, order, did>>
        /\ UNCHANGED policy

\* A graph that completes teaches the intent it ran for.
GraphLearned(i) ==
  /\ patterns' = reinforce(patterns, i, "task_graph", NoRoute)
  /\ order' = OrderWith(patterns, order, i)
  /\ did' = [did EXCEPT ![i] = @ \cup {"task_graph"}]
  /\ call' = NoCall
  /\ UNCHANGED policy

\* A node of a graph calls a model by the route in its payload, or the default.
GraphModelCall(given) ==
  /\ call' = LET route == IF given = NoRoute
                          THEN [backend |-> "local", max_tokens |-> 256] ELSE given
             IN  CalledBy("graph", "model_infer", route)
  /\ UNCHANGED <<patterns, order, policy, did>>

\* The kernel is built again from its files, perhaps with another policy.
Restart(p) ==
  /\ order' \in SortedOrders(DOMAIN patterns)
  /\ policy' = p
  /\ call' = NoCall
  /\ UNCHANGED <<patterns, did>>

TickNext ==
  \/ \E t \in Texts, payload \in Payloads : Tick(t, payload)
  \/ \E i \in GraphIntents : GraphLearned(i)
  \/ \E given \in NodeRoutes \cup {NoRoute} : GraphModelCall(given)
  \/ \E p \in KernelPolicies : Restart(p)

TickSpec == TickInit /\ [][TickNext]_tickVars

-----------------------------------------------------------------------------
(* Properties *)

\* The memory is well formed.
PatternsOK ==
  /\ DOMAIN patterns \subseteq Intents
  /\ patterns \in [DOMAIN patterns -> PatternRecord]

\* The order lists every record once.
OrderOK ==
  /\ order \in Seq(Intents)
  /\ {order[k] : k \in DOMAIN order} = DOMAIN patterns
  /\ Len(order) = Cardinality(DOMAIN patterns)

\* Types of the memory, its order, the policy and the history
\* (PatternIndex._load, reinforce).
TickTypeOK ==
  /\ PatternsOK
  /\ OrderOK
  /\ policy \in KernelPolicies
  /\ call \in ModelCalls
  /\ did \in [Intents -> SUBSET Actions]

\* A tick calls no model outside the policy the kernel runs under, whatever policy
\* the remembered route was learned under (kernel.tick, BudgetLedger.enforce).
TickCallsWithinPolicy == call.by = "tick" => WithinPolicy(policy, call.route)

\* What an intent is remembered for it was loaded with, or has once been done for
\* that intent with success (kernel.tick, PatternIndex.reinforce).
LearnedActionWasExecuted ==
  \A i \in DOMAIN patterns :
    \/ patterns[i].action \in did[i]
    \/ i \in DOMAIN LoadedPatterns /\ patterns[i].action = LoadedPatterns[i].action

\* An intent with an exact answer still has it, with the same action.
KeepsExactAnswers ==
  \A i \in DOMAIN patterns :
    ExactHit(patterns, i) =>
      ExactHit(patterns', i) /\ patterns'[i].action = patterns[i].action

\* Exact answers stay over other learning, graph runs, model calls and restarts
\* (PatternIndex.reinforce, _load).
ExactAnswersStay == [][KeepsExactAnswers]_tickVars

\* Unchanged records answer every intent equally well.
KeepsScores ==
  patterns' = patterns =>
    \A i \in Intents : lookup_best(patterns, order', i).score
                         = lookup_best(patterns, order, i).score

\* With the same records an intent is answered equally well before and after a
\* restart, though the records come in another order (PatternIndex.lookup_best).
RestartKeepsScore == [][KeepsScores]_tickVars

=============================================================================
