------------------------------ MODULE Planner ------------------------------
(***************************************************************************)
(* The planners of graphs (hades/graph_planner.py,                         *)
(* hades/llm_graph_planner.py) over the registry of capabilities           *)
(* (hades/capabilities.py, hades/semantic_capabilities.py).  A model       *)
(* proposes steps, which are capabilities or actions; what it proposes is  *)
(* taken whole or not at all, and in its place comes a plan from a         *)
(* template.  The text of intents and payloads is left out: an intent is   *)
(* one of monitoring or not, and a step is a word.                         *)
(*                                                                         *)
(* KernelPlans takes the nodes of the kernel's planned graphs from here.   *)
(***************************************************************************)
EXTENDS Integers, Sequences, FiniteSets, SequencesExt

\* A registry has its actions, the words each answers to, which are asynchronous, which
\* have a provider, the templates and the limit, 0 for none.
CONSTANTS NameOrder,   \* the actions there can be, in the order of their names
          Registries,  \* capabilities.json, as it may be
          Steps        \* lists of steps a model may propose

ASSUME PlannerAssumption ==
  /\ Len(NameOrder) \in Nat
  /\ \A i, j \in 1..Len(NameOrder) : NameOrder[i] = NameOrder[j] => i = j
  /\ Steps \subseteq Seq(STRING)
  /\ \A registry \in Registries : /\ registry.actions \subseteq ToSet(NameOrder)
                                  /\ registry.limit \in Int

NoPlan == <<>>

\* Words that prefer an asynchronous action, and words that prefer a synchronous one.
AsyncFirst == {"monitor", "watch", "track", "research"}
SyncFirst  == {"analyse", "analyze", "summarise", "summarize", "classify", "reason",
               "notify", "alert", "deliver"}

allowed_actions(registry) == registry.actions

\* What the proposer brings: nothing when the call of the model fails or its answer does
\* not parse, else a list, an object with a list, a text of steps, or what is none of them.
Proposals == [kind : {"none", "list", "object", "text", "other"}, steps : Steps]

\* _extract_steps raises for what has no list of steps.
extract_steps(proposal) ==
  IF proposal.kind \in {"list", "object", "text"} THEN proposal.steps ELSE <<>>

-----------------------------------------------------------------------------
(* From steps to actions *)

\* SemanticCapabilityIndex.resolve
capable(registry, word) ==
  {a \in allowed_actions(registry) : word \in registry.words[a]}

place(a) == SelectInSeq(NameOrder, LAMBDA b : b = a)

\* _rank: the kind of action first, then a provider, then the name.
Rank(registry, a, word) ==
  LET misplaced == \/ word \in AsyncFirst /\ a \notin registry.async
                   \/ word \in SyncFirst /\ a \in registry.async
  IN  (IF misplaced THEN 2 * Len(NameOrder) ELSE 0)
        + (IF a \in registry.provided THEN 0 ELSE Len(NameOrder))
        + place(a)

\* Mutant: the kind of action is not looked at.
resolve_any(registry, word) ==
  CHOOSE a \in capable(registry, word) :
    \A b \in capable(registry, word) :
      place(a) <= place(b)

resolve_best(registry, word) ==
  CHOOSE a \in capable(registry, word) :
    \A b \in capable(registry, word) : Rank(registry, a, word) <= Rank(registry, b, word)

\* A step that stands for something: an action, or a word that an action answers to.
Meaningful(registry, step) ==
  step \in allowed_actions(registry) \/ capable(registry, step) # {}

ActionFor(registry, step) ==
  IF step \in allowed_actions(registry) THEN step ELSE resolve_best(registry, step)

\* _resolve_steps leaves out what stands for nothing, and keeps the order of the rest.
resolve_steps(registry, steps) ==
  LET kept   == {k \in DOMAIN steps : Meaningful(registry, steps[k])}
      Nth(n) == CHOOSE k \in kept : Cardinality({j \in kept : j <= k}) = n
  IN  [n \in 1..Cardinality(kept) |-> ActionFor(registry, steps[Nth(n)])]

WithinLimit(registry, steps) == registry.limit > 0 => Len(steps) <= registry.limit

validate_actions(registry, actions) ==
  /\ \A k \in DOMAIN actions : actions[k] \in allowed_actions(registry)
  /\ WithinLimit(registry, actions)

-----------------------------------------------------------------------------
(* The plans *)

\* GraphPlanner._plan_actions
TemplateActions(registry, monitoring) ==
  IF monitoring
  THEN resolve_steps(registry, IF registry.monitor_flow # <<>> THEN registry.monitor_flow
                               ELSE <<"monitor", "analyse", "notify">>)
  ELSE IF registry.analysis_flow # <<>> THEN resolve_steps(registry, registry.analysis_flow)
  ELSE IF resolve_steps(registry, <<"analyse">>) # <<>>
  THEN resolve_steps(registry, <<"analyse">>)
  ELSE resolve_steps(registry, <<"noop">>)

\* GraphPlanner.plan_graph; without a plan it raises.
template_plan(registry, monitoring) ==
  LET actions == TemplateActions(registry, monitoring)
  IN  IF validate_actions(registry, actions) THEN actions ELSE NoPlan

validate_semantic_steps(registry, steps) ==
  /\ steps # <<>>
  /\ WithinLimit(registry, steps)
  /\ \A k \in DOMAIN steps : Meaningful(registry, steps[k])

\* LLMGraphPlanner.plan_graph with its fallback, as build_default_kernel makes it.
plan_graph(registry, monitoring, proposal) ==
  LET steps   == extract_steps(proposal)
      actions == resolve_steps(registry, steps)
  IN  IF /\ validate_semantic_steps(registry, steps)
         /\ validate_actions(registry, actions)
         /\ Len(actions) = Len(steps)
      THEN actions
      ELSE template_plan(registry, monitoring)

-----------------------------------------------------------------------------
(* What a plan should be *)

\* What a step may become: itself, or an action that answers to it, of the kind the word
\* prefers if there is one.
Serves(registry, a, step) ==
  IF step \in registry.actions THEN a = step
  ELSE LET able  == {b \in registry.actions : step \in registry.words[b]}
           kind  == IF step \in AsyncFirst THEN able \cap registry.async
                    ELSE IF step \in SyncFirst THEN able \ registry.async ELSE able
       IN  a \in (IF kind # {} THEN kind ELSE able)

\* What may be made of a request: allowed actions within the limit.  Steps that all stand
\* for something, and are no more than the limit, are taken one by one; others are not.
Sound(request, plan) ==
  LET registry == request.registry
      steps    == request.proposal.steps
      taken    == /\ request.proposal.kind \notin {"none", "other"}
                  /\ steps # <<>>
                  /\ WithinLimit(registry, steps)
                  /\ \A k \in DOMAIN steps : \E a \in registry.actions : Serves(registry, a, steps[k])
  IN  /\ ToSet(plan) \subseteq registry.actions
      /\ WithinLimit(registry, plan)
      /\ IF taken
         THEN /\ Len(plan) = Len(steps)
              /\ \A k \in DOMAIN steps : Serves(registry, plan[k], steps[k])
         ELSE plan = template_plan(registry, request.monitoring)

=============================================================================
