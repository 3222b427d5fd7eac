----------------------------- MODULE KernelPlans -----------------------------
(***************************************************************************)
(* The planner in the kernel: handle_intent (hades/kernel.py) takes the    *)
(* graph that plan_graph makes of a request into its graphs and starts a   *)
(* run of it.  KernelRuns leaves the nodes of planned graphs to a          *)
(* constant; here they are those of plans.                                 *)
(***************************************************************************)
EXTENDS KernelRuns, Planner

CONSTANT Positions   \* the ids n1, n2, ... of the nodes of a plan

ASSUME PositionsAssumption ==
  /\ \A i, j \in DOMAIN Positions : Positions[i] = Positions[j] => i = j
  /\ \A body \in PlannedBodies : DOMAIN body \subseteq DOMAIN Positions

\* What is asked of the planner, under the registry of that time.
Requests == [registry : Registries, monitoring : BOOLEAN, proposal : Proposals]

PlanFor(request) == plan_graph(request.registry, request.monitoring, request.proposal)

\* plan_graph marks nothing in a node: the executor goes by the action.  The registry's
\* asynchronous actions stand for those it may accept.
NodesOf(request) ==
  LET plan == PlanFor(request)
  IN  [k \in DOMAIN plan |->
         [id |-> Positions[k], async |-> plan[k] \in request.registry.async]]

\* The nodes of planned graphs are those the planner makes of requests.
PlansOnly == \A body \in PlannedBodies : \E request \in Requests : body = NodesOf(request)

\* An id is the family's, the planner's or a file's, and no two of these.
IdsApart ==
  /\ PlannedIds \intersect (Versions \union FileGraphs) = {}
  /\ FamilyName \notin GraphIds

-----------------------------------------------------------------------------
(* Properties *)

UnsoundBodies ==
  {NodesOf(request) : request \in {r \in Requests : ~Sound(r, PlanFor(r))}}

\* Whatever a model proposes: the graph the kernel holds for a plan came from a request for
\* which it is sound.  It has allowed actions only and keeps the limit; proposed steps that
\* all stand for something, and are not too many, are its nodes one by one and in order;
\* any others leave no trace in it (handle_intent, LLMGraphPlanner.plan_graph:
\* "while staying inside registry constraints").
PlansAreSafe ==
  \A id \in PlannedIds : graphs[id] # NoBody => graphs[id] \notin UnsoundBodies

SoundBodies ==
  {NodesOf(request) : request \in {r \in Requests : Sound(r, PlanFor(r))}}

\* Where the planner has an id to itself, what the kernel holds and runs under it is a plan
\* that is sound for a request: a job that ends after a restart, which loses the plan, does
\* not resume its run in another graph (handle_intent, handle_job_finished).
PlannedRunsArePlans ==
  \A id \in PlannedIds \ (Versions \union FileGraphs \union {FamilyName}) :
    /\ graphs[id] # NoBody => graphs[id] \in SoundBodies
    /\ call # Idle /\ call.run.graph = id => call.body \in SoundBodies

=============================================================================
