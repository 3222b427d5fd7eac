---------------------------- MODULE BudgetLedger ----------------------------
(***************************************************************************)
(* Routing of an intent to a model tier (hades/model_router.py) and the    *)
(* policy put on the route before a model is called (hades/budget.py).     *)
(*                                                                         *)
(* A route is its backend and its token limit.  The model's name follows   *)
(* the backend (DEFAULT_MODELS), latency limits and reasons decide         *)
(* nothing.  The keys problem_size, requires_paid and skip_models of the   *)
(* context are left out: the kernel passes only the payload and the trace. *)
(***************************************************************************)
EXTENDS Integers

\* The tiers, and "other" for a name outside them that a stored or given route
\* may carry.
Backends == {"local", "free", "paid", "clawx", "other"}
Routes   == [backend : Backends, max_tokens : Nat]

Policies == [models_enabled : BOOLEAN, allow_paid : BOOLEAN, allow_clawx : BOOLEAN,
             max_model_tokens : Nat, free_max_tokens : Nat, local_max_tokens : Nat,
             clawx_max_tokens : Nat]

Lesser(a, b) == IF a <= b THEN a ELSE b

\* What the router proposes for an intent of this many words with a payload of
\* this many keys.
resolve(words, keys, long_running) ==
  CASE long_running              -> [backend |-> "clawx", max_tokens |-> 768]
    [] ~long_running /\ words <= 3 /\ keys <= 2
                                 -> [backend |-> "local", max_tokens |-> 256]
    [] ~long_running /\ words <= 8 /\ keys <= 5 /\ ~(words <= 3 /\ keys <= 2)
                                 -> [backend |-> "free", max_tokens |-> 512]
    [] OTHER                     -> [backend |-> "paid", max_tokens |-> 1024]

TierCap(policy, backend) ==
  CASE backend = "local" -> policy.local_max_tokens
    [] backend = "free"  -> policy.free_max_tokens
    [] backend = "clawx" -> policy.clawx_max_tokens
    [] OTHER             -> policy.max_model_tokens

\* A downgrade must also keep to the overall limit.
Downgrades(policy, route) == route.backend = "paid" /\ ~policy.allow_paid

allows(policy, route) ==
  policy.models_enabled /\ (route.backend = "clawx" => policy.allow_clawx)

\* The route as adjusted, when the policy allows it.
enforce(policy, route) ==
  IF Downgrades(policy, route)
  THEN [backend |-> "free",
        max_tokens |-> Lesser(Lesser(route.max_tokens, policy.free_max_tokens),
                              policy.max_model_tokens)]
  ELSE [backend |-> route.backend,
        max_tokens |-> Lesser(route.max_tokens, TierCap(policy, route.backend))]

\* What a policy means for a call, stated without reference to how it is enforced.
WithinPolicy(policy, route) ==
  /\ policy.models_enabled
  /\ route.backend = "paid" => policy.allow_paid
  /\ route.backend = "clawx" => policy.allow_clawx
  /\ route.backend = "local" => route.max_tokens <= policy.local_max_tokens
  /\ route.backend = "free" => route.max_tokens <= policy.free_max_tokens
  /\ route.backend = "clawx" => route.max_tokens <= policy.clawx_max_tokens
  /\ route.backend = "paid" => route.max_tokens <= policy.max_model_tokens

=============================================================================
