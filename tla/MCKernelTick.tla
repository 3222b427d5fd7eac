---------------------------- MODULE MCKernelTick ----------------------------
(***************************************************************************)
(* KernelTick with three intents.  2 shares its one word with 1 and with   *)
(* 3, which have two each, so it ties between them.  The fourth text is    *)
(* intent 1 in capitals, which the static routes do not know.              *)
(***************************************************************************)
EXTENDS KernelTick

MCIntents == 1..3
MCTokens == <<{"alert", "btc"}, {"btc"}, {"btc", "check"}>>
MCActions == {"noop", "model_infer", "task_graph", "notify", "clawx_monitor"}

MCTexts == 1..4
MCNormal == <<1, 2, 3, 1>>
MCWords == <<2, 1, 2, 2>>
MCStaticRoutes == <<"clawx_monitor", "noop", "model_infer", "noop">>
MCGraphIntents == {2, 3}

\* A short and a long payload, a long running one, and one that names a route
\* over every cap.
MCPayloads ==
  {[keys |-> 2, long_running |-> FALSE, route |-> NoRoute],
   [keys |-> 6, long_running |-> FALSE, route |-> NoRoute],
   [keys |-> 3, long_running |-> TRUE, route |-> NoRoute],
   [keys |-> 3, long_running |-> FALSE, route |-> [backend |-> "paid", max_tokens |-> 900]]}

\* A paid route over every cap, and a backend nobody provides.
MCNodeRoutes == {[backend |-> "paid", max_tokens |-> 900],
                 [backend |-> "other", max_tokens |-> 100]}

\* Free and local models under an overall limit below the free tier's; paid models
\* without ClawX; no models.
MCFreePolicy ==
  [models_enabled |-> TRUE, allow_paid |-> FALSE, allow_clawx |-> TRUE,
   max_model_tokens |-> 384, free_max_tokens |-> 512, local_max_tokens |-> 256,
   clawx_max_tokens |-> 768]
MCPaidPolicy ==
  [MCFreePolicy EXCEPT !.allow_paid = TRUE, !.allow_clawx = FALSE,
                       !.max_model_tokens = 768, !.local_max_tokens = 128]
MCKernelPolicies ==
  {MCFreePolicy, MCPaidPolicy, [MCFreePolicy EXCEPT !.models_enabled = FALSE]}

\* A record under the threshold.
MCLoadedPatterns ==
  [i \in {1} |-> [action |-> "notify", confidence |-> 45, route |-> NoRoute]]

=============================================================================
