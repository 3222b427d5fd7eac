---------------------------- MODULE MCKernelRuns ----------------------------
(* KernelRuns on graphs of two or three nodes, with a graph the planner makes. *)
EXTENDS KernelPlans, TLC

CONSTANTS v1, v2, alert, planned,
          t1, t2, monitor, summary, notify

Sync(n)  == [id |-> n, async |-> FALSE]
Async(n) == [id |-> n, async |-> TRUE]

\* monitor is the asynchronous node, as in vault/solution_graph.json.
Watch == <<Async(monitor), Sync(notify)>>

MCNodeIds  == {monitor, summary, notify}
MCVersions == {v1, v2}

MCSamples ==
  { [success |-> TRUE,  latency |-> 20, cost |-> 20],
    [success |-> FALSE, latency |-> 0,  cost |-> 0] }

MCFamily ==
  [active |-> v1, versions |-> <<v1>>, experimental |-> {},
   history |-> {v1}, failure_count |-> 0]

\* One version, for the liveness runs.
OneVersion == {v1}
VersionBody == (v1 :> Watch) @@ (v2 :> <<Sync(summary), Async(monitor), Sync(notify)>>)

\* With a graph of solution_graph.json.
FileIds == MCVersions \union {alert}
MixedIds == FileIds \union {planned}
LiveIds == OneVersion \union {alert}
FileBodies ==
  VersionBody @@ (alert :> <<Sync(summary), Async(monitor), Sync(notify)>>)

\* A graph of solution_graph.json that ends in an accepted job.
EndsAsync == VersionBody @@ (alert :> <<Sync(summary), Async(monitor)>>)

\* The registry as in vault/capabilities.json.
Shipped ==
  [actions |-> {"clawx_monitor", "model_infer", "noop", "notify"},
   words |-> ("clawx_monitor" :> {"monitor", "research"}) @@ ("model_infer" :> {"analyse"})
             @@ ("noop" :> {"noop"}) @@ ("notify" :> {"notify"}),
   async |-> {"clawx_monitor"}, provided |-> {"clawx_monitor", "model_infer", "noop", "notify"},
   monitor_flow |-> <<"monitor", "analyse", "notify">>,
   analysis_flow |-> <<"analyse", "notify">>, limit |-> 3]

NotifyAsync ==
  [Shipped EXCEPT !.words["notify"] = {"notify", "analyse", "monitor"}, !.async = {"notify"}]

\* Two actions for a word, the asynchronous one later in the alphabet or without a
\* provider; a limit below the templates; no templates and few actions.
MCRegistries ==
  {Shipped,
   [Shipped EXCEPT !.words["model_infer"] = {"analyse", "monitor", "research"},
                   !.provided = @ \ {"clawx_monitor"}],
   NotifyAsync,
   [Shipped EXCEPT !.limit = 2],
   [Shipped EXCEPT !.actions = {"noop", "notify"}, !.monitor_flow = <<>>,
                   !.analysis_flow = <<>>, !.limit = 0]}

MCNameOrder  == <<"clawx_monitor", "model_infer", "noop", "notify">>
MCWords == {"monitor", "analyse", "notify", "model_infer", "noop", "unknown"}
MCSteps == UNION {[1..n -> MCWords] : n \in 0..4}

MCPositions == <<monitor, summary, notify, "n4">>

\* What the kernel is asked to plan: steps that are taken, under two registries, and what
\* a template replaces.
Asks(registry, steps) ==
  [registry |-> registry, monitoring |-> TRUE, proposal |-> [kind |-> "list", steps |-> steps]]

Plans ==
  {NodesOf(Asks(Shipped, <<"monitor", "notify">>)),
   NodesOf(Asks(NotifyAsync, <<"monitor", "analyse">>)),
   NodesOf(Asks(Shipped, <<"monitor", "unknown">>))}

\* The premises of the theorems about order, executions and plans hold in the runs, but for
\* JobsGoOn where a graph is made to end in a job.
ASSUME MCJobsKeepPlace == JobsKeepPlace
ASSUME MCPlansOnly == PlansOnly /\ IdsApart
ASSUME MCJobsGoOn == FileBody # EndsAsync => JobsGoOn

NoIds == {}
Alert == {alert}
Plan  == {planned}

=============================================================================
