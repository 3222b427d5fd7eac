----------------------------- MODULE KernelRuns -----------------------------
(***************************************************************************)
(* The kernel's graph runs: launch from a trigger, a signal or a plan,     *)
(* serial execution of the nodes, suspension on an accepted job, and       *)
(* resumption when the job's result arrives (hades/kernel.py,              *)
(* hades/task_graph.py).                                                   *)
(*                                                                         *)
(* The kernel runs one call at a time.  A call is cut into steps where a   *)
(* crash makes a difference: after each node, which acts on the outside    *)
(* world, and after each file that is written.  Files are written in this  *)
(* order: graph_metrics.json, graph_index.json, pattern_index.json,        *)
(* state.json.  The first two are the variables of GraphEvolution, whose   *)
(* actions the kernel's steps are conjoined with.                          *)
(*                                                                         *)
(* Runs are numbered by launch.  The number is a history tag: the code     *)
(* knows a run by its trace id alone.  A job id is a trace and a node      *)
(* (atlas/executor.py), so jobs are such pairs.                            *)
(***************************************************************************)
EXTENDS GraphEvolution

CONSTANTS Traces,        \* trace ids
          NodeIds,       \* node ids
          FileGraphs,    \* ids in solution_graph.json
          FamilyName,    \* the id under which the family is looked up
          PlannedIds,    \* ids of graphs the planner makes
          FileBody,      \* the nodes of every graph that has a file
          PlannedBodies, \* the nodes a plan may have
          NoBody,        \* no graph under this id
          NoRun,         \* no run under this trace
          ReuseTraces,   \* whether callers launch under a trace again
          MaxLaunches,   \* bound: launched runs
          ExecCap        \* bound: executions of a node are counted up to here

\* A graph is its nodes in order; a node is asynchronous when the executor may
\* answer "accepted" to it, as it does to clawx_monitor with a task in its payload.
Nodes  == [id : NodeIds, async : BOOLEAN]
Runs   == 1..MaxLaunches

\* Node ids of a graph are distinct and no graph is empty.
GraphBody(body) ==
  /\ body \in Seq(Nodes)
  /\ body # << >>
  /\ \A i, j \in DOMAIN body : body[i].id = body[j].id => i = j

ASSUME KernelAssumption ==
  /\ GraphIds = Versions \union FileGraphs \union PlannedIds
  /\ \A g \in Versions \union FileGraphs : GraphBody(FileBody[g])
  /\ \A body \in PlannedBodies : GraphBody(body)
  /\ NoBody \notin PlannedBodies
  /\ FamilyName \notin Versions
  /\ ReuseTraces \in BOOLEAN
  /\ MaxLaunches \in Nat
  /\ ExecCap \in Nat \ {0}

VARIABLES
  graphs,    \* HadesKernel.graphs: the graphs loaded or run since the start
  memRuns,   \* state["graph_runs"]
  diskRuns,  \* the same in state.json
  call,      \* the call in progress
  jobs,      \* jobs the executor has accepted
  launches,  \* history: runs launched
  used,      \* history: traces launched under
  execs,     \* history: how often each node of each run was executed
  finished,  \* history: "ok" and "failed" events of each run in state.json
  scoredBy,  \* history: how often each run was scored
  learned    \* history: how often each run reinforced its pattern

kernelVars == <<graphs, memRuns, diskRuns, call, jobs, launches, used, execs,
                finished, scoredBy, learned>>
vars == <<evoVars, kernelVars>>

Statuses == {"none", "pending", "ok", "failed"}

GraphRunState == [rid         : Runs,
                  graph       : GraphIds,
                  node_status : [NodeIds -> Statuses],
                  pending     : SUBSET NodeIds,
                  completed   : BOOLEAN]

ASSUME NoRunAssumption == NoRun \notin GraphRunState

Idle == [pc |-> "idle"]

\* A call in progress: what it does next, for which run, at which node.
Calls == [pc    : {"exec", "settle", "adjust", "reinforce", "log"},
          trace : Traces,
          run   : GraphRunState,
          body  : Seq(Nodes),
          at    : Nat]

LoadedGraphs ==
  [g \in GraphIds |-> IF g \in FileGraphs THEN FileBody[g] ELSE NoBody]

Init ==
  /\ EvoInit
  /\ graphs = LoadedGraphs
  /\ memRuns = [t \in Traces |-> NoRun]
  /\ diskRuns = [t \in Traces |-> NoRun]
  /\ call = Idle
  /\ jobs = {}
  /\ launches = 0
  /\ used = {}
  /\ execs = [r \in Runs |-> [n \in NodeIds |-> 0]]
  /\ finished = [r \in Runs |-> 0]
  /\ scoredBy = [r \in Runs |-> 0]
  /\ learned = [r \in Runs |-> 0]

-----------------------------------------------------------------------------
(* Finding a graph and a place in it *)

\* Mutant: the id is not looked at.
resolve_active(id) == IF family.active \in files THEN family.active ELSE id

\* resolve: the family's active version, else the version of that id.
resolve(id) ==
  IF id = FamilyName /\ family.active \in files THEN family.active ELSE id

\* The graph a lookup of id ends at, and its nodes; a graph already in memory
\* comes first.
InMemory(id)  == id \in GraphIds /\ graphs[id] # NoBody
GraphFor(id)  == IF InMemory(id) THEN id ELSE resolve(id)
Known(id)     == InMemory(id) \/ resolve(id) \in files
BodyFor(id)   == IF InMemory(id) THEN graphs[id] ELSE FileBody[resolve(id)]

HasNode(body, n)   == \E i \in DOMAIN body : body[i].id = n
NodeIndex(body, n) == CHOOSE i \in DOMAIN body : body[i].id = n

\* Mutant: a resumed run starts from its first node.
ResumeAtFront(body, n) == 1

\* _next_node_id followed by the start index of run_once: the node after n has
\* an index, but the last node has no next id, and no id starts at the front.
ResumeIndex(body, n) ==
  IF NodeIndex(body, n) = Len(body) THEN 1 ELSE NodeIndex(body, n) + 1

-----------------------------------------------------------------------------
(* The steps of a call *)

FreshRun(g) == [rid         |-> launches + 1,
                graph       |-> g,
                node_status |-> [n \in NodeIds |-> "none"],
                pending     |-> {},
                completed   |-> FALSE]

Running(t, run, body, at) ==
  [pc |-> "exec", trace |-> t, run |-> run, body |-> body, at |-> at]

MayLaunch(t) == /\ call = Idle /\ ~torn
                /\ launches < MaxLaunches
                /\ ReuseTraces \/ t \notin used

Launch(t, g, body) ==
  /\ MayLaunch(t)
  /\ graphs' = [graphs EXCEPT ![g] = body]
  /\ call' = Running(t, FreshRun(g), body, 1)
  /\ launches' = launches + 1
  /\ used' = used \union {t}
  /\ UNCHANGED <<evoVars, memRuns, diskRuns, jobs, execs, finished, scoredBy,
                 learned>>

\* handle_event, handle_signal and _run_graph: the graph a rule names.
LaunchNamed(t, id) == Known(id) /\ Launch(t, GraphFor(id), BodyFor(id))

\* handle_intent: the graph the planner makes replaces one of the same id.
LaunchPlanned(t, id, body) == Launch(t, id, body)

Count(f, n) == [f EXCEPT ![n] = IF @ < ExecCap THEN @ + 1 ELSE @]

\* One turn of the loop in run_once, ending with the given status of the node.
Execute(status, pc, at, pending, completed) ==
  LET node == call.body[call.at].id IN
  /\ call' = [call EXCEPT !.pc                    = pc,
                          !.at                    = at,
                          !.run.node_status[node] = status,
                          !.run.pending           = @ \union pending,
                          !.run.completed         = completed]
  /\ execs' = [execs EXCEPT ![call.run.rid] = Count(@, node)]
  /\ UNCHANGED <<evoVars, graphs, memRuns, diskRuns, launches, used, finished,
                 scoredBy, learned>>

\* The executor did the node: go on, or complete the run after the last one.
NodeOk ==
  /\ call.pc = "exec"
  /\ IF call.at < Len(call.body)
     THEN Execute("ok", "exec", call.at + 1, {}, call.run.completed)
     ELSE Execute("ok", "settle", call.at, {}, TRUE)
  /\ UNCHANGED jobs

\* Mutant: a failure does not leave the loop.
NodeFailedGoesOn ==
  /\ call.pc = "exec"
  /\ IF call.at < Len(call.body)
     THEN Execute("failed", "exec", call.at + 1, {}, call.run.completed)
     ELSE Execute("failed", "settle", call.at, {}, FALSE)
  /\ UNCHANGED jobs

\* The executor failed: the run stops here.
NodeFailed ==
  /\ call.pc = "exec"
  /\ Execute("failed", "settle", call.at, {}, FALSE)
  /\ UNCHANGED jobs

\* The executor accepted a job: the run waits for it.
NodeAccepted ==
  /\ call.pc = "exec" /\ call.body[call.at].async
  /\ LET node == call.body[call.at].id IN
     /\ Execute("pending", "settle", call.at, {node}, FALSE)
     /\ jobs' = jobs \union {<<call.trace, node>>}

\* _persist_graph_run, in memory only, then fitness_store.record for a run that
\* waits for nothing.
SettlePending ==
  /\ call.pc = "settle" /\ call.run.pending # {}
  /\ memRuns' = [memRuns EXCEPT ![call.trace] = call.run]
  /\ call' = [call EXCEPT !.pc = "log"]
  /\ UNCHANGED <<evoVars, graphs, diskRuns, jobs, launches, used, execs, finished,
                 scoredBy, learned>>

\* Mutant: a run is scored whenever it stops, pending or not.
SettleAny(m) ==
  /\ call.pc = "settle"
  /\ m.success = call.run.completed
  /\ memRuns' = [memRuns EXCEPT ![call.trace] = NoRun]
  /\ RecordMetrics(call.run.graph, m)
  /\ scoredBy' = [scoredBy EXCEPT ![call.run.rid] = @ + 1]
  /\ call' = [call EXCEPT !.pc = "adjust"]
  /\ UNCHANGED <<graphs, diskRuns, jobs, launches, used, execs, finished, learned>>

\* Mutant: a finished run stays in graph_runs.
SettleKeeping(m) ==
  /\ call.pc = "settle" /\ call.run.pending = {}
  /\ m.success = call.run.completed
  /\ RecordMetrics(call.run.graph, m)
  /\ scoredBy' = [scoredBy EXCEPT ![call.run.rid] = @ + 1]
  /\ call' = [call EXCEPT !.pc = "adjust"]
  /\ UNCHANGED <<graphs, memRuns, diskRuns, jobs, launches, used, execs, finished,
                 learned>>

SettleDone(m) ==
  /\ call.pc = "settle" /\ call.run.pending = {}
  /\ m.success = call.run.completed
  /\ memRuns' = [memRuns EXCEPT ![call.trace] = NoRun]
  /\ RecordMetrics(call.run.graph, m)
  /\ scoredBy' = [scoredBy EXCEPT ![call.run.rid] = @ + 1]
  /\ call' = [call EXCEPT !.pc = "adjust"]
  /\ UNCHANGED <<graphs, diskRuns, jobs, launches, used, execs, finished, learned>>

\* Mutant: the first success promotes an experimental version.
AdjustEagerly ==
  /\ call.pc = "adjust" /\ scoring' = NoGraph
  /\ family' = IF call.run.completed /\ scoring \in family.experimental
               THEN promote_version(family, scoring) ELSE family
  /\ indexFile' = family'
  /\ call' = [call EXCEPT !.pc = "reinforce"]
  /\ UNCHANGED <<files, metrics, streak, scored, crashes, torn, graphs, memRuns, diskRuns,
                 jobs, launches, used, execs, finished, scoredBy, learned>>

Adjust ==
  /\ call.pc = "adjust"
  /\ AdjustRegistry
  /\ call' = [call EXCEPT !.pc = "reinforce"]
  /\ UNCHANGED <<graphs, memRuns, diskRuns, jobs, launches, used, execs, finished,
                 scoredBy, learned>>

\* PatternIndex.reinforce writes pattern_index.json for a success only.
Reinforce ==
  /\ call.pc = "reinforce"
  /\ learned' = IF call.run.completed
                THEN [learned EXCEPT ![call.run.rid] = @ + 1] ELSE learned
  /\ call' = [call EXCEPT !.pc = "log"]
  /\ UNCHANGED <<evoVars, graphs, memRuns, diskRuns, jobs, launches, used, execs,
                 finished, scoredBy>>

\* Mutant: the state file is written for finished runs only.
RecordFinishedEvent ==
  /\ call.pc = "log"
  /\ IF call.run.pending = {}
     THEN /\ diskRuns' = memRuns
          /\ finished' = [finished EXCEPT ![call.run.rid] = @ + 1]
     ELSE UNCHANGED <<diskRuns, finished>>
  /\ call' = Idle
  /\ UNCHANGED <<evoVars, graphs, memRuns, jobs, launches, used, execs, scoredBy,
                 learned>>

\* _record_graph_event saves the event and the runs in one file; the call returns.
RecordGraphEvent ==
  /\ call.pc = "log"
  /\ diskRuns' = memRuns
  /\ finished' = IF call.run.pending = {}
                 THEN [finished EXCEPT ![call.run.rid] = @ + 1] ELSE finished
  /\ call' = Idle
  /\ UNCHANGED <<evoVars, graphs, memRuns, jobs, launches, used, execs, scoredBy,
                 learned>>

\* handle_job_finished up to run_once.  An unknown trace, an unknown job, an
\* unknown graph and a node the graph no longer has all leave the state as it
\* is.  The node becomes "ok" whatever the result says.
HandleJobFinished(t, n) ==
  LET run == memRuns[t] IN
  /\ call = Idle /\ ~torn
  /\ <<t, n>> \in jobs
  /\ run # NoRun /\ n \in run.pending
  /\ Known(run.graph) /\ HasNode(BodyFor(run.graph), n)
  /\ call' = Running(t, [run EXCEPT !.node_status[n] = "ok", !.pending = @ \ {n}],
                     BodyFor(run.graph), ResumeIndex(BodyFor(run.graph), n))
  /\ UNCHANGED <<evoVars, graphs, memRuns, diskRuns, jobs, launches, used, execs,
                 finished, scoredBy, learned>>

\* The next step writes graph_metrics.json, graph_index.json, pattern_index.json or
\* state.json; between calls somebody saves the index.
WritesFile ==
  \/ call = Idle
  \/ call.pc = "settle" /\ call.run.pending = {}
  \/ call.pc = "adjust" /\ Writes
  \/ call.pc = "reinforce" /\ call.run.completed
  \/ call.pc = "log"

\* The process dies at any point and comes back with its files, or within a write.
Crash ==
  /\ CrashEvolution
  /\ torn' => WritesFile
  /\ graphs' = LoadedGraphs
  /\ memRuns' = diskRuns
  /\ call' = Idle
  /\ UNCHANGED <<diskRuns, jobs, launches, used, execs, finished, scoredBy, learned>>

\* Between calls somebody registers a version or saves the index.
Maintain ==
  /\ call = Idle
  /\ \/ \E v \in Versions, experimental \in BOOLEAN : Register(v, experimental)
     \/ SaveIndex
  /\ UNCHANGED kernelVars

CallStep ==
  \/ NodeOk \/ NodeFailed \/ NodeAccepted
  \/ SettlePending
  \/ \E m \in Samples : SettleDone(m)
  \/ Adjust \/ Reinforce \/ RecordGraphEvent

Next ==
  \/ \E t \in Traces, id \in GraphIds \union {FamilyName} : LaunchNamed(t, id)
  \/ \E t \in Traces, id \in PlannedIds, body \in PlannedBodies : LaunchPlanned(t, id, body)
  \/ CallStep
  \/ \E t \in Traces, n \in NodeIds : HandleJobFinished(t, n)
  \/ Crash
  \/ Maintain

Spec == Init /\ [][Next]_vars

\* The kernel does not stop within a call.
FairSpec == Spec /\ WF_vars(CallStep)

-----------------------------------------------------------------------------
(* What the theorems about the order and the number of executions assume *)

\* The graphs a lookup of g may end at, at different times.
BodiesOf(g) ==
  {body \in PlannedBodies : g \in PlannedIds}
    \union {FileBody[h] : h \in {h \in Versions \union FileGraphs :
                                   h = g \/ (g = FamilyName /\ h \in Versions)}}

\* The node of a job has the same nodes before it in all of them.  A plan's nodes are
\* n1, n2, ... in order (graph_planner.py, llm_graph_planner.py), so plans under one id do.
JobsKeepPlace ==
  \A g \in GraphIds : \A b, c \in BodiesOf(g) : \A i \in DOMAIN b, j \in DOMAIN c :
    b[i].async /\ b[i].id = c[j].id => i = j /\ \A k \in 1..i : b[k].id = c[k].id

\* It is not the last one: a run resumed after its last node starts from the first.
JobsGoOn ==
  \A g \in GraphIds : \A b, c \in BodiesOf(g) : \A i \in DOMAIN b, j \in DOMAIN c :
    b[i].async /\ b[i].id = c[j].id => j < Len(c)

-----------------------------------------------------------------------------
(* Properties *)

\* Every variable of the kernel that code reads has its type, and a call in progress is at a
\* node of its graph.
KernelTypeOK ==
  /\ TypeOK
  /\ DOMAIN graphs = GraphIds
  /\ \A g \in GraphIds : graphs[g] = NoBody \/ GraphBody(graphs[g])
  /\ memRuns \in [Traces -> GraphRunState \union {NoRun}]
  /\ diskRuns \in [Traces -> GraphRunState \union {NoRun}]
  /\ \/ call = Idle
     \/ /\ call \in Calls
        /\ GraphBody(call.body)
        /\ call.at \in DOMAIN call.body
  /\ jobs \subseteq Traces \X NodeIds
  /\ launches \in 0..MaxLaunches
  /\ execs \in [Runs -> [NodeIds -> 0..ExecCap]]

\* A stored run waits for exactly one job, and for one that was submitted: a run
\* that waited for anything else could never be resumed.
StoredRunsWait ==
  \A t \in Traces : \A run \in {memRuns[t], diskRuns[t]} \ {NoRun} :
    \E n \in NodeIds : /\ run.pending = {n}
                       /\ run.node_status[n] = "pending"
                       /\ <<t, n>> \in jobs

\* Serial execution: a node is reached only when all nodes before it are "ok",
\* also after a resumption from a state a crash has taken back.
SerialOrder ==
  (call # Idle /\ call.pc = "exec") =>
    \A i \in 1..(call.at - 1) : call.run.node_status[call.body[i].id] = "ok"

\* What a call has answered is in state.json: between calls the runs in memory
\* are those a restart would find, unless a crash within a write leaves nothing to find.
AnswersDurable == call = Idle /\ ~torn => memRuns = diskRuns

\* A node of a run is executed once, and once more at most for every crash, by a
\* job result that is delivered again.
ReexecutionBound ==
  \A r \in Runs, n \in NodeIds : execs[r][n] <= 1 + crashes

\* Nothing brings a run back once its last event was written to state.json, which
\* keeps the last hundred events only.
FinishedIsFinal ==
  \A r \in Runs :
    /\ finished[r] <= 1
    /\ finished[r] = 1 =>
         \A t \in Traces : diskRuns[t] # NoRun => diskRuns[t].rid # r

InFlight(r, steps) ==
  IF call # Idle /\ call.pc \in steps /\ call.run.rid = r THEN 1 ELSE 0

\* The files agree on what has run: a run is in the metrics as often as its end
\* was logged, and once more at most for a crash between the two writes; a
\* pattern is reinforced no more often than the run was scored.
FilesAgree ==
  \A r \in Runs :
    /\ finished[r] <= scoredBy[r]
    /\ scoredBy[r] <= finished[r] + crashes + InFlight(r, {"adjust", "reinforce", "log"})
    /\ learned[r] <= scoredBy[r]

\* What state.json tells, or told while it kept the event, of a run.
Stage(r) ==
  IF finished[r] > 0 THEN "done"
  ELSE IF \E t \in Traces : diskRuns[t] # NoRun /\ diskRuns[t].rid = r
  THEN "pending" ELSE "none"

Ledger == INSTANCE RunLedger WITH stage <- [r \in Runs |-> Stage(r)], closed <- torn

\* Whoever does the jobs delivers the result of each again until the kernel takes it; the
\* repository has no such worker, so this is a premise and no fairness of the kernel.
WorkersDeliver == \A t \in Traces, n \in NodeIds : SF_vars(HandleJobFinished(t, n))

\* The kernel keeps the ledger's promise: steps map to steps of the ledger, crashes
\* included, and if the results of jobs are delivered until they are taken, a pending run
\* is done in the end unless a crash within a write loses it.
KeepsLedger == Ledger!Safety /\ (WorkersDeliver => Ledger!Progress)

\* What "The kernel tracks them until completion." (SYSTEM.md:193) says of a
\* single run whose jobs are delivered.
TrackedToCompletion ==
  WorkersDeliver => \A r \in Runs : Stage(r) = "pending" ~> Stage(r) = "done"

=============================================================================
