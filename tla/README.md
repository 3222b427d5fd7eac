# TLA+ models of TinyKernelAi

TinyKernelAi (TK-Ai) is a control plane for AI workflows.  A kernel takes intents, triggers,
signals and job results, runs task graphs, scores them, promotes and rolls back their versions,
and keeps all of it in JSON files under `vault/`.  Around the kernel are a scheduler, a signal
bus with an investigation loop (ClawX), a session engine (Pi) behind an HTTP gateway, and tools
that rewrite files of the vault.

The modules here are translated from the code under `hades/`, `atlas/`, `modules/` and `tools/`.
Paths and line numbers are those of the repository.

## 1. Inventory

| Component | State it keeps | Operations | What is hard | What makes it correct |
|---|---|---|---|---|
| Kernel graph runs (`hades/kernel.py`, `hades/task_graph.py`, `atlas/executor.py`) | `graphs` in memory; `graph_runs`, events and ticks in `state.json` | `handle_event`, `handle_signal`, `handle_intent`, `handle_job_finished`, serial execution of nodes | suspension and resumption, repeated or late results, crashes between and within four writes, trace ids chosen by callers | nodes in order, no run lost, none finished twice, files that agree |
| Graph registry and fitness (`hades/graph_registry.py`, `hades/graph_fitness.py`) | `graph_index.json`, `graph_metrics.json`, one file per version | `register_version`, `promote_version`, `rollback`, `record_failure`, `save`, `record` | registrations that are not saved, two writes per score, rollback over versions never active | promotion and rollback justified, counted and durable |
| Pattern memory, tick, budget (`hades/patterns.py`, `hades/budget.py`, `hades/model_router.py`, `HadesKernel.tick`) | `pattern_index.json` | `lookup_best`, `reinforce`, `decide`, `enforce`, `tick` | answers that depend on dictionary order, credit to an action other than the one executed, model calls that go around the ledger | same answer after a restart, learned action is the executed one, every tick's model call within policy |
| Planners and capabilities (`hades/graph_planner.py`, `hades/llm_graph_planner.py`, `hades/capabilities.py`, `hades/semantic_capabilities.py`) | none | `plan_graph` | what a model proposes is untrusted | allowed actions within the limit; a proposal is taken whole or not at all |
| Signals and triggers (`hades/signals.py`, `hades/triggers.py`) | the last 50 signals, in memory | `ingest`, `match` | out-of-order times, eviction inside the window | a rule fires exactly on the evidence it names |
| Workflow scheduler (`hades/scheduler.py`) | last slot of each job, in memory | `run_once`, `run_forever` | passes longer than a minute, an exception in one job, restart within a minute | a due job runs once per slot |
| ClawX signal bus (`modules/clawx_engine/signal_writer.py`, `tools/acme_signal_bridge.py`, `tools/clawx_scheduler.py`) | the log of signals, the bridge's state file, the scheduler's offset | `emit_signal`, `bridge_signals`, `run_once` | processes without locks, overlapping runs of bridge and reader, state files emptied before they are written, lines cut before or at their newline, half-written exports | no signal skipped, none served or imported twice without cause |
| ClawX engine and policy daemon (`modules/clawx_engine/`, `tools/tkai_policy_daemon.py`) | histories in memory, `scheduler_policy.json`, the service | `process_event`, `apply_policy` | three windows over two histories, a policy file rewritten in place, a check before a command | stops after quiet only; a policy that stays is applied |
| Investigation (`modules/investigation_engine/`, `tools/mission_runner.py`, `tools/clawx_burnin.py`, the daemon) | evidence, the file of processed ids | `run_investigation`, `analyse` | several programs with one file of ids that is emptied before it is written, failing models, only the last lines are looked at | what is processed has evidence; once each, and once more per mishap; what stays in the window is investigated |
| Pi sessions and gateway (`hades/pi_engine.py`, `hades/pi_session.py`, `gateway/hermes_api.py`) | sessions and skills in memory, one file per session | `handle`, `close_session`, `reload_skills` | threads without locks, two engines, overlapping reloads, reuse of closed sessions, demoted skills | answered requests are on file; a mutating skill runs only with its status |
| Snapshots and time travel (`tools/snapshot_state.py`, `tools/snapshot_integration.py`, `tools/time_travel_reader.py`) | snapshot directories and their index | `create_snapshot`, `mount`, queries | copying while files change, two creations in a second or at once, files, manifest and index written in place | a listed creation leaves nothing cut; same name, same answer |
| Skill and agent governance (`hades/skill_resolver.py`, `tools/hades_assist_launcher.py`, `ct/skills/`, `tools/promote_agent.py`) | skill state, agent registry | `reconcile_skill_state`, `promote_agents` | read-modify-write by several tools | |
| Providers, adapters, Obsidian export, cluster tools, terminal and UI scripts | none of their own, or generated text | | | pure I/O |

Interactions: the scheduler and the callers of the kernel call its handlers in one thread; workers
answer with a job result; registry, fitness store and pattern index are shared objects of one
kernel; everything else communicates through files, which nothing locks.

## 2. Modules

| Module | Models |
|---|---|
| `GraphFitness` | scores, thresholds, running means as sums |
| `GraphRegistry` | a family's record and the pure operations on it |
| `GraphEvolution` | the state machine of registration, scoring, promotion, rollback, saving and crashing |
| `KernelRuns` | graph runs from launch to end, with a crash possible between any two steps; conjoins the actions of `GraphEvolution` |
| `RunLedger` | what a caller may rely on: a run is accepted, then done, unless the ledger is lost |
| `Planner` | from a model's proposal to a plan, as operators |
| `KernelPlans` | `KernelRuns` with planned graphs that come from `Planner` |
| `BudgetLedger` | model routes, `resolve` and `enforce` under a policy |
| `PatternIndex` | the pattern memory: `lookup_best`, `reinforce`, the order of the records |
| `KernelTick` | ticks, graph runs that teach the memory or call a model, restarts under another policy |
| `WorkflowScheduler` | passes, launches, sleep, exceptions and restarts of the scheduler, in time |
| `SignalAggregator` | `ingest` and rule matching over a cut memory |
| `SignalLog` | the log of signals, its appends and writes cut short |
| `SignalBus` | writers, the bridge and the readers on `SignalLog` |
| `Investigation` | the passes that investigate the signals of `SignalLog` |
| `SchedulerPolicy` | the engine's recommendations, the policy file, the daemon and the service |
| `PiSessions` | calls to Pi in the gateway's threads |
| `Snapshots` | creations, the index, the reader and evidence links |
| `KernelRunsProofs` | theorems about `GraphEvolution`, `KernelRuns`, then `Planner` and `KernelPlans` |
| `KernelInputsProofs` | theorems about `WorkflowScheduler` and `SignalAggregator`, which start the kernel's graphs |
| `KernelTickProofs`, `SignalBusProofs`, `InvestigationProofs`, `SchedulerPolicyProofs`, `PiSessionsProofs`, `SnapshotsProofs` | theorems about the module of that name |
| `MC...` | the instances TLC checks |

### GraphEvolution

One action per operation.  `Register` is `register_version`: graph file first, index in memory,
nothing saved.  `SaveIndex` is `save`.  A run is scored in two durable steps, as in
`_score_graph_run`: `RecordMetrics` writes `graph_metrics.json`, `AdjustRegistry` promotes, counts
a failure, rolls back or does nothing, and saves `graph_index.json` if it changed.
`CrashEvolution` may come between any two of them and reloads both files.  It may also come within
a write: `open("w")` has emptied the file and `json.dump` has not written it.  What is left does not
parse, and `from_paths` raises at every later start.  Then `torn` is true and no action is possible;
the variables keep what the files last held whole.  Nobody repairs a file, in the code or here.

Scores are exact hundredths and the mean is kept as a sum: float rounding is left out, and so
are the means that decide nothing.  Families share no state, so there is one.

### KernelRuns

The kernel runs one call at a time; `call` is the call in progress.  Its steps follow the code in
order: a node is executed (`NodeOk`, `NodeFailed`, `NodeAccepted`), the run is stored or forgotten
in memory and scored if nothing is pending (`SettlePending`, `SettleDone`), the registry is
adjusted (`Adjust`), a success is reinforced (`Reinforce`), the event and the runs go to
`state.json` (`RecordGraphEvent`).  `Launch...` are the three entries that start a run,
`HandleJobFinished` resumes one, whatever the job's status: the handler does not look at it.
`Crash` drops what is only in memory, the planned graphs included; within one of the four writes it
sets `torn` (`WritesFile`), and the kernel does not start again.  A job stays in `jobs` for
good, so its result may come again at any time.

Runs are numbered by launch.  The number, `execs`, `finished`, `scoredBy` and `learned` are
history: no guard depends on them but for the bounds.

What is abstracted: payloads, results and event texts; `events` is only counted, and that it is cut
to the last hundred is left out.  The executor accepts a node as a job by its payload, into which
callers' payloads are merged, so an asynchronous node here is one to which it *may* answer
"accepted"; it may also do or fail it at once.

`RunLedger` says the same from outside: a run is accepted, then done, once.  `closed` is `torn`: a
crash within a write closes the ledger, and then nothing in it moves.

### Planner and KernelPlans

The planners keep no state, so they are operators: `extract_steps` of what the proposer brings
(nothing, a list, an object, a text, something else), `validate_semantic_steps`, `resolve_steps`
with the ranking of the actions that answer to a word, `validate_actions`, and the templates that
stand in for a refused proposal. The loop of `_resolve_steps` is stated by its result: the places
of the steps that stand for something, in their order. An intent is one of monitoring or not, and
a step is a word. `KernelPlans` makes the nodes of `KernelRuns`'s planned graphs from plans. The
planner puts no mark of asynchrony into its nodes: that of the registry stands for the actions the
executor may accept as jobs.

### KernelTick

A tick is one action, for the kernel does nothing else meanwhile: the memory answers, or the
static routes, or Athena's refusal; a wanted model is enforced against the ledger; the executor's
outcome decides what is learned.  `patterns` maps intents to records and `order` is the
insertion order of the dictionary, which decides between equal scores; a restart sorts it
(`save` writes sorted keys).  `GraphLearned` and `GraphModelCall` are what graph runs do to the same
memory and the same models: `_run_task_graph` reinforces its intent, and `_handle_model` calls
the provider.  `Restart` loads the file and takes any policy.

Intents are a small set, whose tokens are given by a constant; confidences and scores are exact
integers.

### WorkflowScheduler

Time is in ticks.  It passes where the code lets it pass: in a call of `handle_intent` (`LaunchJob`
takes any time up to `MaxCall`), in the sleep after a pass (`EndPass`) and while no process runs
(`RestartScheduler`).  `slot` is the minute in which the pass began.  `LaunchRaises` and
`ScheduleRaises` end the process, for nothing in `run_forever` catches an exception.  Which minutes
a schedule matches or raises at is data of the job.  `launches` and `aliveSince` are history.  A
launch is an input of `KernelRuns` under the trace of the job and the slot, so a second launch in
one slot is the reuse of a trace, which `runs_base` allows.

### SignalAggregator

`events` is the memory of the last `MaxEvents` signals and `received` everything that came; the
properties state on `received` what the rules ask for and compare the answers the cut memory
gives.  A signal's time of observation is any time, since callers may give it.

### SignalLog and SignalBus

A line of `log` has the signals written into it (`holds`), the one a reader could parse at some time
(`told`) and whether it parses now.  A write may be cut short: in the middle of the line, or just
before its newline (`EmitCutShort`).  In the second case the line parses and readers serve it, until
the next line is joined to it; then neither parses, also behind an offset that has passed them.

The bridge is a command and a tool of `/pi`, so several runs of it may overlap (`Bridges`), each with
the state it loaded.  A run takes the new files in their order, reads one at a time into the buffer of
its open handle (`ReadExport`), whose lines reach the log when it is full or closed (`FlushBridge`,
`CloseBridge`), and saves its state once, at the end (`OpenBridgeState`, `SaveBridge`): what it
knows, whatever others recorded meanwhile.  A half-written export raises, and the handle is closed on
the way out (`ReadExportRaises`).  A reader's pass loads the offset, reads and parses all lines after
it, launches a mission for each line with a rule, and saves how far it read (`OpenOffset`,
`SaveOffset`).  The operator's `--once` and the service are two such readers.  `KillBridge` and
`KillReader` come anywhere.  A buffer is flushed in whole lines.

`write_text` empties a state file before it writes it.  Killed in between, a process leaves it empty;
two that write at once may leave a mixture.  `bridgeState` and `readerState` say so, and a file that
is not whole raises at every later start.

### Investigation

`pass[p]` is the pass of a runner: of the daemon, of a mission, or one started by hand with `--once`;
any number of the last two may be under way.  `LoadProcessed` reads the ids and raises at a file that
does not parse, `ReadWindow` takes the last lines, most severe first; then for each signal
`SkipProcessed` or calls of the model (`Answer`, `Retry`, `GiveUp`), `WriteEvidence`, and the ids in
two steps, `OpenProcessed`, which empties the file, and `SaveProcessed`.  A call walks the chain of
endpoints, each of which refuses, garbles or serves.  A mission begins with `CheckService`, and
does its pass only if the service is not active then; nothing keeps two missions, or a pass by hand,
from overlapping.  `StopService` and `KillPass` come anywhere.  `disturbances` counts the passes that
were cut off and those that began beside another one, except for a mission's and the daemon's
that the mission's question keeps apart (`KeptApart`).  `TrainerStep` is the burn-in's cycle: its
signal, evidence without an id, its outcome.

### SchedulerPolicy

`ProcessEvent` is the engine's whole handling of one event: observation, anomaly signal, hypothesis
and pattern, low-confidence signal, then the three rules over the two histories, and the
truncation of the policy file if one recommends something; `FinishWrite` is the write.  The
`failing` argument is the signal engine that raises, if any; a subscriber's exception is
swallowed and what came before it stays.  `apply_policy` is three steps: `LoadPolicy`, `AskStatus`,
`Command`; `LoadPolicyRaises` at an empty file ends the daemon, and only `RestartDaemon` brings it
back.

### PiSessions

`call[c]` is what the thread of a call holds.  `Begin` takes a thread of the pool; `MakeEngine`,
`PublishEngine` and `TakeEngine` are the unlocked test and set of the global engine;
`LookUp...`, `FetchSession` and `OpenSession` are `get_or_create_session` with its test apart from its
fetch; `Match` is routing, matching and the gate; `Execute`, `LogEntry`, `DumpSession` and
`WriteSession` are the rest of `handle`, where the dump and the write of the file are apart.
`CloseSession` persists and removes, then writes the summary and the changelog.  A reload is two
steps, `ReadManifest` and `Reload`, for `resolve_skills` reads files before `self.skills` is assigned;
of overlapping ones the older reading may come last.

### Snapshots

A creation copies the files in their order, while `Edit` makes newer versions; then comes the
manifest; then the index is read, opened and written. Every one of these writes is in place and
in two steps, an open, which empties the file, and a write: `OpenFile` and `CopyFile`,
`OpenManifest` and `WriteManifest`. `cut` has what is open or was left so. `Die` comes anywhere,
also when part of a file is written, over whatever another creation of the second had put there.
Directories are named by the second, so creations of one second share one. A live file may be
half written when it is copied: its states are numbered, whole or not. The reader mounts a name,
a label or a timestamp, and answers from the directory. Only some of the files that a snapshot
copies are those that the reader looks for (`Readable`).

## 3. Runs

| Run | Expected | Shows |
|---|---|---|
| `evolution` | pass | promotion and rollback are justified, counted, durable |
| `runs_base` | pass | serial order, durability, agreement of the files, safe plans that a restart does not mix up, `GraphEvolution` implemented; traces may be used again |
| `runs_ledger` | pass | with graphs that have files and traces used once, `RunLedger` is implemented, and fairly if job results are delivered until they are taken; only a crash within a write loses it |
| `runs_ends_async` | violation | a graph that ends in a job starts over |
| `tick` | pass | no tick calls a model outside its policy, what is remembered was done, exact answers stay, a restart changes no score |
| `schedule` | pass | once per slot and process; no slot of a running process is left out |
| `signals` | pass | triggers rest on the evidence of their rule; a miss is an eviction |
| `bus` | pass | no signal skipped that a line told; none served twice without a kill or an overlap; imported again once per abort and per overlap; every line served in the end unless a cut line or state file stops the service |
| `investigate` | pass | processed signals have evidence; one investigation each, and one more per cut or overlapping pass; what stays in the window is investigated unless a cut line or file of ids blocks it |
| `policy` | pass | stops are recommended after quiet only; no observation is lost; a policy that stays is applied |
| `pi` | pass | what of a session survives on file and in its summary; which mutating skills run, also when reloads overlap |
| `snapshots` | pass | the index names finished snapshots, cut only by another creation of their second; finished ones are listed; a name gives one answer |

Some properties have a premise that names the disturbance which would break them (`disturbed`,
`overlapped`, `raced`, `torn`), others count it (`crashes`, `aborts`, `overlaps`, `disturbances`).  The
disturbances are in the models and reached in the runs.  A premise is what the property says of the
code: what happens once it fails is in the model without a property (section 5).

### Bounds

`evolution`, `runs_...`: two runs promote (the default `min_runs_for_promotion`) and two more reach
the streak threshold of 2, so `MaxRuns` 4 sees a promotion and the rollback after it.
`MaxCrashes` 1: one crash reaches every pair of writes, and the inside of each; `runs_ends_async` has
none, so its counterexample is not one; the bounds that speak of crashes
(`ReexecutionBound`, `FilesAgree`, `FailuresCounted`) are stated with the crash counter.  Two
launches make two runs interleave, or one replace the other under its trace.  Graphs have two or
three nodes: the asynchronous node comes first, in the middle, and, in `runs_ends_async`, last.
`ExecCap` 3 lies above every bound on executions that is stated.  Versions are symmetric in
`evolution`; nothing temporal is checked there that symmetry could hide (action properties only).

Planner, in `runs_base`: five registries (the shipped one; two actions for a word; an asynchronous
action late in the alphabet; a limit below the templates; hardly any actions and no limit), all
lists of up to four of six words in each form a proposer may bring, some 78,000 requests.  The
kernel itself plans three of them, which give two graphs; `PlansAreSafe` asks of the kernel's graph
that none of the requests that lead to it is badly served, and `PlannedRunsArePlans` that a job which
ends after a restart, when the plan is lost, resumes no other graph in its place.

`tick`: the second of three intents shares its one word with each of the others, so it is a hit by
score, a tie and a miss; payloads on both sides of the limits `resolve` looks at, and a route over
every cap; three policies that differ in the limits and in what they allow.  The state space is
finite, so there is no bound on the number of ticks.

`schedule`: ticks of ten seconds, an interval of three (the default of 30 seconds) and calls of up to
one, so that a pass of three jobs and the sleep just fit a minute (`ShortPasses` holds with
equality).  Four slots and two processes see two passes in one minute, a pass that crosses a
minute, an exception at each place and a restart within a minute.

`signals`: four signals of three types with a memory of three, so that one is evicted; three times
around windows of one and two; rules of two types, of one, and one that names a type twice.

`bus`: a log of three lines, so that a line lies before, in and after a batch; one cut write, whose
stump parses or not and is joined to the next line or stays last; two exports of one record, of which
the later may be seen half-written; two runs of the bridge, a buffer of one line, so that a run
is cut between two flushes; one abort and one overlap of the bridge.  Readers are killed any number
of times.  Launches are counted to 2.  To keep the states few, the constraint `MCBounds` leaves out
behaviours with more than two processes under way at once, or with more than one kind of mishap (a cut
write, an abort, an overlap of bridges, a disturbed pass).  A pair of processes is what the properties
relate; which mishaps together would break a bound is left to the theorems, which have no such
constraint.

`investigate`: three lines and a window of two, so that one is pushed out; a severe signal, one
without an id, the burn-in's two; two endpoints and two tries, so that both the chain and the
retry decide; the daemon, a mission and a pass by hand.  Evidence is counted to 3 and disturbances to
2.  `MCBounds` allows two passes (or one and the burn-in) at a time, and two mishaps in all; as
above, the theorems do without.

`policy`: the quiet window is longer than the other two, as in the code, and thresholds of two are
reached by three events over three ticks; two engines, so one restart; operators, launches and
failing commands are unbounded.

`pi`: two requests, a closure and two reloads in any order on two threads, so that any two overlap;
two skills that the first request matches both of, the mutating one demoted in the second version
of the manifest; one restart.  The two reloads do the same, so they are symmetric, and only invariants
are checked.

`snapshots`: two creations with one label in the same or in two seconds; two files, of which one is
made and rewritten and the other made (`MaxState`), so that a snapshot may mix old and new or lack
one; the reader asks by label and by timestamp.

### Fairness

`FairSpec` of `KernelRuns` assumes that a call in progress goes on (`WF` of `CallStep`), for the
kernel is sequential code whose calls return, and nothing else: nothing of launches,
registrations, crashes or results. That a job's result is delivered again until the kernel takes
it is the premise `WorkersDeliver` (`SF` of `HandleJobFinished`) of `KeepsLedger` and
`TrackedToCompletion`: the repository has no worker that does so, and without one a pending run
waits for ever. It is strong fairness because launches may keep the kernel from being idle.

`FairBusSpec` assumes that the service's passes go on (`WF` of `PassStep(Service)`): it polls, and
when it ends it is started again, as the policy daemon does while the policy says running.
`EveryLineServed` holds if the service is not killed for ever (`KilledFinitely`), and unless it
ends at every start: at a line that does not parse (`Stuck`), or at an offset's file that a kill or two
writers left unreadable (`StateLost`).

In `Investigation` the daemon's passes go on while its service is active.  `WindowInvestigated`
adds as a premise that the service stays active and that the daemon's calls of the model are served
within their retries from some time on (`DaemonWorks`): nothing in the code makes a model answer.  It
leaves out a window with a line that does not parse, and a file of ids that does not (`IdsLost`).

In `SchedulerPolicy` the daemon's loop goes on while it lives.  `PolicyApplied` has as premises
what the code does not ensure: that the policy stays, the daemon lives, commands work and nobody
else starts or stops the service.

## 4. Proofs

Every theorem holds for all values of the constants that meet the named `ASSUME`s.  TLC checked
each inductive invariant, or the property it is for, on the instance of a run before it was proved.

`KernelRunsProofs`, first part: `TypeOK`, `RolledBackAtThreshold`, `DecisionsDurable`,
`ActiveLoadable`, `PromotedWithEvidence` and `FailuresCounted` are invariants of `EvoSpec`.  None
but `TypeOK` is inductive alone; `IInv` strengthens them: a registered version has its file
(`Files`), a version that was ever active has its runs (`Evidence`), and a failed run in scoring
has a score of at most 40 (`LowScore`), for the memory and for the index file, which differ by
registrations only (`IndexFollows`).  From the same invariant, `MovesJustified`: every step that changes
the active version promotes an experimental version with the runs and the mean for it (`Earned`), or
goes back to the direct predecessor when a failure brings the count to the threshold (`Forfeited`; by
the lemma `FailureMoves` about `record_failure`).

`KernelRunsProofs`, second part: `Spec => EvoSpec`, so those theorems hold of the kernel, and
`KernelTypeOK`, `StoredRunsWait`, `AnswersDurable`. The strengthening is `CallWaits`: a call
executes nodes only while its run waits for nothing; and no call is in progress where a crash tore
a file (`TornStops`). `DecisionsDurable` and `AnswersDurable` say what a restart finds where it
can start: of a torn file they say nothing, and that it is lost is what the model shows. On top
of it:

- `FinishedIsFinal` and `FilesAgree`, with `HistoryInv`: a run number is stored under one trace at
  most, in memory, on disk or in the call in progress, and its counters follow the steps of that
  call.
- `SerialOrder`, with `OrderInv`: what is stored of a run has all nodes before its job "ok".  Premise
  `JobsKeepPlace`: in all graphs that go by one name, the node of a job has the same nodes before
  it.  A result is resumed in the graph that now has the name, so without it the order is lost; the
  planners number their nodes, and `MCKernelRuns` assumes it of the checked instance.
- `ReexecutionBound`, with `ExecInv`: a stored run has executed its nodes up to the job, each once and
  once more per crash that threw the call back.  Further premise `JobsGoOn`: no graph ends in a job.
  That is what `runs_ends_async` violates.
- `LedgerSafe`: each step maps to a step of `RunLedger` or a stutter, a crash within a write to
  its closing, if traces are used once (`~ReuseTraces`, as in `runs_ledger`; with `TracesUsed` and
  `InStep`).  The fair part, `KeepsLedger`, is TLC's.

`KernelTickProofs` proves type correctness and the four properties of the run `tick` for every set of
intents, tokens, routes, policies and loaded records.  Its invariant joins the types, that every
call a tick made was within the policy of that time, and that every record was loaded or done; the
order of the records is shown to list each record once, and the score of the best candidate not to
depend on the order (a finite set of candidates has a top score, `FiniteHasTop`).

`KernelRunsProofs`, third part, about plans.  `PlansAreSound`: for every registry and whatever a model
proposes, the plan is sound, in a form that looks at the result and not at how the planners get it.
Its lemmas: actions have one place each in the order of names (`PlaceIs`), so an action of the
preferred kind ranks before all others (`RankIs`, `BestIs`), what a step becomes serves it
(`ActionServes`), and when all steps stand for something none moves (`AllTaken`).  With it
`PlansAreSafe`; and, from `GraphsKnown` (what the kernel holds or runs under an id is a graph that a
lookup of the id may end at), `PlannedRunsArePlans`.  Premise of the latter: `PlansOnly`, that
the planned graphs come from the planner.  `PlannedRunsInOrder` puts the planner in the place of the
premise `JobsKeepPlace` above: plans number their nodes from the first, so where ids are kept apart
(`IdsApart`) `SerialOrder` holds without it.  A proposal may name the id of a file's graph, and
then it does not.

`KernelInputsProofs`, first part, proves type correctness and the two properties of the run
`schedule` for any jobs, ids, interval and length of the calls. `OncePerProcess` needs that
launched slots lie in the past and the last one of an id is its latest (`SlotsPast`).
`NoSlotLeftOut` needs `SlotsVisited`: every slot the process has passed is launched, and the clock
is bounded by the slot of the pass and the calls made in it; so the next pass begins in the same
or the next minute (`NextMinute`).

`KernelInputsProofs`, second part, proves the two properties of the run `signals` for any rules,
memory and order of observation. `SignalInv` is inductive: signals carry their numbers, the
memory is the end of what was received (`MemoryFits`), the answer is the one the memory gives at
the last signal's time (`TriggerFits`). In such a state what a rule finds for a type is the last
of it in the window among all that was received (`FoundIsLast`), and evidence that was not pushed
out is found (`KeptIsFound`). A rule matches when as many types are found as it names, so none
twice (`MatchedWhole`: a surjection between sets of one size is an injection). The code adds
scores up by places in the memory, the properties by signals; that the sums agree is `SumMoves`: a
sum over a set is the sum over its image under an injection that keeps the values.

The lemmas about sums are inductions, which here are about sets: `CountUp` and `SubsetInduction` say
that a set of numbers, or of subsets of a finite set, that is closed under the step holds all of
them, and follow from the library's theorem that `<` is well founded on the naturals (`WFMin`).  With
them a recursion of the library is shown to have a solution (`SumExists`), which its `CHOOSE` then is.

`SignalBusProofs` proves the four safety properties of the run `bus` for any readers, runs of the
bridge, lines and exports. `PassesServed`: all that lies between the offset a pass began with and
its line told its signal and is launched, so the offset it saves skips nothing, whoever saved
another one meanwhile; what a line told it goes on telling, also when another is joined to it
(`Grown`). `UndisturbedOnce`: until a disturbance no two passes are under way, and nothing after
the offset but the lines of the one pass is launched. `KnownOnBus`: what a run of the bridge has
read is on the log or in its buffer. `LinesCounted` bounds the lines of a signal together with
the runs that will still add one (`Adding`): they are at most one for each abort and overlap and
one more, which a run under way may add, which the record of the file answers for, or which was
not added yet while some run can make the record forget it (`Forgets`). Its premise
`ExportsDistinct` is that no signal is exported twice, without which the bridge imports it twice,
as it should; `MCSignalBus` assumes it of its exports.

`InvestigationProofs` proves the two safety properties of the run `investigate` for any log, window,
models, missions and passes by hand.  `PassInv`: what the file or a pass under way has as processed
has evidence (`Evidenced`); a mission's pass and the daemon's go on at once only if the service was
started after the mission asked (`Apart`); and the evidence of a signal, with the passes that may still
add to it, is due to the disturbances but for one, which the file or a pass accounts for
(`AllCounted`).  That a window in order of severity keeps each of its lines once rests on their ranks
(`Places`).  It is assumed that the burn-in's signals are its own (`Cycle \notin Emitted`), as its
generated ids are.

`SchedulerPolicyProofs` proves the two safety properties of the run `policy` for any thresholds and
windows.  The policy in the file and the one being written were decided by now, by an engine
there has been, and a stop of the living one had its quiet (`BothFounded`); fewer observations
wait than a pattern needs (`Counted`).

`PiSessionsProofs` proves the three properties of the run `pi` for any calls, threads, skills and
manifests. `PiInv` has the types and what a call holds at each step (`Ways`), that as long as no
engine replaced another every call has the gateway's, which, like what a reload has read and not
yet put in place, is no older than the last reload that ended with no other one between its steps
(`Engines`), that an unmarked session has one call under way (`Overlaps`), and for each call: an
answered request lasts in the engine's session and its file until the session is closed (`Kept`),
a sole closure takes every answered request along (`Closed`), and the gate (`Gated`): what runs
was beta or better in a manifest that is recent enough. Restarts and second engines are not
excluded; they are where the properties' own premises end.

`SnapshotsProofs` proves the three properties of the run `snapshots` for any number of files, creations
and seconds, however creations are killed, overlap or share a second.  `SnapInv` adds to the types
that a creation has its timestamp from its start on (`Stamped`), that neither a directory nor what
a creation saw at its start is newer than the live files (`NotAhead`, without which a second
creation could put an older version into a shared directory), that a creation has taken the files
before its next one (`CopiedSoFar`), and that the index, and every copy of it a creation holds, names
whole snapshots (`NamesWhole`): in which nothing is cut but where a creation of that second is at it or
was killed at it.  `StaysWhole` is the lemma they meet in: a whole snapshot stays whole.
`FinishedIsListed` adds that the copy of the index an updating creation holds has all that is
listed (`AllListed`), `SameAnswers` that the entry a name is answered from, and its directory, are
those of every answer given before (`StillSo`).  Both have the premise `LabelsApart`, that no label is a
timestamp (labels are free text given by the caller): `mount_snapshot` takes a name for a timestamp
first, so a later snapshot may take the name from a label that looks like one.

Assumptions are the named `ASSUME`s of the modules: thresholds within 0..100, distinct node ids
and no empty graph (`load_solution_graphs` drops empty ones), no run that is the mark for none, an
initial family as `register_version` writes it.

Model-checked only:

- Liveness (`KeepsLedger`, `EveryLineServed`, `WindowInvestigated`, `PolicyApplied`): the prover does no
  fairness.  Of `KeepsLedger` the safe part is proved.

Every other property of a passing run is the statement of a theorem.  `KernelTypeOK` is proved and is
not among the properties of `runs_base`.

## 5. Where code and texts differ

The run `runs_ends_async` is a violation: `run_once` takes "no next node" for "from the start"
(`hades/kernel.py:507`), so a graph whose last node is a job starts over when that job ends;
`SYSTEM.md:193` says the kernel tracks jobs until completion.

Nearly every file is rewritten in place, so it is empty between its opening and its writing, and no
reader of such a file gets past one that does not parse.  A process killed in between therefore
stops something for good, in the models as in the code:

| File | Written at | What then raises at every start |
|---|---|---|
| `graph_index.json`, `graph_metrics.json` | `hades/graph_registry.py:83`, `hades/graph_fitness.py:50` | the kernel; all decisions are gone |
| `state.json`, `pattern_index.json` | `hades/kernel.py:88`, `hades/patterns.py:118` | the kernel; all pending runs are gone |
| `scheduler_state.json` | `tools/clawx_scheduler.py:50` | every pass of the scheduler |
| `acme_signal_bridge_state.json` | `tools/acme_signal_bridge.py:31` | every run of the bridge |
| `processed_signals.json` | `modules/investigation_engine/investigation_loop.py:58` | every pass of the investigation |
| `scheduler_policy.json` | `modules/clawx_engine/scheduler_policy_writer.py:45` | the policy daemon, which ends |
| the snapshot index | `tools/snapshot_state.py:125` | every creation and every reader |
| a file or the manifest of a listed snapshot | `tools/snapshot_state.py:101` | nothing: a second creation of the second that is killed leaves it cut |

The properties about these files say what holds where they are whole, and that nothing but such a
kill (or two writers at once) makes them unreadable.

The models also contain these behaviours, for which there is no run of their own.

Kernel:

- The failure count of a family takes failures of any version, with successes between them
  (`hades/graph_registry.py:194`); `hades/graph_fitness.py:94` calls its limit a streak threshold.
- A failed run that was quick and cheap scores 0.4, above the failure threshold of 0.3, and is not
  counted (`hades/graph_fitness.py:115`).
- A result that comes before its run is stored is not asked for again (`hades/kernel.py:479`); nothing
  delivers results again.
- A planned graph is in memory only, so its pending run is lost in a restart; a second run under a
  trace replaces a pending one (`SYSTEM.md:193`).  A plan with the id of a pending run's graph replaces
  that graph (`hades/kernel.py:387`).
- A failed job counts as done (`hades/kernel.py:503`, `hades/task_graph.py:108`).
- A model node of a graph calls its model without the ledger (`atlas/executor.py:53`,
  `hades/budget.py:28`, `SYSTEM.md:33`).
- Two records that score alike answer in the order they were learned before a restart and in the
  order of their texts after it (`hades/patterns.py:167`).

ClawX:

- A line of the log that does not parse ends every pass of the scheduler, and one in the window
  every pass of the investigation.  A line whose newline is missing is served; the line joined to it
  then lies behind the offset, and its signal is served by nobody.
- Two runs of the bridge at once import what both find new, and the record of the later one may forget
  what the other recorded, so that it is imported once more (`tools/acme_signal_bridge.py:55`).
- Two missions at once, or a pass with `--once` beside another, investigate a signal twice, and the
  record of one may forget that of the other (`tools/mission_runner.py`).
- A restarted engine recommends a stop at its first quiet event with the reason "No anomalies
  detected recently" (`modules/clawx_engine/scheduler_policy_rules.py:49`).
- The daemon that meets the policy file between truncation and write ends, and nothing restarts it.

Pi:

- A session id used again after its closure starts an empty session, which overwrites the file of the
  closed one ("Every Pi session logs", `assistant_manifest.md:77`).
- Of two overlapping reloads the one that read the manifest first may end last, and its skills stay
  until the next one (`hades/pi_engine.py:78`).
- Skills of the home repository come first whatever their status; the docstring of `prefer_home` asks
  for beta or better (`hades/skill_resolver.py:112`).

Snapshots:

- A snapshot is not one instant: files are copied one after the other while they change.
- Two creations in one second share a directory, so a listed snapshot may still change, and is left
  with a cut file or manifest if the second one is killed.
- The reader looks for `signal_index.json` and `trigger_index.json`, a snapshot has `signals.json` and
  `triggers.json`, so queries about signals have no answer.
- An index left empty by a creation that died stops every later creation and every reader.

## 6. Plan

Done, in this order: `GraphEvolution`, `KernelRuns` over it with `RunLedger` as its promise,
`KernelTick`, `WorkflowScheduler`, `SignalAggregator`, then `SignalBus`, `Investigation`,
`SchedulerPolicy`, `PiSessions`, `Snapshots` and `Planner` with `KernelPlans`; then the proofs of
section 4, which cover every safety and action property.  Next:

- `Governance`: read-modify-write of the skill state and the agent registry by several tools.

## 7. What is not modelled

- Trigger engine (`hades/triggers.py`): a stateless first match over a rule table.  It only decides
  which graph a launch of `KernelRuns` is for.
- Skill and agent governance: next in the plan.
- Providers and adapters, the Obsidian export, cluster, status and terminal tools: input and output,
  no state of their own.  Facades and examples.
- Of ClawX: the autonomy cycle, which emits signals by a timer (to the bus it is a writer), the console
  and the event log, which nothing reads back, and the loop that only prints.
- Of missions and the burn-in: prompts, statistics and the agents other than the investigation.
- Of Pi: the gateway's routes that only read files, and what a skill does.

Abstracted in what is modelled: texts, payloads and formats; float rounding; the fields of
cron expressions; prompts and the payloads of planned nodes; the model client that only tests inject.

Of the writes in place, these are left out or coarser than the code:

- What is lost with a torn file of the kernel is not told apart by file: after any such crash the model
  stops.  That somebody repairs a file by hand is in no model.
- A version's own graph file that is cut off while it is registered again (`load_active` then raises,
  while the kernel starts).
- In `KernelTick` the memory and the state are written in one step: a restart comes between two ticks.
- Session files, summaries and the changelog of Pi are written in one step; a restart ends the
  properties' premises anyway.
- Two processes that write one file at once leave it whole or unreadable; which bytes mix is not told.
- A line of evidence that is cut short, and a flush of the bridge's buffer that ends within a line.
- The kernel's events, of which the last hundred stay in `state.json`; the ledger speaks of what
  the file told while it kept them.
