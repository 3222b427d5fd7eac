--------------------------- MODULE GraphEvolution ---------------------------
(***************************************************************************)
(* How graph versions come and go: registration, the scoring of every      *)
(* finished run, promotion of experimental versions and rollback of        *)
(* failing ones (hades/graph_registry.py, hades/graph_fitness.py and       *)
(* HadesKernel._score_graph_run).                                          *)
(*                                                                         *)
(* A run is scored in two durable writes: graph_metrics.json, then         *)
(* graph_index.json.  They are two steps here, with a crash possible in    *)
(* between.  The metrics in memory never differ from the file; the         *)
(* registry does, because register_version saves the graph's own file but  *)
(* not the index.                                                          *)
(*                                                                         *)
(* A file is opened with "w", which empties it, and then written.  Only a  *)
(* crash shows that these are two: a crash within a write leaves a file    *)
(* that json.load raises at, so that no kernel starts again and nothing    *)
(* happens any more.                                                       *)
(***************************************************************************)
EXTENDS GraphRegistry, FiniteSets

CONSTANTS GraphIds,      \* ids a finished run may carry, the versions included
          Samples,       \* the run metrics the environment produces
          InitialFamily, \* the family in graph_index.json at the first start
          NoGraph,       \* no run is being scored
          MaxRuns,       \* bound: scored runs
          MaxCrashes     \* bound: crashes of the process

ASSUME EvolutionAssumption ==
  /\ Versions \subseteq GraphIds
  /\ NoGraph \notin GraphIds /\ NoVersion \notin GraphIds
  /\ Samples \subseteq GraphMetrics
  /\ MaxRuns \in Nat
  /\ MaxCrashes \in Nat

VARIABLES
  family,    \* GraphRegistry.index of the family, in memory
  indexFile, \* the same in graph_index.json
  files,     \* the versions with a graph file
  metrics,   \* GraphFitnessStore.data and graph_metrics.json
  scoring,   \* the graph whose metrics are written and whose registry record is not yet adjusted
  streak,    \* history: failed runs in a row of the active version since it was promoted or rolled back to
  scored,    \* history: runs scored so far
  crashes,   \* history: crashes so far
  torn       \* a crash within a write has left a file that does not parse

evoVars == <<family, indexFile, files, metrics, scoring, streak, scored, crashes, torn>>

\* A registry file as register_version and save write it.
WellFormed(fam) ==
  /\ fam \in Families
  /\ \A i, j \in DOMAIN fam.versions : fam.versions[i] = fam.versions[j] => i = j
  /\ IF fam.versions = << >> THEN fam.active = NoVersion
                             ELSE Registered(fam, fam.active)

ASSUME InitialFamilyAssumption ==
  /\ WellFormed(InitialFamily)
  /\ InitialFamily.failure_count = 0
  /\ InitialFamily.history \subseteq
       (IF InitialFamily.versions = << >> THEN {} ELSE {InitialFamily.versions[1]})

EvoInit ==
  /\ family = InitialFamily
  /\ indexFile = InitialFamily
  /\ files = {v \in Versions : Registered(InitialFamily, v)}
  /\ metrics = [g \in GraphIds |-> NoRuns]
  /\ scoring = NoGraph
  /\ streak = 0
  /\ scored = 0
  /\ crashes = 0
  /\ torn = FALSE

\* register_version: the graph file is written before the index changes.
Register(v, experimental) ==
  /\ ~torn
  /\ scoring = NoGraph
  /\ files' = files \union {v}
  /\ family' = register_version(family, v, experimental)
  /\ streak' = IF family.active = NoVersion THEN 0 ELSE streak
  /\ UNCHANGED <<indexFile, metrics, scoring, scored, crashes, torn>>

\* save, called by whoever registered the versions.
SaveIndex ==
  /\ ~torn
  /\ scoring = NoGraph
  /\ indexFile' = family
  /\ UNCHANGED <<family, files, metrics, scoring, streak, scored, crashes, torn>>

\* The first half of _score_graph_run: fitness_store.record writes the metrics.
RecordMetrics(g, m) ==
  /\ ~torn
  /\ scoring = NoGraph
  /\ scored < MaxRuns
  /\ scored' = scored + 1
  /\ metrics' = [metrics EXCEPT ![g] = record(@, score(m))]
  /\ scoring' = g
  /\ streak' = IF g # family.active THEN streak
               ELSE IF m.success THEN 0 ELSE streak + 1
  /\ UNCHANGED <<family, indexFile, files, crashes, torn>>

Promotes(g)  == /\ Registered(family, g)
                /\ should_promote(metrics[g], g \in family.experimental)

CountsFailure(g) == /\ Registered(family, g)
                    /\ ~Promotes(g)
                    /\ should_record_failure(metrics[g])

\* Mutant: a counted failure is saved only when it has moved the active version.
AdjustSavingMoves ==
  /\ ~torn
  /\ scoring # NoGraph
  /\ scoring' = NoGraph
  /\ family' = IF Promotes(scoring) THEN promote_version(family, scoring)
               ELSE IF CountsFailure(scoring) THEN record_failure(family) ELSE family
  /\ indexFile' = IF family'.active # family.active THEN family' ELSE indexFile
  /\ streak' = IF family'.active # family.active THEN 0 ELSE streak
  /\ UNCHANGED <<files, metrics, scored, crashes, torn>>

\* The second half: a graph outside every family changes nothing, a promotion
\* comes before a failure, and a changed registry is saved.
AdjustRegistry ==
  /\ ~torn
  /\ scoring # NoGraph
  /\ scoring' = NoGraph
  /\ \/ /\ Promotes(scoring)
        /\ family' = promote_version(family, scoring)
        /\ indexFile' = family'
        /\ streak' = 0
     \/ /\ CountsFailure(scoring)
        /\ family' = record_failure(family)
        /\ indexFile' = family'
        /\ streak' = IF family'.active # family.active THEN 0 ELSE streak
     \/ /\ ~Promotes(scoring) /\ ~CountsFailure(scoring)
        /\ UNCHANGED <<family, indexFile, streak>>
  /\ UNCHANGED <<files, metrics, scored, crashes, torn>>

\* The next step of the process writes a file.
Writes == scoring = NoGraph \/ Promotes(scoring) \/ CountsFailure(scoring)

\* The process dies.  It starts again from its files, or it died within a write and cannot:
\* then the variables keep what the files last held whole.
CrashEvolution ==
  /\ ~torn
  /\ torn' \in {FALSE, Writes}
  /\ crashes < MaxCrashes
  /\ crashes' = crashes + 1
  /\ family' = indexFile
  /\ scoring' = NoGraph
  /\ streak' = IF indexFile.active # family.active THEN 0 ELSE streak
  /\ UNCHANGED <<indexFile, files, metrics, scored>>

EvoNext ==
  \/ \E v \in Versions, experimental \in BOOLEAN : Register(v, experimental)
  \/ SaveIndex
  \/ \E g \in GraphIds, m \in Samples : RecordMetrics(g, m)
  \/ AdjustRegistry
  \/ CrashEvolution

EvoSpec == EvoInit /\ [][EvoNext]_evoVars

-----------------------------------------------------------------------------
(* Properties *)

\* Every variable has its type, and both copies of the family are well formed.
TypeOK ==
  /\ WellFormed(family)
  /\ WellFormed(indexFile)
  /\ files \subseteq Versions
  /\ metrics \in [GraphIds -> Summaries]
  /\ scoring \in GraphIds \union {NoGraph}
  /\ streak \in Nat
  /\ scored \in 0..MaxRuns
  /\ crashes \in 0..MaxCrashes
  /\ torn \in BOOLEAN

\* load_active always finds a graph: the active version of the memory and of
\* the index file, which a restart reads, has its graph file.
ActiveLoadable ==
  \A fam \in {family, indexFile} :
    \A i \in DOMAIN fam.versions : fam.versions[i] \in files

\* A failure count at the threshold is not left standing on a version that has
\* a predecessor: record_failure has rolled back, in memory and on disk.
RolledBackAtThreshold ==
  \A fam \in {family, indexFile} :
    fam.failure_count >= FailureStreakThreshold => fam.active = fam.versions[1]

\* Where a crash leaves files that a kernel starts from, it undoes no promotion, no
\* rollback and no counted failure: what is lost is registrations nobody saved.  Within a
\* write a crash loses the whole file, and no kernel starts (from_paths).
DecisionsDurable ==
  ~torn => /\ family.failure_count = indexFile.failure_count
           /\ indexFile.active # NoVersion => family.active = indexFile.active
           /\ \A v \in Versions : Registered(indexFile, v) => Registered(family, v)

\* A version that was not the family's first has been active by promotion only
\* with the runs a promotion asks for, also when the registry was reloaded.
PromotedWithEvidence ==
  \A v \in family.history :
    \/ v = family.versions[1]
    \/ metrics[v].runs >= MinRunsForPromotion

\* A run in scoring that failed and whose failure is not counted yet.
Uncounted == IF scoring # NoGraph /\ scoring = family.active THEN 1 ELSE 0

\* If every failed run scores at or below the failure threshold, the failures in
\* a row of the active version are all counted, but for one a crash can lose.
FailuresCounted ==
  FailureThreshold >= 40 => streak <= family.failure_count + crashes + Uncounted

\* An experimental version with the runs and the mean score a promotion asks for.
Earned(fam, v) ==
  /\ v \in fam.experimental
  /\ metrics[v].runs >= MinRunsForPromotion
  /\ metrics[v].sum >= PromotionThreshold * metrics[v].runs

\* A version of the family has just failed and the failures reach the threshold, and v is
\* the direct predecessor of the active version.
Forfeited(fam, v) ==
  /\ Registered(fam, scoring) /\ metrics[scoring].last <= FailureThreshold
  /\ fam.failure_count + 1 >= FailureStreakThreshold
  /\ ActiveIndex(fam) > 1 /\ v = fam.versions[ActiveIndex(fam) - 1]

\* The active version, once there is one, moves by a promotion that was earned or back by
\* one version when the failures reach the threshold, and never by a registration, by
\* another run or by a restart (_score_graph_run, record_failure).
MoveJustified(old, new) ==
  (old.active # NoVersion /\ new.active # NoVersion /\ old.active # new.active) =>
    Earned(old, new.active) \/ Forfeited(old, new.active)

ActiveMovesJustified == [][MoveJustified(family, family')]_evoVars

=============================================================================
