-------------------------- MODULE KernelRunsProofs --------------------------
(***************************************************************************)
(* Proofs about the kernel.  First about GraphEvolution, for every set of  *)
(* versions, every sample of run metrics and every threshold; nothing of   *)
(* KernelRuns is used there.  Then about KernelRuns, which extends it and  *)
(* implements it, for every set of graphs, traces and versions and every   *)
(* number of launches and crashes.  Last about Planner and KernelPlans,    *)
(* for every registry of capabilities and whatever a model proposes.       *)
(***************************************************************************)
EXTENDS KernelPlans, FiniteSetTheorems, WellFoundedInduction, TLAPS

\* What holds of a family record wherever it is: it is well formed, and at the
\* failure threshold its first version is active.
FamilyOK(fam) ==
  /\ WellFormed(fam)
  /\ fam.failure_count >= FailureStreakThreshold => fam.active = fam.versions[1]

-----------------------------------------------------------------------------
(* The registry operations *)

\* The position of the active version is one where it is registered, and the
\* only one.
LEMMA ActiveIndexFact ==
  ASSUME NEW fam, WellFormed(fam), fam.versions # << >>
  PROVE  /\ ActiveIndex(fam) \in DOMAIN fam.versions
         /\ fam.versions[ActiveIndex(fam)] = fam.active
         /\ \A i \in DOMAIN fam.versions : fam.versions[i] = fam.active => i = ActiveIndex(fam)
  BY DEF WellFormed, Registered, ActiveIndex

\* register_version keeps a family record well formed.
LEMMA RegisterOK ==
  ASSUME NEW fam, FamilyOK(fam), NEW v \in Versions, NEW e \in BOOLEAN
  PROVE  FamilyOK(register_version(fam, v, e))
<1> DEFINE new == register_version(fam, v, e)
<1>1. /\ fam \in Families
      /\ \A i, j \in DOMAIN fam.versions : fam.versions[i] = fam.versions[j] => i = j
  BY DEF FamilyOK, WellFormed
<1>2. fam.versions \in Seq(Versions) /\ fam.active \in Versions \union {NoVersion}
  BY <1>1 DEF Families
<1>3. new \in Families
  BY <1>1, <1>2 DEF Families, register_version
<1>4. /\ new.active = IF fam.active = NoVersion THEN v ELSE fam.active
      /\ new.versions = IF Registered(fam, v) THEN fam.versions ELSE Append(fam.versions, v)
      /\ new.failure_count = fam.failure_count
  BY DEF register_version
<1> HIDE DEF new
<1>5. CASE Registered(fam, v)
  <2>1. new.versions = fam.versions /\ fam.versions # << >>
    BY <1>2, <1>4, <1>5 DEF Registered
  <2>2. fam.active # NoVersion
    BY <2>1, RegistryAssumption, <1>2 DEF FamilyOK, WellFormed, Registered
  <2>3. new.active = fam.active
    BY <1>4, <2>2
  <2>4. Registered(new, new.active)
    BY <2>1, <2>3 DEF FamilyOK, WellFormed, Registered
  <2>5. WellFormed(new)
    BY <1>1, <1>3, <2>1, <2>4 DEF WellFormed
  <2> QED
    BY <1>4, <2>1, <2>3, <2>5 DEF FamilyOK, new
<1>6. CASE ~Registered(fam, v)
  <2>1. new.versions = Append(fam.versions, v) /\ new.versions \in Seq(Versions)
    BY <1>2, <1>4, <1>6
  <2>2. /\ Len(new.versions) = Len(fam.versions) + 1
        /\ new.versions[Len(fam.versions) + 1] = v
        /\ \A i \in 1..Len(fam.versions) : new.versions[i] = fam.versions[i]
        /\ DOMAIN new.versions = 1..(Len(fam.versions) + 1)
        /\ DOMAIN fam.versions = 1..Len(fam.versions)
        /\ Len(fam.versions) \in Nat
    BY <1>2, <2>1
  <2>3. \A i, j \in DOMAIN new.versions : new.versions[i] = new.versions[j] => i = j
    BY <1>1, <1>6, <2>2 DEF Registered
  <2>4. new.versions # << >>
    BY <2>2
  <2>5. CASE fam.versions = << >>
    <3>1. fam.active = NoVersion /\ Len(fam.versions) = 0
      BY <2>5 DEF FamilyOK, WellFormed
    <3>2. new.active = v /\ new.versions[1] = v
      BY <1>4, <2>2, <3>1
    <3>3. Registered(new, new.active)
      BY <2>2, <3>1, <3>2 DEF Registered
    <3>4. WellFormed(new)
      BY <1>3, <2>3, <2>4, <3>3 DEF WellFormed
    <3> QED
      BY <3>2, <3>4 DEF FamilyOK, new
  <2>6. CASE fam.versions # << >>
    <3>1. Registered(fam, fam.active)
      BY <2>6 DEF FamilyOK, WellFormed
    <3>2. fam.active # NoVersion
      BY <3>1, <1>2, RegistryAssumption DEF Registered
    <3>3. new.active = fam.active
      BY <1>4, <3>2
    <3>4. Registered(new, new.active)
      BY <2>2, <3>1, <3>3 DEF Registered
    <3>5. 1 \in 1..Len(fam.versions)
      BY <1>2, <2>2, <2>6
    <3>6. new.versions[1] = fam.versions[1]
      BY <2>2, <3>5
    <3>7. WellFormed(new)
      BY <1>3, <2>3, <2>4, <3>4 DEF WellFormed
    <3> QED
      BY <1>4, <3>3, <3>6, <3>7 DEF FamilyOK, new
  <2> QED
    BY <2>5, <2>6
<1> QED
  BY <1>5, <1>6 DEF new

\* promote_version does, for a registered version.
LEMMA PromoteOK ==
  ASSUME NEW fam, FamilyOK(fam), NEW v \in Versions, Registered(fam, v)
  PROVE  FamilyOK(promote_version(fam, v))
<1> DEFINE new == promote_version(fam, v)
<1>1. fam \in Families
  BY DEF FamilyOK, WellFormed
<1>2. /\ new \in Families
      /\ new.active = v
      /\ new.versions = fam.versions
      /\ new.failure_count = 0
  BY <1>1 DEF Families, promote_version
<1>3. fam.versions # << >>
  BY DEF Registered
<1> HIDE DEF new
<1>4. WellFormed(new)
  BY <1>2, <1>3 DEF FamilyOK, WellFormed, Registered
<1> QED
  BY <1>2, <1>4, FitnessAssumption DEF FamilyOK, new

\* What rollback returns: the family as it was, or with the direct predecessor
\* of the active version active and no failures counted.
LEMMA RollbackOK ==
  ASSUME NEW fam, WellFormed(fam)
  PROVE  /\ WellFormed(rollback(fam))
         /\ rollback(fam).versions = fam.versions
         /\ rollback(fam).history = fam.history
         /\ IF CanRollBack(fam)
            THEN rollback(fam).failure_count = 0
            ELSE /\ rollback(fam) = fam
                 /\ fam.versions # << >> => fam.active = fam.versions[1]
<1>1. fam \in Families /\ fam.versions \in Seq(Versions)
  BY DEF WellFormed, Families
<1>2. CASE CanRollBack(fam)
  <2>1. fam.versions # << >>
    BY <1>2 DEF CanRollBack, Registered
  <2>2. ActiveIndex(fam) \in DOMAIN fam.versions /\ ActiveIndex(fam) > 1
    BY <1>2, <2>1, ActiveIndexFact DEF CanRollBack
  <2>3. ActiveIndex(fam) - 1 \in DOMAIN fam.versions
    BY <1>1, <2>2
  <2> DEFINE previous == fam.versions[ActiveIndex(fam) - 1]
  <2>4. previous \in Versions
    BY <1>1, <2>3
  <2>5. rollback(fam) = [fam EXCEPT !.active = previous, !.failure_count = 0]
    BY <1>2 DEF rollback
  <2>6. \E i \in DOMAIN fam.versions : fam.versions[i] = previous
    BY <2>3
  <2> HIDE DEF previous
  <2> DEFINE back == [fam EXCEPT !.active = previous, !.failure_count = 0]
  <2>7. /\ back \in Families
        /\ back.active = previous
        /\ back.versions = fam.versions
        /\ back.history = fam.history
        /\ back.failure_count = 0
    BY <1>1, <2>4 DEF Families
  <2> HIDE DEF back
  <2>8. WellFormed(back)
    BY <1>1, <2>1, <2>6, <2>7 DEF WellFormed, Registered
  <2> QED
    BY <1>2, <2>5, <2>7, <2>8 DEF back
<1>3. CASE ~CanRollBack(fam)
  <2>1. rollback(fam) = fam
    BY <1>3 DEF rollback
  <2>2. ASSUME fam.versions # << >> PROVE fam.active = fam.versions[1]
    <3>1. Registered(fam, fam.active)
      BY <2>2 DEF WellFormed
    <3>2. /\ ActiveIndex(fam) \in DOMAIN fam.versions
          /\ fam.versions[ActiveIndex(fam)] = fam.active
      BY <2>2, ActiveIndexFact
    <3>3. ~(ActiveIndex(fam) > 1)
      BY <1>3, <3>1 DEF CanRollBack
    <3>4. ActiveIndex(fam) = 1
      BY <1>1, <3>2, <3>3
    <3> QED
      BY <3>2, <3>4
  <2> QED
    BY <1>3, <2>1, <2>2
<1> QED
  BY <1>2, <1>3

\* record_failure keeps a family record well formed, and at the threshold it has
\* rolled back or could not.
LEMMA FailureOK ==
  ASSUME NEW fam, FamilyOK(fam), fam.versions # << >>
  PROVE  /\ FamilyOK(record_failure(fam))
         /\ record_failure(fam).versions = fam.versions
         /\ record_failure(fam).history = fam.history
         /\ record_failure(fam).active # fam.active
              \/ record_failure(fam).failure_count = fam.failure_count + 1
<1> DEFINE counted == [fam EXCEPT !.failure_count = @ + 1]
<1>1. fam \in Families
  BY DEF FamilyOK, WellFormed
<1>2. /\ counted \in Families
      /\ counted.active = fam.active
      /\ counted.versions = fam.versions
      /\ counted.history = fam.history
      /\ counted.failure_count = fam.failure_count + 1
  BY <1>1 DEF Families
<1>3. record_failure(fam) = IF counted.failure_count >= FailureStreakThreshold
                            THEN rollback(counted) ELSE counted
  BY DEF record_failure
<1> HIDE DEF counted
<1>4. WellFormed(counted)
  BY <1>2 DEF FamilyOK, WellFormed, Registered
<1>5. CASE counted.failure_count >= FailureStreakThreshold
  <2>1. record_failure(fam) = rollback(counted)
    BY <1>3, <1>5
  <2>2. CASE CanRollBack(counted)
    <3>1. /\ ActiveIndex(counted) \in DOMAIN counted.versions
          /\ ActiveIndex(counted) > 1
          /\ counted.versions[ActiveIndex(counted)] = counted.active
      BY <1>2, <1>4, <2>2, ActiveIndexFact DEF CanRollBack
    <3>2. counted.versions \in Seq(Versions)
      BY <1>2 DEF Families
    <3>3. ActiveIndex(counted) - 1 \in DOMAIN counted.versions
      BY <3>1, <3>2
    <3>4. counted.versions[ActiveIndex(counted) - 1] # counted.active
      BY <1>4, <3>1, <3>2, <3>3 DEF WellFormed
    <3>5. rollback(counted).active = counted.versions[ActiveIndex(counted) - 1]
      BY <1>2, <2>2 DEF rollback, Families
    <3> QED
      BY <1>2, <1>4, <2>1, <2>2, <3>4, <3>5, RollbackOK, FitnessAssumption DEF FamilyOK
  <2>3. CASE ~CanRollBack(counted)
    BY <1>2, <1>4, <2>1, <2>3, RollbackOK DEF FamilyOK
  <2> QED
    BY <2>2, <2>3
<1>6. CASE ~(counted.failure_count >= FailureStreakThreshold)
  BY <1>2, <1>3, <1>4, <1>6 DEF FamilyOK
<1> QED
  BY <1>5, <1>6

-----------------------------------------------------------------------------
(* The inductive invariant of the evolution *)

\* Every version a family's history names was its first or has the runs a
\* promotion asks for; a family without versions has no history.
Evidence(fam) ==
  /\ fam.versions = << >> => fam.history = {}
  /\ \A v \in fam.history : \/ v = fam.versions[1]
                            \/ metrics[v].runs >= MinRunsForPromotion

Files(fam) == \A i \in DOMAIN fam.versions : fam.versions[i] \in files

\* A failure being scored will be counted, because its score is low.
LowScore ==
  (FailureThreshold >= 40 /\ scoring # NoGraph /\ scoring = family.active /\ streak > 0)
    => metrics[scoring].last <= FailureThreshold

\* The index file is behind the memory by registrations only, also where a crash has torn it.
IndexFollows ==
  /\ family.failure_count = indexFile.failure_count
  /\ indexFile.active # NoVersion => family.active = indexFile.active
  /\ \A v \in Versions : Registered(indexFile, v) => Registered(family, v)

IInv == /\ TypeOK
        /\ FamilyOK(family) /\ FamilyOK(indexFile)
        /\ IndexFollows
        /\ Files(family) /\ Files(indexFile)
        /\ Evidence(family) /\ Evidence(indexFile)
        /\ LowScore
        /\ FailuresCounted

\* What a failed run scores is at most 40, and every score is at most 100.
LEMMA ScoreFact ==
  ASSUME NEW m \in GraphMetrics
  PROVE  /\ score(m) \in Scores
         /\ ~m.success => score(m) <= 40
<1>1. m.latency \in 0..20 /\ m.cost \in 0..20 /\ m.success \in BOOLEAN
  BY DEF GraphMetrics, Penalty
<1>2. CASE m.success
  BY <1>1, <1>2 DEF score, Scores
<1>3. CASE ~m.success
  BY <1>1, <1>3 DEF score, Scores
<1> QED
  BY <1>1, <1>2, <1>3

\* The invariant holds at the first start.
LEMMA InitIInv == EvoInit => IInv
<1> SUFFICES ASSUME EvoInit PROVE IInv
  OBVIOUS
<1>1. WellFormed(InitialFamily) /\ InitialFamily.failure_count = 0
  BY InitialFamilyAssumption
<1>2. FamilyOK(InitialFamily)
  BY <1>1, FitnessAssumption DEF FamilyOK
<1>3. Evidence(InitialFamily)
  BY InitialFamilyAssumption DEF Evidence
<1>4. TypeOK
  <2>1. torn \in BOOLEAN
    BY DEF EvoInit
  <2> QED
    BY <1>1, <2>1, EvolutionAssumption DEF EvoInit, TypeOK, Summaries, NoRuns, Scores
<1>5. IndexFollows
  BY DEF EvoInit, IndexFollows
<1>6. Files(InitialFamily)
  <2>1. InitialFamily.versions \in Seq(Versions)
    BY <1>1 DEF WellFormed, Families
  <2> QED
    BY <2>1 DEF Files, EvoInit, Registered
<1>7. LowScore /\ FailuresCounted
  BY <1>1 DEF EvoInit, LowScore, FailuresCounted, Uncounted
<1> QED
  BY <1>2, <1>3, <1>4, <1>5, <1>6, <1>7 DEF IInv, EvoInit

\* Registering a version keeps the invariant.
LEMMA RegisterIInv ==
  ASSUME IInv, NEW v \in Versions, NEW e \in BOOLEAN, Register(v, e)
  PROVE  IInv'
<1> DEFINE new == register_version(family, v, e)
<1>1. /\ family' = new /\ files' = files \union {v}
      /\ UNCHANGED <<indexFile, metrics, scoring, scored, crashes, torn>>
      /\ scoring = NoGraph
      /\ streak' = IF family.active = NoVersion THEN 0 ELSE streak
  BY DEF Register
<1>2. FamilyOK(new)
  BY RegisterOK DEF IInv
<1>3. WellFormed(family) /\ family.versions \in Seq(Versions)
  BY DEF IInv, TypeOK, WellFormed, Families
<1>4. /\ new.active = IF family.active = NoVersion THEN v ELSE family.active
      /\ new.versions = IF Registered(family, v) THEN family.versions
                                                 ELSE Append(family.versions, v)
      /\ new.history = IF family.active = NoVersion THEN family.history \union {v}
                                                    ELSE family.history
      /\ new.failure_count = family.failure_count
  BY DEF register_version
<1> HIDE DEF new
<1>5. /\ \A i \in DOMAIN family.versions :
           i \in DOMAIN new.versions /\ new.versions[i] = family.versions[i]
      /\ \A i \in DOMAIN new.versions : i \in DOMAIN family.versions \/ new.versions[i] = v
      /\ new.versions # << >>
  <2>1. CASE Registered(family, v)
    BY <1>4, <2>1 DEF Registered
  <2>2. CASE ~Registered(family, v)
    <3>1. new.versions = Append(family.versions, v)
      BY <1>4, <2>2
    <3>2. /\ Len(new.versions) = Len(family.versions) + 1
          /\ new.versions[Len(family.versions) + 1] = v
          /\ \A i \in 1..Len(family.versions) : new.versions[i] = family.versions[i]
          /\ DOMAIN new.versions = 1..(Len(family.versions) + 1)
          /\ DOMAIN family.versions = 1..Len(family.versions)
          /\ Len(family.versions) \in Nat
      BY <1>3, <3>1
    <3> QED
      BY <3>2
  <2> QED
    BY <2>1, <2>2
<1>6. family.active = NoVersion <=> family.versions = << >>
  BY <1>3, RegistryAssumption DEF WellFormed, Registered
<1>7. TypeOK'
  BY <1>1, <1>2 DEF IInv, TypeOK, FamilyOK
<1>8. IndexFollows'
  <2>1. \A w \in Versions : Registered(family, w) => Registered(new, w)
    BY <1>5 DEF Registered
  <2>2. indexFile.active # NoVersion => new.active = indexFile.active
    BY <1>4 DEF IInv, IndexFollows
  <2> QED
    BY <1>1, <1>4, <2>1, <2>2 DEF IInv, IndexFollows
<1>9. Files(family)' /\ Files(indexFile)'
  BY <1>1, <1>5 DEF IInv, Files
<1>10. Evidence(family)' /\ Evidence(indexFile)'
  <2>1. Evidence(indexFile)'
    BY <1>1 DEF IInv, Evidence
  <2>2. CASE family.active = NoVersion
    <3>1. family.versions = << >> /\ family.history = {}
      BY <1>6, <2>2 DEF IInv, Evidence
    <3>2. new.versions = Append(<< >>, v)
      BY <1>4, <3>1 DEF Registered
    <3>3. new.versions[1] = v /\ new.history = {v}
      BY <1>4, <2>2, <3>1, <3>2
    <3> QED
      BY <1>1, <1>5, <2>1, <3>3 DEF Evidence
  <2>3. CASE family.active # NoVersion
    <3>1. family.versions # << >> /\ new.history = family.history
      BY <1>4, <1>6, <2>3
    <3>2. 1 \in DOMAIN family.versions
      BY <1>3, <3>1
    <3>3. new.versions[1] = family.versions[1]
      BY <1>5, <3>2
    <3> QED
      BY <1>1, <1>5, <2>1, <3>1, <3>3 DEF IInv, Evidence
  <2> QED
    BY <2>2, <2>3
<1>11. LowScore' /\ FailuresCounted'
  <2>1. streak' <= streak /\ streak' \in Nat
    BY <1>1 DEF IInv, TypeOK
  <2>2. family.failure_count \in Nat /\ crashes \in Nat
    BY <1>3 DEF IInv, TypeOK, WellFormed, Families
  <2> QED
    BY <1>1, <1>4, <2>1, <2>2 DEF IInv, TypeOK, LowScore, FailuresCounted, Uncounted
<1> QED
  BY <1>1, <1>2, <1>7, <1>8, <1>9, <1>10, <1>11 DEF IInv

\* Saving the index keeps the invariant.
LEMMA SaveIInv ==
  ASSUME IInv, SaveIndex
  PROVE  IInv'
<1>1. /\ indexFile' = family
      /\ UNCHANGED <<family, files, metrics, scoring, streak, scored, crashes, torn>>
  BY DEF SaveIndex
<1>2. TypeOK' /\ IndexFollows'
  BY <1>1 DEF IInv, TypeOK, IndexFollows
<1>3. FailuresCounted' /\ LowScore'
  BY <1>1 DEF IInv, FailuresCounted, Uncounted, LowScore
<1> QED
  BY <1>1, <1>2, <1>3 DEF IInv, Files, Evidence

\* Writing the metrics of a run keeps the invariant.
LEMMA RecordIInv ==
  ASSUME IInv, NEW g \in GraphIds, NEW m \in Samples, RecordMetrics(g, m)
  PROVE  IInv'
<1>1. /\ UNCHANGED <<family, indexFile, files, crashes, torn>>
      /\ scoring = NoGraph /\ scoring' = g
      /\ metrics' = [metrics EXCEPT ![g] = record(@, score(m))]
      /\ scored < MaxRuns /\ scored' = scored + 1
      /\ streak' = IF g # family.active THEN streak
                   ELSE IF m.success THEN 0 ELSE streak + 1
  BY DEF RecordMetrics
<1>2. m \in GraphMetrics /\ score(m) \in Scores /\ (~m.success => score(m) <= 40)
  BY ScoreFact, EvolutionAssumption
<1>3. metrics \in [GraphIds -> Summaries] /\ streak \in Nat
  BY DEF IInv, TypeOK
<1>4. /\ record(metrics[g], score(m)) \in Summaries
      /\ record(metrics[g], score(m)).runs = metrics[g].runs + 1
      /\ record(metrics[g], score(m)).last = score(m)
  BY <1>2, <1>3 DEF Summaries, record, Scores
<1>5. /\ metrics' \in [GraphIds -> Summaries]
      /\ metrics'[g].last = score(m)
      /\ \A h \in GraphIds : metrics'[h].runs >= metrics[h].runs
  <2>1. \A h \in GraphIds : metrics[h].runs \in Nat
    BY <1>3 DEF Summaries
  <2> QED
    BY <1>1, <1>3, <1>4, <2>1
<1>6. TypeOK'
  BY <1>1, <1>3, <1>5, EvolutionAssumption DEF IInv, TypeOK
<1>7. ASSUME NEW fam, WellFormed(fam), Evidence(fam), fam' = fam
      PROVE  Evidence(fam)'
  <2>1. fam.history \subseteq GraphIds
    BY <1>7, EvolutionAssumption DEF WellFormed, Families
  <2>2. \A h \in GraphIds : metrics[h].runs \in Nat /\ metrics'[h].runs \in Nat
    BY <1>3, <1>5 DEF Summaries
  <2> QED
    BY <1>5, <1>7, <2>1, <2>2, FitnessAssumption DEF Evidence
<1>8. Evidence(family)' /\ Evidence(indexFile)'
  BY <1>1, <1>7 DEF IInv, TypeOK
<1>9. LowScore'
  <2> SUFFICES ASSUME FailureThreshold >= 40, g = family.active, streak' > 0
               PROVE  metrics'[g].last <= FailureThreshold
    BY <1>1 DEF LowScore
  <2>1. ~m.success
    BY <1>1
  <2>2. score(m) <= 40 /\ score(m) \in Nat
    BY <1>2, <2>1 DEF Scores
  <2> QED
    BY <1>5, <2>2, FitnessAssumption
<1>10. FailuresCounted'
  <2>1. family.failure_count \in Nat /\ crashes \in Nat
    BY DEF IInv, TypeOK, WellFormed, Families
  <2>2. Uncounted = 0
    BY <1>1 DEF Uncounted
  <2>3. Uncounted' = IF g = family.active THEN 1 ELSE 0
    BY <1>1, EvolutionAssumption DEF Uncounted
  <2>4. FailureThreshold >= 40 => streak <= family.failure_count + crashes
    BY <2>1, <2>2 DEF IInv, FailuresCounted
  <2>5. streak' <= streak + Uncounted'
    BY <1>1, <1>3, <2>3
  <2>6. streak' \in Nat
    BY <1>1, <1>3
  <2> QED
    BY <1>1, <1>3, <2>1, <2>3, <2>4, <2>5, <2>6 DEF FailuresCounted
<1>11. IndexFollows' /\ Files(family)' /\ Files(indexFile)'
  BY <1>1 DEF IInv, IndexFollows, Files
<1> QED
  BY <1>1, <1>6, <1>8, <1>9, <1>10, <1>11 DEF IInv, FamilyOK, WellFormed

\* A promotion, a counted failure or neither keeps the invariant.
LEMMA AdjustIInv ==
  ASSUME IInv, AdjustRegistry
  PROVE  IInv'
<1>1. /\ scoring \in GraphIds /\ scoring' = NoGraph
      /\ UNCHANGED <<files, metrics, scored, crashes, torn>>
  BY DEF AdjustRegistry, IInv, TypeOK
<1>2. /\ family.failure_count \in Nat /\ indexFile.failure_count = family.failure_count
      /\ crashes \in Nat /\ streak \in Nat
      /\ family.versions \in Seq(Versions)
      /\ metrics[scoring] \in Summaries
  BY <1>1 DEF IInv, TypeOK, IndexFollows, WellFormed, Families
<1>3. Uncounted' = 0 /\ LowScore'
  BY <1>1 DEF Uncounted, LowScore
<1>4. CASE /\ Promotes(scoring)
           /\ family' = promote_version(family, scoring)
           /\ indexFile' = family'
           /\ streak' = 0
  <2>1. scoring \in Versions /\ Registered(family, scoring)
    BY <1>2, <1>4 DEF Promotes, Registered
  <2>2. FamilyOK(family')
    BY <1>4, <2>1, PromoteOK DEF IInv
  <2>3. /\ family'.versions = family.versions
        /\ family'.history = family.history \union {scoring}
        /\ family'.failure_count = 0
    <3> family \in Families
      BY DEF IInv, TypeOK, WellFormed
    <3> QED
      BY <1>4 DEF promote_version, Families
  <2>4. TypeOK'
    BY <1>1, <1>4, <2>2, EvolutionAssumption DEF IInv, TypeOK, FamilyOK
  <2>5. metrics[scoring].runs >= MinRunsForPromotion
    BY <1>4 DEF Promotes, should_promote
  <2>6. family.versions # << >>
    BY <2>1 DEF Registered
  <2>7. Evidence(family)'
    BY <1>1, <2>3, <2>5, <2>6 DEF IInv, Evidence
  <2>8. IndexFollows'
    BY <1>4 DEF IndexFollows
  <2>9. FailuresCounted'
    BY <1>1, <1>2, <1>3, <1>4, <2>3 DEF FailuresCounted
  <2> QED
    BY <1>1, <1>3, <1>4, <2>2, <2>3, <2>4, <2>7, <2>8, <2>9 DEF IInv, FamilyOK, Files, Evidence
<1>5. CASE /\ CountsFailure(scoring)
           /\ family' = record_failure(family)
           /\ indexFile' = family'
           /\ streak' = IF family'.active # family.active THEN 0 ELSE streak
  <2>1. family.versions # << >>
    BY <1>5 DEF CountsFailure, Registered
  <2>2. /\ FamilyOK(family')
        /\ family'.versions = family.versions
        /\ family'.history = family.history
        /\ family'.active # family.active
             \/ family'.failure_count = family.failure_count + 1
    BY <1>5, <2>1, FailureOK DEF IInv
  <2>3. TypeOK'
    BY <1>1, <1>2, <1>5, <2>2, EvolutionAssumption DEF IInv, TypeOK, FamilyOK
  <2>4. Evidence(family)'
    BY <1>1, <2>2 DEF IInv, Evidence
  <2>5. IndexFollows'
    BY <1>5 DEF IndexFollows
  <2>6. family'.failure_count \in Nat
    BY <2>2 DEF FamilyOK, WellFormed, Families
  <2>7. Uncounted \in {0, 1}
    BY DEF Uncounted
  <2>8. FailuresCounted'
    BY <1>1, <1>2, <1>3, <1>5, <2>2, <2>6, <2>7 DEF IInv, FailuresCounted
  <2> QED
    BY <1>1, <1>3, <1>5, <2>2, <2>3, <2>4, <2>5, <2>8 DEF IInv, FamilyOK, Files, Evidence
<1>6. CASE /\ ~Promotes(scoring) /\ ~CountsFailure(scoring)
           /\ UNCHANGED <<family, indexFile, streak>>
  <2>1. TypeOK'
    BY <1>1, <1>6, EvolutionAssumption DEF IInv, TypeOK, WellFormed, Registered
  <2>2. IndexFollows'
    BY <1>6 DEF IInv, IndexFollows, Registered
  <2>3. FailuresCounted'
    <3>1. CASE scoring # family.active
      BY <1>1, <1>2, <1>3, <1>6, <3>1 DEF IInv, FailuresCounted, Uncounted
    <3>2. CASE scoring = family.active /\ streak = 0
      BY <1>1, <1>2, <1>3, <1>6, <3>2 DEF FailuresCounted
    <3>3. CASE scoring = family.active /\ streak > 0
      <4> SUFFICES ASSUME FailureThreshold >= 40 PROVE FALSE
        BY DEF FailuresCounted
      <4>1. metrics[scoring].last <= FailureThreshold
        BY <1>1, <3>3, EvolutionAssumption DEF IInv, LowScore
      <4>2. ~Registered(family, scoring)
        BY <1>6, <4>1 DEF CountsFailure, should_record_failure
      <4>3. family.versions = << >> /\ family.active = NoVersion
        BY <3>3, <4>2 DEF IInv, FamilyOK, WellFormed
      <4> QED
        BY <1>1, <4>3, <3>3, EvolutionAssumption
    <3> QED
      BY <1>2, <3>1, <3>2, <3>3
  <2> QED
    BY <1>1, <1>3, <1>6, <2>1, <2>2, <2>3 DEF IInv, FamilyOK, WellFormed, Registered, Files, Evidence
<1> QED
  BY <1>4, <1>5, <1>6 DEF AdjustRegistry

\* A crash keeps the invariant.
LEMMA CrashIInv ==
  ASSUME IInv, CrashEvolution
  PROVE  IInv'
<1>1. /\ crashes < MaxCrashes /\ crashes' = crashes + 1
      /\ family' = indexFile /\ scoring' = NoGraph
      /\ streak' = IF indexFile.active # family.active THEN 0 ELSE streak
      /\ UNCHANGED <<indexFile, files, metrics, scored>> /\ torn' \in BOOLEAN
  BY DEF CrashEvolution, Writes
<1>2. /\ crashes \in Nat /\ streak \in Nat
      /\ family.failure_count \in Nat
      /\ indexFile.failure_count = family.failure_count
  BY DEF IInv, TypeOK, IndexFollows, WellFormed, Families
<1>3. TypeOK'
  BY <1>1, EvolutionAssumption DEF IInv, TypeOK, WellFormed, Registered
<1>4. IndexFollows'
  BY <1>1 DEF IndexFollows, Registered
<1>5. LowScore'
  BY <1>1 DEF LowScore
<1>6. FailuresCounted'
  <2>1. Uncounted \in {0, 1} /\ Uncounted' = 0
    BY <1>1 DEF Uncounted
  <2> QED
    BY <1>1, <1>2, <2>1 DEF IInv, FailuresCounted
<1> QED
  BY <1>1, <1>3, <1>4, <1>5, <1>6 DEF IInv, FamilyOK, WellFormed, Registered, Files, Evidence

\* The invariant is inductive.
LEMMA NextIInv == IInv /\ [EvoNext]_evoVars => IInv'
<1> SUFFICES ASSUME IInv, [EvoNext]_evoVars PROVE IInv'
  OBVIOUS
<1>1. ASSUME NEW v \in Versions, NEW e \in BOOLEAN, Register(v, e) PROVE IInv'
  BY <1>1, RegisterIInv
<1>2. CASE SaveIndex
  BY <1>2, SaveIInv
<1>3. ASSUME NEW g \in GraphIds, NEW m \in Samples, RecordMetrics(g, m) PROVE IInv'
  BY <1>3, RecordIInv
<1>4. CASE AdjustRegistry
  BY <1>4, AdjustIInv
<1>5. CASE CrashEvolution
  BY <1>5, CrashIInv
<1>6. CASE UNCHANGED evoVars
  BY <1>6 DEF evoVars, IInv, TypeOK, FamilyOK, WellFormed, Registered, IndexFollows,
              Files, Evidence, LowScore, FailuresCounted, Uncounted
<1> QED
  BY <1>1, <1>2, <1>3, <1>4, <1>5, <1>6 DEF EvoNext

\* The invariant holds in every behaviour.
LEMMA InvariantHolds == EvoSpec => []IInv
<1> QED
  BY InitIInv, NextIInv, PTL DEF EvoSpec

-----------------------------------------------------------------------------
(* The theorems about the evolution *)

\* Every variable keeps its type, and both copies of the family stay well formed.
THEOREM TypeCorrect == EvoSpec => []TypeOK
<1>1. IInv => TypeOK
  BY DEF IInv
<1> QED
  BY <1>1, InvariantHolds, PTL

\* A family whose failure count is at the threshold has its first version active,
\* in memory and in graph_index.json, whatever crashes.
THEOREM RollbackHappens == EvoSpec => []RolledBackAtThreshold
<1>1. IInv => RolledBackAtThreshold
  BY DEF IInv, FamilyOK, RolledBackAtThreshold
<1> QED
  BY <1>1, InvariantHolds, PTL

\* A crash that leaves files a kernel can start from undoes no promotion, no rollback and no
\* counted failure.
THEOREM CrashKeepsDecisions == EvoSpec => []DecisionsDurable
<1>1. IInv => DecisionsDurable
  BY DEF IInv, IndexFollows, DecisionsDurable
<1> QED
  BY <1>1, InvariantHolds, PTL

\* Every registered version, so the active one, has its graph file.
THEOREM ActiveHasFile == EvoSpec => []ActiveLoadable
<1>1. IInv => ActiveLoadable
  BY DEF IInv, Files, ActiveLoadable
<1> QED
  BY <1>1, InvariantHolds, PTL

\* Only the first version gets into the history without the runs a promotion asks for.
THEOREM PromotionNeedsEvidence == EvoSpec => []PromotedWithEvidence
<1>1. IInv => PromotedWithEvidence
  BY DEF IInv, Evidence, PromotedWithEvidence
<1> QED
  BY <1>1, InvariantHolds, PTL

\* With a failure threshold of at least 0.4 every failure in a row of the active
\* version is counted, but for one per crash.
THEOREM NoFailureLost == EvoSpec => []FailuresCounted
<1>1. IInv => FailuresCounted
  BY DEF IInv
<1> QED
  BY <1>1, InvariantHolds, PTL

-----------------------------------------------------------------------------
(* How the active version moves *)

\* A counted failure moves the active version only when it reaches the threshold, and then
\* to its direct predecessor.
LEMMA FailureMoves ==
  ASSUME NEW fam, FamilyOK(fam), fam.versions # << >>,
         record_failure(fam).active # fam.active
  PROVE  /\ fam.failure_count + 1 >= FailureStreakThreshold
         /\ ActiveIndex(fam) > 1
         /\ record_failure(fam).active = fam.versions[ActiveIndex(fam) - 1]
<1> DEFINE counted == [fam EXCEPT !.failure_count = @ + 1]
           new     == record_failure(fam)
<1>1. fam \in Families
  BY DEF FamilyOK, WellFormed
<1>2. /\ counted \in Families /\ counted.active = fam.active
      /\ counted.versions = fam.versions /\ counted.failure_count = fam.failure_count + 1
  BY <1>1 DEF Families
<1>3. new = IF counted.failure_count >= FailureStreakThreshold THEN rollback(counted) ELSE counted
  BY DEF record_failure
<1> HIDE DEF counted, new
<1>4. /\ new = rollback(counted) /\ CanRollBack(counted)
      /\ counted.failure_count >= FailureStreakThreshold
  BY <1>2, <1>3 DEF rollback, new
<1>5. new.active = counted.versions[ActiveIndex(counted) - 1]
  BY <1>2, <1>4 DEF rollback, Families
<1>6. ActiveIndex(counted) = ActiveIndex(fam) /\ ActiveIndex(fam) > 1
  BY <1>2, <1>4 DEF ActiveIndex, CanRollBack
<1> QED BY <1>2, <1>4, <1>5, <1>6 DEF new

\* The active version moves by the promotion of an experimental version with the runs and the
\* mean score for it, or to its direct predecessor when the failure of a version of the family
\* brings the count to the threshold.
THEOREM MovesJustified == EvoSpec => ActiveMovesJustified
<1>1. ASSUME IInv, [EvoNext]_evoVars PROVE [MoveJustified(family, family')]_evoVars
  <2>1. ASSUME NEW v \in Versions, NEW e \in BOOLEAN, Register(v, e)
        PROVE  MoveJustified(family, family')
    <3>1. family'.active = IF family.active = NoVersion THEN v ELSE family.active
      BY <2>1 DEF Register, register_version
    <3> QED BY <3>1 DEF MoveJustified
  <2>2. CASE SaveIndex
    BY <2>2 DEF SaveIndex, MoveJustified
  <2>3. ASSUME NEW g \in GraphIds, NEW m \in Samples, RecordMetrics(g, m)
        PROVE  MoveJustified(family, family')
    BY <2>3 DEF RecordMetrics, MoveJustified
  <2>4. CASE AdjustRegistry
    <3>1. CASE Promotes(scoring) /\ family' = promote_version(family, scoring)
      <4>1. family'.active = scoring
        BY <1>1, <3>1 DEF promote_version, IInv, TypeOK, WellFormed, Families
      <4>2. Earned(family, scoring)
        BY <3>1 DEF Promotes, should_promote, Earned
      <4> QED BY <4>1, <4>2 DEF MoveJustified
    <3>2. CASE CountsFailure(scoring) /\ family' = record_failure(family)
      <4>1. /\ FamilyOK(family) /\ family.versions # << >>
            /\ Registered(family, scoring) /\ metrics[scoring].last <= FailureThreshold
        BY <1>1, <3>2 DEF IInv, CountsFailure, Registered, should_record_failure
      <4>2. family'.active # family.active => Forfeited(family, family'.active)
        BY <3>2, <4>1, FailureMoves DEF Forfeited
      <4> QED BY <4>2 DEF MoveJustified
    <3>3. CASE UNCHANGED family
      BY <3>3 DEF MoveJustified
    <3> QED BY <2>4, <3>1, <3>2, <3>3 DEF AdjustRegistry
  <2>5. CASE CrashEvolution
    BY <1>1, <2>5 DEF CrashEvolution, IInv, IndexFollows, MoveJustified
  <2> QED BY <1>1, <2>1, <2>2, <2>3, <2>4, <2>5 DEF EvoNext
<1> QED
  BY <1>1, InvariantHolds, PTL DEF EvoSpec, ActiveMovesJustified

-----------------------------------------------------------------------------
(* The kernel implements the evolution of its graph versions *)

\* A kernel step is a step of GraphEvolution or leaves its variables alone.
LEMMA StepRefines ==
  ASSUME KernelTypeOK, [Next]_vars
  PROVE  [EvoNext]_evoVars
<1>1. ASSUME NEW t, NEW g, NEW body, Launch(t, g, body) PROVE UNCHANGED evoVars
  BY <1>1 DEF Launch
<1>2. CASE CallStep
  <2>1. CASE NodeOk \/ NodeFailed \/ NodeAccepted
    BY <2>1 DEF NodeOk, NodeFailed, NodeAccepted, Execute
  <2>2. CASE SettlePending \/ Reinforce \/ RecordGraphEvent
    BY <2>2 DEF SettlePending, Reinforce, RecordGraphEvent
  <2>3. ASSUME NEW m \in Samples, SettleDone(m) PROVE EvoNext
    <3>1. call # Idle /\ call.run.graph \in GraphIds
      BY <2>3 DEF SettleDone, KernelTypeOK, Calls, GraphRunState, Idle
    <3> QED
      BY <2>3, <3>1 DEF SettleDone, EvoNext
  <2>4. CASE Adjust
    BY <2>4 DEF Adjust, EvoNext
  <2> QED
    BY <1>2, <2>1, <2>2, <2>3, <2>4 DEF CallStep
<1>3. ASSUME NEW t, NEW n, HandleJobFinished(t, n) PROVE UNCHANGED evoVars
  BY <1>3 DEF HandleJobFinished
<1>4. CASE Crash
  BY <1>4 DEF Crash, EvoNext
<1>5. CASE Maintain
  BY <1>5 DEF Maintain, EvoNext
<1>6. CASE UNCHANGED vars
  BY <1>6 DEF vars
<1> QED
  BY <1>1, <1>2, <1>3, <1>4, <1>5, <1>6 DEF Next, LaunchNamed, LaunchPlanned

-----------------------------------------------------------------------------
(* Type correctness of the kernel *)

TInv == IInv /\ KernelTypeOK

\* A call in progress is at a node of its graph.
LEMMA CallFact ==
  ASSUME KernelTypeOK, call # Idle
  PROVE  /\ call \in Calls
         /\ GraphBody(call.body)
         /\ call.at \in DOMAIN call.body
         /\ call.body[call.at] \in Nodes
         /\ call.body[call.at].id \in NodeIds
         /\ Len(call.body) \in Nat
         /\ DOMAIN call.body = 1..Len(call.body)
<1>1. call \in Calls /\ GraphBody(call.body) /\ call.at \in DOMAIN call.body
  BY DEF KernelTypeOK
<1>2. call.body \in Seq(Nodes)
  BY <1>1 DEF GraphBody
<1>3. call.body[call.at] \in Nodes
  BY <1>1, <1>2
<1>4. call.body[call.at].id \in NodeIds
  BY <1>3 DEF Nodes
<1> QED
  BY <1>1, <1>2, <1>3, <1>4

\* A graph that is found has nodes and an id of a graph.
LEMMA LookupFact ==
  ASSUME TInv, NEW id, Known(id)
  PROVE  GraphFor(id) \in GraphIds /\ GraphBody(BodyFor(id))
<1>1. CASE InMemory(id)
  BY <1>1 DEF TInv, KernelTypeOK, InMemory, GraphFor, BodyFor
<1>2. CASE ~InMemory(id)
  <2>1. resolve(id) \in Versions
    BY <1>2 DEF Known, TInv, IInv, TypeOK
  <2> QED
    BY <1>2, <2>1, KernelAssumption DEF GraphFor, BodyFor
<1> QED
  BY <1>1, <1>2

\* A call that starts at a node of a graph is a call.
LEMMA RunningFact ==
  ASSUME NEW t \in Traces, NEW run \in GraphRunState, NEW body, GraphBody(body),
         NEW at \in DOMAIN body
  PROVE  /\ Running(t, run, body, at) \in Calls
         /\ Running(t, run, body, at).body = body
         /\ Running(t, run, body, at).at = at
  BY DEF Running, Calls, GraphBody

\* Types are right at the first start.
LEMMA InitTInv == Init => TInv
<1> SUFFICES ASSUME Init PROVE TInv
  OBVIOUS
<1>1. IInv
  BY InitIInv DEF Init
<1>2. \A g \in GraphIds : graphs[g] = NoBody \/ GraphBody(graphs[g])
  BY KernelAssumption DEF Init, LoadedGraphs
<1>3. execs \in [Runs -> [NodeIds -> 0..ExecCap]]
  BY KernelAssumption DEF Init
<1> QED
  BY <1>1, <1>2, <1>3, KernelAssumption DEF TInv, Init, KernelTypeOK, IInv, LoadedGraphs

\* Starting a run keeps the types.
LEMMA LaunchTInv ==
  ASSUME TInv, NEW t \in Traces, NEW g \in GraphIds, NEW body, GraphBody(body),
         Launch(t, g, body)
  PROVE  KernelTypeOK'
<1>1. launches \in 0..MaxLaunches /\ launches < MaxLaunches /\ MaxLaunches \in Nat
  BY KernelAssumption DEF TInv, KernelTypeOK, Launch, MayLaunch
<1>2. FreshRun(g) \in GraphRunState
  BY <1>1 DEF FreshRun, GraphRunState, Runs, Statuses
<1>3. 1 \in DOMAIN body
  BY DEF GraphBody
<1>4. /\ call' \in Calls /\ GraphBody(call'.body) /\ call'.at \in DOMAIN call'.body
  BY <1>2, <1>3, RunningFact DEF Launch
<1>5. TypeOK'
  BY DEF Launch, evoVars, TInv, KernelTypeOK, TypeOK, WellFormed, Registered
<1>6. /\ DOMAIN graphs' = GraphIds
      /\ \A h \in GraphIds : graphs'[h] = NoBody \/ GraphBody(graphs'[h])
  BY DEF Launch, TInv, KernelTypeOK
<1> QED
  BY <1>1, <1>4, <1>5, <1>6 DEF Launch, TInv, KernelTypeOK

\* Executing a node keeps the types.
LEMMA ExecuteTInv ==
  ASSUME TInv, call # Idle,
         NEW status \in Statuses, NEW pc \in {"exec", "settle"},
         NEW at \in DOMAIN call.body, NEW pending \in SUBSET NodeIds,
         NEW completed \in BOOLEAN,
         Execute(status, pc, at, pending, completed),
         jobs' \subseteq Traces \X NodeIds
  PROVE  KernelTypeOK'
<1> DEFINE node == call.body[call.at].id
<1>1. /\ call \in Calls /\ GraphBody(call.body) /\ node \in NodeIds
  BY CallFact DEF TInv
<1>2. /\ call' = [call EXCEPT !.pc                    = pc,
                              !.at                    = at,
                              !.run.node_status[node] = status,
                              !.run.pending           = @ \union pending,
                              !.run.completed         = completed]
      /\ execs' = [execs EXCEPT ![call.run.rid] = Count(@, node)]
      /\ UNCHANGED <<evoVars, graphs, memRuns, diskRuns, launches>>
  BY DEF Execute
<1> HIDE DEF node
<1>3. call.run \in GraphRunState /\ call.run.rid \in Runs
  BY <1>1 DEF Calls, GraphRunState
<1>4. call'.body = call.body /\ call'.at = at
  BY <1>1, <1>2 DEF Calls
<1>5. call' \in Calls
  <2>1. at \in Nat
    BY <1>1 DEF GraphBody
  <2> DEFINE run == [call.run EXCEPT !.node_status[node] = status,
                                     !.pending           = @ \union pending,
                                     !.completed         = completed]
  <2>2. call' = [call EXCEPT !.pc = pc, !.at = at, !.run = run]
    BY <1>1, <1>2 DEF Calls
  <2>3. run \in GraphRunState
    BY <1>1, <1>3 DEF GraphRunState
  <2> HIDE DEF run
  <2> QED
    BY <1>1, <2>1, <2>2, <2>3 DEF Calls
<1>6. execs' \in [Runs -> [NodeIds -> 0..ExecCap]]
  BY <1>1, <1>2, <1>3, KernelAssumption DEF Count, TInv, KernelTypeOK
<1>7. TypeOK'
  BY <1>2 DEF evoVars, TInv, KernelTypeOK, TypeOK, WellFormed, Registered
<1> QED
  BY <1>1, <1>2, <1>4, <1>5, <1>6, <1>7 DEF TInv, KernelTypeOK

\* Settling a run keeps the stored runs and the call typed.
LEMMA SettleTInv ==
  ASSUME TInv, TypeOK', SettlePending \/ (\E m \in Samples : SettleDone(m))
  PROVE  KernelTypeOK'
<1>1. call # Idle
  BY DEF SettlePending, SettleDone, Idle
<1>2. /\ call \in Calls /\ GraphBody(call.body) /\ call.at \in DOMAIN call.body
      /\ call.run \in GraphRunState
  BY <1>1, CallFact DEF TInv, Calls
<1>3. PICK run \in GraphRunState \union {NoRun}, pc \in {"log", "adjust"} :
        /\ memRuns' = [memRuns EXCEPT ![call.trace] = run]
        /\ call' = [call EXCEPT !.pc = pc]
        /\ UNCHANGED <<graphs, diskRuns, jobs, launches, execs>>
  BY <1>2 DEF SettlePending, SettleDone
<1>4. /\ call' \in {[c EXCEPT !.pc = pc] : c \in Calls}
      /\ call'.body = call.body /\ call'.at = call.at
  BY <1>2, <1>3 DEF Calls
<1>5. call' \in Calls
  BY <1>2, <1>3 DEF Calls
<1> QED
  BY <1>2, <1>3, <1>4, <1>5 DEF TInv, KernelTypeOK

\* The steps after settling only move the call on.
LEMMA AdjustTInv ==
  ASSUME TInv, TypeOK', Adjust \/ Reinforce
  PROVE  KernelTypeOK'
<1>1. call # Idle
  BY DEF Adjust, Reinforce, Idle
<1>2. /\ call \in Calls /\ GraphBody(call.body) /\ call.at \in DOMAIN call.body
  BY <1>1, CallFact DEF TInv
<1>3. PICK pc \in {"reinforce", "log"} : call' = [call EXCEPT !.pc = pc]
  BY DEF Adjust, Reinforce
<1>4. call' \in Calls /\ call'.body = call.body /\ call'.at = call.at
  BY <1>2, <1>3 DEF Calls
<1>5. UNCHANGED <<graphs, memRuns, diskRuns, jobs, launches, execs>>
  BY DEF Adjust, Reinforce
<1> QED
  BY <1>2, <1>4, <1>5 DEF TInv, KernelTypeOK

\* A job result resumes a stored run at a node of its graph.
LEMMA DeliverTInv ==
  ASSUME TInv, TypeOK', NEW t \in Traces, NEW n \in NodeIds, HandleJobFinished(t, n)
  PROVE  KernelTypeOK'
<1> DEFINE run == memRuns[t]
           body == BodyFor(run.graph)
           resumed == [run EXCEPT !.node_status[n] = "ok", !.pending = @ \ {n}]
<1>1. /\ run # NoRun /\ Known(run.graph) /\ HasNode(body, n)
      /\ call' = Running(t, resumed, body, ResumeIndex(body, n))
      /\ UNCHANGED <<graphs, memRuns, diskRuns, jobs, launches, execs>>
  BY DEF HandleJobFinished
<1>2. run \in GraphRunState
  BY <1>1 DEF TInv, KernelTypeOK
<1>3. resumed \in GraphRunState
  BY <1>2 DEF GraphRunState, Statuses
<1>4. GraphBody(body)
  BY <1>1, LookupFact
<1> HIDE DEF run, body, resumed
<1>5. ResumeIndex(body, n) \in DOMAIN body
  <2>1. NodeIndex(body, n) \in DOMAIN body
    BY <1>1 DEF HasNode, NodeIndex
  <2>2. Len(body) \in Nat /\ DOMAIN body = 1..Len(body) /\ Len(body) # 0
    BY <1>4 DEF GraphBody
  <2> QED
    BY <2>1, <2>2 DEF ResumeIndex
<1>6. /\ call' \in Calls /\ call'.body = body /\ call'.at = ResumeIndex(body, n)
  BY <1>1, <1>3, <1>4, <1>5, RunningFact
<1> QED
  BY <1>1, <1>4, <1>5, <1>6 DEF TInv, KernelTypeOK

\* Type correctness is inductive, given that of GraphEvolution.
LEMMA NextTInv ==
  ASSUME TInv, [Next]_vars
  PROVE  TInv'
<1>1. IInv' /\ TypeOK'
  BY StepRefines, NextIInv DEF TInv, IInv
<1> SUFFICES KernelTypeOK'
  BY <1>1 DEF TInv
<1>2. ASSUME NEW t \in Traces, NEW id \in GraphIds \union {FamilyName},
             LaunchNamed(t, id)
      PROVE  KernelTypeOK'
  BY <1>2, LookupFact, LaunchTInv DEF LaunchNamed
<1>3. ASSUME NEW t \in Traces, NEW id \in PlannedIds, NEW body \in PlannedBodies,
             LaunchPlanned(t, id, body)
      PROVE  KernelTypeOK'
  BY <1>3, LaunchTInv, KernelAssumption DEF LaunchPlanned
<1>4. CASE NodeOk
  <2>1. call # Idle
    BY <1>4 DEF NodeOk, Idle
  <2>2. call.at \in DOMAIN call.body /\ DOMAIN call.body = 1..Len(call.body) /\ Len(call.body) \in Nat
    BY <2>1, CallFact DEF TInv
  <2>3. call.run.completed \in BOOLEAN
    BY <2>1, CallFact DEF TInv, Calls, GraphRunState
  <2>4. jobs' \subseteq Traces \X NodeIds
    BY <1>4 DEF NodeOk, TInv, KernelTypeOK
  <2>5. CASE call.at < Len(call.body)
    <3>1. Execute("ok", "exec", call.at + 1, {}, call.run.completed)
      BY <1>4, <2>5 DEF NodeOk
    <3>2. call.at + 1 \in DOMAIN call.body
      BY <2>2, <2>5
    <3> QED
      BY <2>1, <2>3, <2>4, <3>1, <3>2, ExecuteTInv DEF Statuses
  <2>6. CASE ~(call.at < Len(call.body))
    <3>1. Execute("ok", "settle", call.at, {}, TRUE)
      BY <1>4, <2>6 DEF NodeOk
    <3> QED
      BY <2>1, <2>2, <2>4, <3>1, ExecuteTInv DEF Statuses
  <2> QED
    BY <2>5, <2>6
<1>5. CASE NodeFailed
  <2>1. call # Idle
    BY <1>5 DEF NodeFailed, Idle
  <2>2. call.at \in DOMAIN call.body
    BY <2>1, CallFact DEF TInv
  <2>3. jobs' \subseteq Traces \X NodeIds
    BY <1>5 DEF NodeFailed, TInv, KernelTypeOK
  <2> QED
    BY <1>5, <2>1, <2>2, <2>3, ExecuteTInv DEF NodeFailed, Statuses
<1>6. CASE NodeAccepted
  <2>1. call # Idle
    BY <1>6 DEF NodeAccepted, Idle
  <2>2. call.at \in DOMAIN call.body /\ call.trace \in Traces /\ call.body[call.at].id \in NodeIds
    BY <2>1, CallFact DEF TInv, Calls
  <2>3. jobs' \subseteq Traces \X NodeIds
    BY <1>6, <2>2 DEF NodeAccepted, TInv, KernelTypeOK
  <2> QED
    BY <1>6, <2>1, <2>2, <2>3, ExecuteTInv DEF NodeAccepted, Statuses
<1>7. CASE SettlePending \/ (\E m \in Samples : SettleDone(m))
  BY <1>1, <1>7, SettleTInv
<1>8. CASE Adjust \/ Reinforce
  BY <1>1, <1>8, AdjustTInv
<1>9. CASE RecordGraphEvent
  BY <1>1, <1>9 DEF RecordGraphEvent, TInv, KernelTypeOK
<1>10. ASSUME NEW t \in Traces, NEW n \in NodeIds, HandleJobFinished(t, n)
       PROVE  KernelTypeOK'
  BY <1>1, <1>10, DeliverTInv
<1>11. CASE Crash
  <2>1. \A g \in GraphIds : LoadedGraphs[g] = NoBody \/ GraphBody(LoadedGraphs[g])
    BY KernelAssumption DEF LoadedGraphs
  <2>2. DOMAIN LoadedGraphs = GraphIds
    BY DEF LoadedGraphs
  <2> QED
    BY <1>1, <1>11, <2>1, <2>2 DEF Crash, TInv, KernelTypeOK
<1>12. CASE Maintain
  BY <1>1, <1>12 DEF Maintain, kernelVars, TInv, KernelTypeOK
<1>13. CASE UNCHANGED vars
  BY <1>1, <1>13 DEF vars, kernelVars, TInv, KernelTypeOK
<1> QED
  BY <1>1, <1>2, <1>3, <1>4, <1>5, <1>6, <1>7, <1>8, <1>9, <1>10, <1>11, <1>12, <1>13
  DEF Next, CallStep

\* The invariant holds in every behaviour of the kernel.
LEMMA TInvHolds == Spec => []TInv
  BY InitTInv, NextTInv, PTL DEF Spec

-----------------------------------------------------------------------------
(* Suspended runs *)

\* A run that waits under trace t, and for which job.
Waits(t, run) == \E n \in NodeIds : /\ run.pending = {n}
                                    /\ run.node_status[n] = "pending"
                                    /\ <<t, n>> \in jobs

\* A call executes nodes only while its run waits for nothing, and has accepted
\* at most one job when it stops.
CallWaits ==
  call # Idle => IF call.pc = "exec" THEN call.run.pending = {}
                 ELSE call.run.pending = {} \/ Waits(call.trace, call.run)

\* Between calls memory and file agree, also where a crash has torn a file.
RunsFollow == call = Idle => memRuns = diskRuns

\* Nothing runs after a crash that tore a file.
TornStops == torn => call = Idle

\* Why AnswersDurable and StoredRunsWait are inductive together.
WInv == TInv /\ StoredRunsWait /\ CallWaits /\ RunsFollow /\ TornStops

\* No run waits and no call is in progress at the first start.
LEMMA InitWInv == Init => WInv
  BY InitTInv DEF Init, WInv, StoredRunsWait, CallWaits, RunsFollow, TornStops, Waits

\* Steps that leave the stored runs alone keep every one of them waiting.
LEMMA StoredFact ==
  ASSUME WInv, UNCHANGED <<memRuns, diskRuns>>, jobs \subseteq jobs'
  PROVE  StoredRunsWait'
BY DEF WInv, StoredRunsWait

\* A kernel that a crash has left with a torn file takes no step.
LEMMA TornStep ==
  ASSUME TornStops, [Next]_vars
  PROVE  TornStops'
<1>1. CASE Crash
  BY <1>1 DEF Crash, TornStops
<1>2. CASE UNCHANGED <<call, torn>>
  BY <1>2 DEF TornStops
<1>3. CASE ~torn /\ UNCHANGED torn
  BY <1>3 DEF TornStops
<1>4. CASE call # Idle /\ UNCHANGED torn
  BY <1>4 DEF TornStops
<1>5. CASE CallStep
  <2>1. call # Idle
    <3>1. call.pc \in {"exec", "settle", "adjust", "reinforce", "log"}
      BY <1>5 DEF CallStep, NodeOk, NodeFailed, NodeAccepted, SettlePending, SettleDone, Adjust,
                  Reinforce, RecordGraphEvent
    <3> QED BY <3>1 DEF Idle
  <2>2. UNCHANGED torn
    BY <1>5 DEF CallStep, NodeOk, NodeFailed, NodeAccepted, Execute, SettlePending, SettleDone,
                RecordMetrics, Adjust, AdjustRegistry, Reinforce, RecordGraphEvent, evoVars
  <2> QED BY <2>1, <2>2, <1>4
<1> QED
  BY <1>1, <1>2, <1>3, <1>5
  DEF Next, LaunchNamed, LaunchPlanned, Launch, MayLaunch, HandleJobFinished, Maintain,
      Register, SaveIndex, kernelVars, vars, evoVars

\* A node that is done or has failed leaves the run waiting for nothing; an
\* accepted node leaves it waiting for that node's job.
LEMMA ExecuteWInv ==
  ASSUME WInv, TInv', TornStops', NodeOk \/ NodeFailed \/ NodeAccepted
  PROVE  WInv'
<1> DEFINE node == call.body[call.at].id
<1>1. call # Idle /\ call.pc = "exec" /\ call.run.pending = {}
  <2>1. call.pc = "exec"
    BY DEF NodeOk, NodeFailed, NodeAccepted
  <2>2. call # Idle
    BY <2>1 DEF Idle
  <2> QED
    BY <2>1, <2>2 DEF WInv, CallWaits
<1>2. /\ call \in Calls /\ call.run \in GraphRunState /\ node \in NodeIds
      /\ call.trace \in Traces
  BY <1>1, CallFact DEF WInv, TInv, Calls
<1>3. UNCHANGED <<memRuns, diskRuns>> /\ jobs \subseteq jobs'
  BY DEF NodeOk, NodeFailed, NodeAccepted, Execute
<1>4. ASSUME NEW status, NEW pc \in {"exec", "settle"}, NEW at, NEW completed,
             NEW pending, Execute(status, pc, at, pending, completed)
      PROVE  /\ call'.pc = pc /\ call'.trace = call.trace
             /\ call'.run.pending = pending
             /\ call'.run.node_status[node] = status
  <2> HIDE DEF node
  <2>1. call' = [call EXCEPT !.pc                    = pc,
                             !.at                    = at,
                             !.run.node_status[node] = status,
                             !.run.pending           = @ \union pending,
                             !.run.completed         = completed]
    BY <1>4 DEF Execute, node
  <2> DEFINE run == [call.run EXCEPT !.node_status[node] = status,
                                     !.pending           = @ \union pending,
                                     !.completed         = completed]
  <2>2. call' = [call EXCEPT !.pc = pc, !.at = at, !.run = run]
    BY <1>2, <2>1 DEF Calls
  <2>3. run.pending = pending /\ run.node_status[node] = status
    BY <1>1, <1>2 DEF GraphRunState
  <2> HIDE DEF run
  <2> QED
    BY <1>2, <2>2, <2>3 DEF Calls
<1>5. CallWaits'
  <2>1. CASE NodeOk \/ NodeFailed
    <3>1. call'.run.pending = {}
      BY <2>1, <1>4 DEF NodeOk, NodeFailed
    <3> QED
      BY <3>1 DEF CallWaits
  <2>2. CASE NodeAccepted
    <3>1. /\ Execute("pending", "settle", call.at, {node}, FALSE)
          /\ jobs' = jobs \union {<<call.trace, node>>}
      BY <2>2 DEF NodeAccepted
    <3>2. /\ call'.pc = "settle" /\ call'.trace = call.trace
          /\ call'.run.pending = {node}
          /\ call'.run.node_status[node] = "pending"
      BY <3>1, <1>4
    <3> HIDE DEF node
    <3> QED
      BY <1>2, <3>1, <3>2 DEF CallWaits, Waits
  <2> QED
    BY <2>1, <2>2
<1>6. RunsFollow'
  <2>1. \E pc \in {"exec", "settle"} : \E status, at, completed, pending :
          Execute(status, pc, at, pending, completed)
    <3>1. CASE NodeOk
      BY <3>1 DEF NodeOk
    <3>2. CASE NodeFailed
      BY <3>2 DEF NodeFailed
    <3>3. CASE NodeAccepted
      BY <3>3 DEF NodeAccepted
    <3> QED
      BY <3>1, <3>2, <3>3
  <2>2. call'.pc \in {"exec", "settle"}
    BY <2>1, <1>4
  <2> QED
    BY <2>2 DEF RunsFollow, Idle
<1> QED
  BY <1>3, <1>5, <1>6, StoredFact DEF WInv

\* Settling stores the run if it waits, and forgets it if it does not.
LEMMA SettleWInv ==
  ASSUME WInv, TInv', TornStops', SettlePending \/ (\E m \in Samples : SettleDone(m))
  PROVE  WInv'
<1>1. call # Idle /\ call.pc = "settle"
  BY DEF SettlePending, SettleDone, Idle
<1>2. call \in Calls /\ call.trace \in Traces /\ memRuns \in [Traces -> GraphRunState \union {NoRun}]
  BY <1>1, CallFact DEF WInv, TInv, KernelTypeOK, Calls
<1>3. jobs' = jobs /\ diskRuns' = diskRuns
  BY DEF SettlePending, SettleDone
<1>4. CASE SettlePending
  <2>1. Waits(call.trace, call.run)
    BY <1>1, <1>4 DEF SettlePending, WInv, CallWaits
  <2>2. /\ memRuns' = [memRuns EXCEPT ![call.trace] = call.run]
        /\ call' = [call EXCEPT !.pc = "log"]
    BY <1>4 DEF SettlePending
  <2>3. StoredRunsWait'
    BY <1>2, <1>3, <2>1, <2>2 DEF WInv, StoredRunsWait, Waits
  <2>4. call'.trace = call.trace /\ call'.run = call.run /\ call'.pc = "log"
    BY <1>2, <2>2 DEF Calls
  <2> QED
    BY <1>3, <2>1, <2>3, <2>4 DEF WInv, CallWaits, Waits, RunsFollow, Idle
<1>5. CASE \E m \in Samples : SettleDone(m)
  <2>1. /\ memRuns' = [memRuns EXCEPT ![call.trace] = NoRun]
        /\ call' = [call EXCEPT !.pc = "adjust"]
        /\ call.run.pending = {}
    BY <1>5 DEF SettleDone
  <2>2. StoredRunsWait'
    BY <1>2, <1>3, <2>1 DEF WInv, StoredRunsWait
  <2>3. call'.run = call.run /\ call'.pc = "adjust"
    BY <1>2, <2>1 DEF Calls
  <2> QED
    BY <2>1, <2>2, <2>3 DEF WInv, CallWaits, RunsFollow, Idle
<1> QED
  BY <1>4, <1>5

\* The invariant is inductive.
LEMMA NextWInv ==
  ASSUME WInv, [Next]_vars
  PROVE  WInv'
<1>1. TInv' /\ TornStops'
  BY NextTInv, TornStep DEF WInv
<1>2. ASSUME NEW t, NEW g, NEW body, Launch(t, g, body) PROVE WInv'
  <2>1. call' = Running(t, FreshRun(g), body, 1) /\ UNCHANGED <<memRuns, diskRuns, jobs>>
    BY <1>2 DEF Launch
  <2>2. call'.pc = "exec" /\ call'.run.pending = {} /\ call' # Idle
    BY <2>1 DEF Running, FreshRun, Idle
  <2> QED
    BY <1>1, <2>1, <2>2, StoredFact DEF WInv, CallWaits, RunsFollow
<1>3. CASE NodeOk \/ NodeFailed \/ NodeAccepted
  BY <1>1, <1>3, ExecuteWInv
<1>4. CASE SettlePending \/ (\E m \in Samples : SettleDone(m))
  BY <1>1, <1>4, SettleWInv
<1>5. CASE Adjust \/ Reinforce
  <2>1. /\ call # Idle /\ call.pc # "exec"
        /\ UNCHANGED <<memRuns, diskRuns, jobs>>
    BY <1>5 DEF Adjust, Reinforce, Idle
  <2>2. call \in Calls
    BY <2>1, CallFact DEF WInv, TInv
  <2>3. PICK pc \in {"reinforce", "log"} : call' = [call EXCEPT !.pc = pc]
    BY <1>5 DEF Adjust, Reinforce
  <2>4. call'.pc = pc /\ call'.trace = call.trace /\ call'.run = call.run
    BY <2>2, <2>3 DEF Calls
  <2>5. call.run.pending = {} \/ Waits(call.trace, call.run)
    BY <2>1 DEF WInv, CallWaits
  <2>6. call'.run.pending = {} \/ Waits(call.trace, call.run)'
    BY <2>1, <2>4, <2>5 DEF Waits
  <2>7. CallWaits'
    BY <2>3, <2>4, <2>6 DEF CallWaits
  <2>8. RunsFollow'
    BY <2>3, <2>4 DEF RunsFollow, Idle
  <2> QED
    BY <1>1, <2>1, <2>7, <2>8, StoredFact DEF WInv
<1>6. CASE RecordGraphEvent
  BY <1>1, <1>6 DEF RecordGraphEvent, WInv, StoredRunsWait, CallWaits, RunsFollow
<1>7. ASSUME NEW t \in Traces, NEW n \in NodeIds, HandleJobFinished(t, n) PROVE WInv'
  <2> DEFINE resumed == [memRuns[t] EXCEPT !.node_status[n] = "ok", !.pending = @ \ {n}]
  <2>1. /\ memRuns[t] # NoRun /\ n \in memRuns[t].pending
        /\ UNCHANGED <<memRuns, diskRuns, jobs>>
        /\ \E body : call' = Running(t, resumed, body, ResumeIndex(body, n))
    BY <1>7 DEF HandleJobFinished
  <2>2. memRuns[t] \in GraphRunState
    BY <2>1 DEF WInv, TInv, KernelTypeOK
  <2>3. PICK k \in NodeIds : memRuns[t].pending = {k}
    <3>1. memRuns[t] \in {memRuns[t], diskRuns[t]} \ {NoRun}
      BY <2>1
    <3> QED
      BY <3>1 DEF WInv, StoredRunsWait
  <2>4. resumed.pending = {}
    BY <2>1, <2>2, <2>3 DEF GraphRunState
  <2> HIDE DEF resumed
  <2>5. call'.pc = "exec" /\ call'.run.pending = {} /\ call' # Idle
    BY <2>1, <2>4 DEF Running, Idle
  <2> QED
    BY <1>1, <2>1, <2>5, StoredFact DEF WInv, CallWaits, RunsFollow
<1>8. CASE Crash
  BY <1>1, <1>8 DEF Crash, WInv, StoredRunsWait, CallWaits, RunsFollow
<1>9. CASE Maintain
  BY <1>1, <1>9, StoredFact DEF Maintain, kernelVars, WInv, CallWaits, Waits, RunsFollow
<1>10. CASE UNCHANGED vars
  BY <1>1, <1>10, StoredFact DEF vars, kernelVars, WInv, CallWaits, Waits, RunsFollow
<1> QED
  BY <1>2, <1>3, <1>4, <1>5, <1>6, <1>7, <1>8, <1>9, <1>10
  DEF Next, CallStep, LaunchNamed, LaunchPlanned

\* The invariant holds in every behaviour of the kernel.
LEMMA WInvHolds == Spec => []WInv
  BY InitWInv, NextWInv, PTL DEF Spec

-----------------------------------------------------------------------------
(* The theorems about the kernel's runs *)

\* The kernel implements the evolution of graph versions: whatever a theorem of
\* GraphEvolutionProofs says of EvoSpec holds of the kernel.
THEOREM KernelImplementsEvolution == Spec => EvoSpec
<1>1. Init => EvoInit
  BY DEF Init
<1>2. TInv /\ [Next]_vars => [EvoNext]_evoVars
  BY StepRefines DEF TInv
<1> QED
  BY <1>1, <1>2, TInvHolds, PTL DEF Spec, EvoSpec

\* Every variable the kernel's code reads keeps its type, and a call in progress
\* is at a node of its graph.
THEOREM KernelTypeCorrect == Spec => []KernelTypeOK
<1>1. TInv => KernelTypeOK
  BY DEF TInv
<1> QED
  BY <1>1, TInvHolds, PTL

\* A stored run, in memory or in state.json, waits for one submitted job.
THEOREM SuspendedRunsWait == Spec => []StoredRunsWait
<1>1. WInv => StoredRunsWait
  BY DEF WInv
<1> QED
  BY <1>1, WInvHolds, PTL

\* Between calls a restart finds the runs the kernel has in memory, where it can start at all.
THEOREM RestartFindsRuns == Spec => []AnswersDurable
<1>1. WInv => AnswersDurable
  BY DEF WInv, RunsFollow, AnswersDurable
<1> QED
  BY <1>1, WInvHolds, PTL

-----------------------------------------------------------------------------
(* What the steps of a call do to the runs *)

\* The histories of the runs and what survives a call.
runVars == <<memRuns, diskRuns, launches, used, execs, finished, scoredBy, learned, crashes, torn>>

\* The call goes on with the same run.
GoesOn(pc) ==
  /\ call # Idle /\ call' # Idle /\ call'.pc = pc
  /\ call'.trace = call.trace /\ call'.run = call.run /\ call'.body = call.body

Begins(t, g, body) ==
  /\ call = Idle /\ call' # Idle /\ call'.pc = "exec" /\ call'.trace = t
  /\ call'.run = FreshRun(g) /\ call'.body = body /\ call'.at = 1
  /\ launches < MaxLaunches /\ launches' = launches + 1
  /\ used' = used \union {t} /\ (ReuseTraces \/ t \notin used)
  /\ UNCHANGED <<memRuns, diskRuns, execs, finished, scoredBy, learned, crashes, torn>>

Executes(node, status) ==
  /\ call # Idle /\ call.pc = "exec" /\ node = call.body[call.at].id
  /\ call' # Idle /\ call'.trace = call.trace /\ call'.body = call.body
  /\ call'.run.rid = call.run.rid /\ call'.run.graph = call.run.graph
  /\ call'.run.node_status = [call.run.node_status EXCEPT ![node] = status]
  /\ \/ /\ call'.pc = "exec" /\ call'.at = call.at + 1 /\ status = "ok"
        /\ call'.run.pending = call.run.pending
     \/ /\ call'.pc = "settle" /\ status # "pending" /\ call'.run.pending = call.run.pending
     \/ /\ call'.pc = "settle" /\ status = "pending" /\ call.body[call.at].async
        /\ call'.run.pending = call.run.pending \union {node}
  /\ execs' = [execs EXCEPT ![call.run.rid] = Count(@, node)]
  /\ UNCHANGED <<memRuns, diskRuns, launches, used, finished, scoredBy, learned, crashes, torn>>

Suspends ==
  /\ GoesOn("log") /\ call.pc = "settle" /\ call.run.pending # {}
  /\ memRuns' = [memRuns EXCEPT ![call.trace] = call.run]
  /\ UNCHANGED <<diskRuns, launches, used, execs, finished, scoredBy, learned, crashes, torn>>

Settles ==
  /\ GoesOn("adjust") /\ call.pc = "settle" /\ call.run.pending = {}
  /\ memRuns' = [memRuns EXCEPT ![call.trace] = NoRun]
  /\ scoredBy' = [scoredBy EXCEPT ![call.run.rid] = @ + 1]
  /\ UNCHANGED <<diskRuns, launches, used, execs, finished, learned, crashes, torn>>

Adjusts == GoesOn("reinforce") /\ call.pc = "adjust" /\ UNCHANGED runVars

Learns ==
  /\ GoesOn("log") /\ call.pc = "reinforce"
  /\ \/ learned' = [learned EXCEPT ![call.run.rid] = @ + 1]
     \/ learned' = learned
  /\ UNCHANGED <<memRuns, diskRuns, launches, used, execs, finished, scoredBy, crashes, torn>>

Logs ==
  /\ call # Idle /\ call.pc = "log" /\ call' = Idle
  /\ diskRuns' = memRuns
  /\ finished' = IF call.run.pending = {}
                 THEN [finished EXCEPT ![call.run.rid] = @ + 1] ELSE finished
  /\ UNCHANGED <<memRuns, launches, used, execs, scoredBy, learned, crashes, torn>>

Resumes(t, n) ==
  /\ call = Idle /\ memRuns[t] # NoRun /\ n \in memRuns[t].pending
  /\ Known(memRuns[t].graph) /\ HasNode(BodyFor(memRuns[t].graph), n)
  /\ call' # Idle /\ call'.pc = "exec" /\ call'.trace = t
  /\ call'.body = BodyFor(memRuns[t].graph) /\ call'.at = ResumeIndex(call'.body, n)
  /\ call'.run = [memRuns[t] EXCEPT !.node_status[n] = "ok", !.pending = @ \ {n}]
  /\ UNCHANGED runVars

Restarts ==
  /\ call' = Idle /\ memRuns' = diskRuns /\ crashes' = crashes + 1
  /\ ~torn /\ torn' \in BOOLEAN
  /\ UNCHANGED <<diskRuns, launches, used, execs, finished, scoredBy, learned>>

\* Every step is one of these or leaves the call and the runs alone.
RunStep ==
  \/ \E t \in Traces, g \in GraphIds : \E body : GraphBody(body) /\ Begins(t, g, body)
  \/ \E node \in NodeIds, status \in {"ok", "failed", "pending"} : Executes(node, status)
  \/ Suspends \/ Settles \/ Adjusts \/ Learns \/ Logs
  \/ \E t \in Traces, n \in NodeIds : Resumes(t, n)
  \/ Restarts
  \/ UNCHANGED <<call, runVars>>

LEMMA ExecutesFact ==
  ASSUME TInv, NodeOk \/ NodeFailed \/ NodeAccepted
  PROVE  \E node \in NodeIds, status \in {"ok", "failed", "pending"} : Executes(node, status)
<1> DEFINE node == call.body[call.at].id
<1>1. call # Idle /\ call.pc = "exec"
  <2>1. call.pc = "exec"
    BY DEF NodeOk, NodeFailed, NodeAccepted
  <2> QED BY <2>1 DEF Idle
<1>2. /\ call \in Calls /\ call.run \in GraphRunState /\ node \in NodeIds
  BY <1>1, CallFact DEF TInv, Calls
<1>3. ASSUME NEW status \in {"ok", "failed", "pending"}, NEW pc \in {"exec", "settle"}, NEW at,
             NEW completed, NEW pending, Execute(status, pc, at, pending, completed),
             \/ pc = "exec" /\ at = call.at + 1 /\ status = "ok" /\ pending = {}
             \/ pc = "settle" /\ status # "pending" /\ pending = {}
             \/ pc = "settle" /\ status = "pending" /\ pending = {node} /\ call.body[call.at].async
      PROVE  Executes(node, status)
  <2> HIDE DEF node
  <2>1. /\ call' = [call EXCEPT !.pc                    = pc,
                                !.at                    = at,
                                !.run.node_status[node] = status,
                                !.run.pending           = @ \union pending,
                                !.run.completed         = completed]
        /\ execs' = [execs EXCEPT ![call.run.rid] = Count(@, node)]
        /\ UNCHANGED <<memRuns, diskRuns, launches, used, finished, scoredBy, learned, crashes, torn>>
    BY <1>3 DEF Execute, node, evoVars
  <2> DEFINE run == [call.run EXCEPT !.node_status[node] = status,
                                     !.pending           = @ \union pending,
                                     !.completed         = completed]
  <2>2. call' = [call EXCEPT !.pc = pc, !.at = at, !.run = run]
    BY <1>2, <2>1 DEF Calls
  <2>3. /\ run.rid = call.run.rid /\ run.graph = call.run.graph
        /\ run.node_status = [call.run.node_status EXCEPT ![node] = status]
        /\ run.pending = call.run.pending \union pending
    BY <1>2 DEF GraphRunState
  <2> HIDE DEF run
  <2>4. /\ call'.pc = pc /\ call'.at = at /\ call'.run = run /\ call'.trace = call.trace
        /\ call'.body = call.body
    BY <1>2, <2>2 DEF Calls
  <2>5. call' # Idle
    BY <1>2, <2>2 DEF Calls, Idle
  <2> QED BY <1>1, <1>3, <2>1, <2>3, <2>4, <2>5 DEF Executes, node
<1>4. CASE NodeOk
  <2>1. \/ Execute("ok", "exec", call.at + 1, {}, call.run.completed)
        \/ Execute("ok", "settle", call.at, {}, TRUE)
    BY <1>4 DEF NodeOk
  <2> QED BY <1>2, <1>3, <2>1
<1>5. CASE NodeFailed
  <2>1. Execute("failed", "settle", call.at, {}, FALSE)
    BY <1>5 DEF NodeFailed
  <2> QED BY <1>2, <1>3, <2>1
<1>6. CASE NodeAccepted
  <2>1. Execute("pending", "settle", call.at, {node}, FALSE) /\ call.body[call.at].async
    BY <1>6 DEF NodeAccepted
  <2> QED BY <1>2, <1>3, <2>1
<1> QED BY <1>4, <1>5, <1>6

LEMMA RunSteps ==
  ASSUME TInv, [Next]_vars
  PROVE  RunStep
<1>1. ASSUME NEW t \in Traces, NEW g \in GraphIds, NEW body, GraphBody(body), Launch(t, g, body)
      PROVE  RunStep
  <2>1. Begins(t, g, body)
    BY <1>1 DEF Launch, MayLaunch, Begins, Running, Idle, evoVars
  <2> QED BY <1>1, <2>1 DEF RunStep
<1>2. CASE NodeOk \/ NodeFailed \/ NodeAccepted
  BY <1>2, ExecutesFact DEF RunStep
<1>3. ASSUME NEW pc \in {"log", "adjust", "reinforce"}, call.pc \in {"settle", "adjust", "reinforce"},
             call' = [call EXCEPT !.pc = pc]
      PROVE  GoesOn(pc)
  <2>1. call # Idle
    BY <1>3 DEF Idle
  <2>2. call \in Calls
    BY <2>1, CallFact DEF TInv
  <2> QED BY <1>3, <2>1, <2>2 DEF Calls, GoesOn, Idle
<1>4. CASE SettlePending
  BY <1>3, <1>4 DEF SettlePending, Suspends, RunStep, evoVars
<1>5. ASSUME NEW m \in Samples, SettleDone(m) PROVE RunStep
  BY <1>3, <1>5 DEF SettleDone, RecordMetrics, Settles, RunStep
<1>6. CASE Adjust
  BY <1>3, <1>6 DEF Adjust, AdjustRegistry, Adjusts, RunStep, runVars
<1>7. CASE Reinforce
  BY <1>3, <1>7 DEF Reinforce, Learns, RunStep, evoVars
<1>8. CASE RecordGraphEvent
  BY <1>8 DEF RecordGraphEvent, Logs, RunStep, evoVars, Idle
<1>9. ASSUME NEW t \in Traces, NEW n \in NodeIds, HandleJobFinished(t, n) PROVE RunStep
  <2>1. Resumes(t, n)
    BY <1>9 DEF HandleJobFinished, Resumes, Running, Idle, runVars, evoVars
  <2> QED BY <2>1 DEF RunStep
<1>10. CASE Crash
  BY <1>10 DEF Crash, CrashEvolution, Writes, Restarts, RunStep
<1>11. CASE Maintain
  BY <1>11 DEF Maintain, Register, SaveIndex, kernelVars, RunStep, runVars
<1>12. CASE UNCHANGED vars
  BY <1>12 DEF vars, kernelVars, evoVars, RunStep, runVars
<1>13. ASSUME NEW t \in Traces, NEW id \in GraphIds \union {FamilyName}, LaunchNamed(t, id)
       PROVE  RunStep
  BY <1>1, <1>13, LookupFact DEF LaunchNamed
<1>14. ASSUME NEW t \in Traces, NEW id \in PlannedIds, NEW body \in PlannedBodies,
              LaunchPlanned(t, id, body)
       PROVE  RunStep
  BY <1>1, <1>14, KernelAssumption DEF LaunchPlanned
<1> QED
  BY <1>2, <1>4, <1>5, <1>6, <1>7, <1>8, <1>9, <1>10, <1>11, <1>12, <1>13, <1>14 DEF Next, CallStep

\* What the types say of the runs and of the call.
LEMMA RunTypes ==
  ASSUME TInv
  PROVE  /\ launches \in Nat /\ crashes \in Nat /\ MaxLaunches \in Nat
         /\ memRuns \in [Traces -> GraphRunState \union {NoRun}]
         /\ diskRuns \in [Traces -> GraphRunState \union {NoRun}]
         /\ execs \in [Runs -> [NodeIds -> 0..ExecCap]]
         /\ call # Idle => /\ call.run \in GraphRunState /\ call.trace \in Traces
                           /\ call.run.rid \in Runs
                           /\ call.pc \in {"exec", "settle", "adjust", "reinforce", "log"}
         /\ \A r \in Runs : r \in Nat
         /\ \A run \in GraphRunState : run.rid \in Runs /\ run.graph \in GraphIds
<1>1. launches \in Nat /\ MaxLaunches \in Nat /\ crashes \in Nat
  BY KernelAssumption, EvolutionAssumption DEF TInv, KernelTypeOK, TypeOK
<1>2. call # Idle => /\ call.run \in GraphRunState /\ call.trace \in Traces
                     /\ call.pc \in {"exec", "settle", "adjust", "reinforce", "log"}
  BY CallFact DEF TInv, Calls
<1>3. \A run \in GraphRunState : run.rid \in Runs /\ run.graph \in GraphIds
  BY DEF GraphRunState
<1>4. \A r \in Runs : r \in Nat
  BY <1>1 DEF Runs
<1> QED BY <1>1, <1>2, <1>3, <1>4 DEF TInv, KernelTypeOK

-----------------------------------------------------------------------------
(* Whose run a stored run is *)

\* The histories that no code reads count.
HistoryTypes ==
  finished \in [Runs -> Nat] /\ scoredBy \in [Runs -> Nat] /\ learned \in [Runs -> Nat]

\* A run is known by its launch; one that was not launched has left no mark.
RunsBounded ==
  /\ \A t \in Traces : /\ memRuns[t] # NoRun => memRuns[t].rid <= launches
                       /\ diskRuns[t] # NoRun => diskRuns[t].rid <= launches
  /\ call # Idle => call.run.rid <= launches
  /\ \A r \in Runs : r > launches =>
       /\ finished[r] = 0 /\ scoredBy[r] = 0 /\ learned[r] = 0
       /\ \A n \in NodeIds : execs[r][n] = 0

OneTrace(stored) ==
  \A t, u \in Traces :
    stored[t] # NoRun /\ stored[u] # NoRun /\ stored[t].rid = stored[u].rid => t = u

\* A run is stored under one trace, the one its call has.
RunsApart ==
  /\ OneTrace(memRuns) /\ OneTrace(diskRuns)
  /\ call # Idle => \A t \in Traces :
       t # call.trace /\ memRuns[t] # NoRun => memRuns[t].rid # call.run.rid

\* Once the run is settled, graph_runs holds it if it waits and nothing if it does not.
CallPlaces ==
  call # Idle =>
    /\ call.pc \in {"adjust", "reinforce"} => call.run.pending = {} /\ memRuns[call.trace] = NoRun
    /\ call.pc = "log" => /\ call.run.pending = {} => memRuns[call.trace] = NoRun
                          /\ call.run.pending # {} => memRuns[call.trace] = call.run

\* A run that can go on is not finished.
Ended ==
  /\ \A r \in Runs : finished[r] <= 1
  /\ \A t \in Traces : /\ memRuns[t] # NoRun => finished[memRuns[t].rid] = 0
                       /\ diskRuns[t] # NoRun => finished[diskRuns[t].rid] = 0
  /\ call # Idle => finished[call.run.rid] = 0

LEMMA HistoryTypesStep ==
  ASSUME TInv, HistoryTypes, RunStep
  PROVE  HistoryTypes'
<1>1. CASE UNCHANGED <<finished, scoredBy, learned>>
  BY <1>1 DEF HistoryTypes
<1>2. CASE Settles
  BY <1>2, RunTypes DEF Settles, HistoryTypes, GoesOn
<1>3. CASE Learns
  BY <1>3, RunTypes DEF Learns, HistoryTypes, GoesOn
<1>4. CASE Logs
  BY <1>4, RunTypes DEF Logs, HistoryTypes
<1> QED
  BY <1>1, <1>2, <1>3, <1>4
  DEF RunStep, Begins, Executes, Suspends, Adjusts, Resumes, Restarts, runVars

LEMMA BoundedStep ==
  ASSUME TInv, TInv', HistoryTypes, RunsBounded, RunStep
  PROVE  RunsBounded'
<1>0. launches \in Nat /\ \A r \in Runs : r \in Nat
  BY RunTypes
<1>1. CASE UNCHANGED <<call, runVars>>
  BY <1>1 DEF RunsBounded, runVars
<1>2. ASSUME NEW t \in Traces, NEW g \in GraphIds, NEW body, Begins(t, g, body)
      PROVE  RunsBounded'
  <2>1. /\ launches' = launches + 1 /\ call'.run.rid = launches + 1
        /\ UNCHANGED <<memRuns, diskRuns, execs, finished, scoredBy, learned>>
    BY <1>2 DEF Begins, FreshRun
  <2>2. ASSUME NEW u \in Traces
        PROVE  /\ memRuns[u] # NoRun => memRuns[u].rid <= launches + 1
               /\ diskRuns[u] # NoRun => diskRuns[u].rid <= launches + 1
    BY <1>0, RunTypes DEF RunsBounded
  <2>3. \A r \in Runs : r > launches + 1 => r > launches
    BY <1>0
  <2> QED BY <1>0, <2>1, <2>2, <2>3 DEF RunsBounded
<1>3. ASSUME NEW node \in NodeIds, NEW status, Executes(node, status) PROVE RunsBounded'
  <2>1. /\ UNCHANGED <<memRuns, diskRuns, launches, finished, scoredBy, learned>>
        /\ call # Idle /\ call'.run.rid = call.run.rid
        /\ execs' = [execs EXCEPT ![call.run.rid] = Count(@, node)]
    BY <1>3 DEF Executes
  <2>2. call.run.rid <= launches /\ call.run.rid \in Runs
    BY <2>1, RunTypes DEF RunsBounded
  <2>3. ASSUME NEW r \in Runs, r > launches PROVE execs'[r] = execs[r]
    BY <1>0, <2>1, <2>2, <2>3, RunTypes
  <2> QED BY <2>1, <2>2, <2>3 DEF RunsBounded
<1>4. CASE Suspends
  <2>1. /\ memRuns' = [memRuns EXCEPT ![call.trace] = call.run] /\ call.run.rid <= launches
        /\ UNCHANGED <<diskRuns, launches, execs, finished, scoredBy, learned>>
        /\ call'.run = call.run /\ call # Idle
    BY <1>4 DEF Suspends, GoesOn, RunsBounded
  <2> QED BY <2>1, RunTypes DEF RunsBounded
<1>5. CASE Settles
  <2>1. /\ memRuns' = [memRuns EXCEPT ![call.trace] = NoRun] /\ call.run.rid <= launches
        /\ scoredBy' = [scoredBy EXCEPT ![call.run.rid] = @ + 1]
        /\ UNCHANGED <<diskRuns, launches, execs, finished, learned>>
        /\ call'.run = call.run /\ call # Idle
    BY <1>5 DEF Settles, GoesOn, RunsBounded
  <2>2. \A u \in Traces : memRuns'[u] = memRuns[u] \/ memRuns'[u] = NoRun
    BY <2>1, RunTypes
  <2>3. ASSUME NEW r \in Runs, r > launches PROVE scoredBy'[r] = scoredBy[r]
    BY <1>0, <2>1, <2>3, RunTypes DEF HistoryTypes
  <2> QED BY <2>1, <2>2, <2>3 DEF RunsBounded
<1>6. CASE Adjusts
  BY <1>6 DEF Adjusts, GoesOn, runVars, RunsBounded
<1>7. CASE Learns
  <2>1. /\ call.run.rid <= launches
        /\ learned' = [learned EXCEPT ![call.run.rid] = @ + 1] \/ learned' = learned
        /\ UNCHANGED <<memRuns, diskRuns, launches, execs, finished, scoredBy>>
        /\ call'.run = call.run /\ call # Idle
    BY <1>7 DEF Learns, GoesOn, RunsBounded
  <2>2. ASSUME NEW r \in Runs, r > launches PROVE learned'[r] = learned[r]
    BY <1>0, <2>1, <2>2, RunTypes DEF HistoryTypes
  <2> QED BY <2>1, <2>2 DEF RunsBounded
<1>8. CASE Logs
  <2>1. /\ call.run.rid <= launches /\ diskRuns' = memRuns /\ call' = Idle /\ call # Idle
        /\ finished' = [finished EXCEPT ![call.run.rid] = @ + 1] \/ finished' = finished
        /\ UNCHANGED <<memRuns, launches, execs, scoredBy, learned>>
    BY <1>8 DEF Logs, RunsBounded
  <2>2. ASSUME NEW r \in Runs, r > launches PROVE finished'[r] = finished[r]
    BY <1>0, <2>1, <2>2, RunTypes DEF HistoryTypes
  <2> QED BY <2>1, <2>2 DEF RunsBounded
<1>9. ASSUME NEW t \in Traces, NEW n \in NodeIds, Resumes(t, n) PROVE RunsBounded'
  <2>1. /\ memRuns[t] # NoRun /\ UNCHANGED runVars
        /\ call'.run = [memRuns[t] EXCEPT !.node_status[n] = "ok", !.pending = @ \ {n}]
    BY <1>9 DEF Resumes
  <2>2. call'.run.rid = memRuns[t].rid
    BY <2>1, RunTypes DEF GraphRunState
  <2> QED BY <2>1, <2>2 DEF RunsBounded, runVars
<1>10. CASE Restarts
  BY <1>10 DEF Restarts, RunsBounded
<1> QED
  BY <1>1, <1>2, <1>3, <1>4, <1>5, <1>6, <1>7, <1>8, <1>9, <1>10 DEF RunStep

LEMMA ApartStep ==
  ASSUME TInv, TInv', RunsBounded, RunsApart, RunStep
  PROVE  RunsApart'
<1>0. launches \in Nat /\ \A r \in Runs : r \in Nat
  BY RunTypes
<1>1. CASE UNCHANGED <<call, memRuns, diskRuns>>
  BY <1>1 DEF RunsApart, OneTrace
<1>2. ASSUME NEW t \in Traces, NEW g \in GraphIds, NEW body, Begins(t, g, body)
      PROVE  RunsApart'
  <2>1. call'.run.rid = launches + 1 /\ UNCHANGED <<memRuns, diskRuns>>
    BY <1>2 DEF Begins, FreshRun
  <2>2. ASSUME NEW u \in Traces, memRuns[u] # NoRun PROVE memRuns[u].rid # launches + 1
    BY <1>0, <2>2, RunTypes DEF RunsBounded
  <2> QED BY <2>1, <2>2 DEF RunsApart, OneTrace
<1>3. ASSUME NEW node \in NodeIds, NEW status, Executes(node, status) PROVE RunsApart'
  BY <1>3 DEF Executes, RunsApart, OneTrace
<1>4. CASE Adjusts \/ Learns
  BY <1>4 DEF Adjusts, Learns, GoesOn, runVars, RunsApart, OneTrace
<1>5. CASE Suspends
  <2>1. /\ memRuns' = [memRuns EXCEPT ![call.trace] = call.run] /\ diskRuns' = diskRuns
        /\ call'.run = call.run /\ call'.trace = call.trace /\ call # Idle
    BY <1>5 DEF Suspends, GoesOn
  <2>2. \A u \in Traces : memRuns'[u] = IF u = call.trace THEN call.run ELSE memRuns[u]
    BY <2>1, RunTypes
  <2>3. \A u \in Traces : u # call.trace /\ memRuns[u] # NoRun => memRuns[u].rid # call.run.rid
    BY <2>1 DEF RunsApart
  <2>4. OneTrace(memRuns)'
    BY <2>2, <2>3 DEF RunsApart, OneTrace
  <2> QED BY <2>1, <2>2, <2>3, <2>4 DEF RunsApart, OneTrace
<1>6. CASE Settles
  <2>1. /\ memRuns' = [memRuns EXCEPT ![call.trace] = NoRun] /\ diskRuns' = diskRuns
        /\ call'.run = call.run /\ call'.trace = call.trace /\ call # Idle
    BY <1>6 DEF Settles, GoesOn
  <2>2. \A u \in Traces : memRuns'[u] = memRuns[u] \/ memRuns'[u] = NoRun
    BY <2>1, RunTypes
  <2> QED BY <2>1, <2>2 DEF RunsApart, OneTrace
<1>7. CASE Logs \/ Restarts
  BY <1>7 DEF Logs, Restarts, RunsApart, OneTrace
<1>8. ASSUME NEW t \in Traces, NEW n \in NodeIds, Resumes(t, n) PROVE RunsApart'
  <2>1. /\ memRuns[t] # NoRun /\ UNCHANGED <<memRuns, diskRuns>> /\ call'.trace = t
        /\ call'.run = [memRuns[t] EXCEPT !.node_status[n] = "ok", !.pending = @ \ {n}]
    BY <1>8 DEF Resumes, runVars
  <2>2. call'.run.rid = memRuns[t].rid
    BY <2>1, RunTypes DEF GraphRunState
  <2> QED BY <2>1, <2>2 DEF RunsApart, OneTrace
<1> QED
  BY <1>1, <1>2, <1>3, <1>4, <1>5, <1>6, <1>7, <1>8 DEF RunStep, runVars

LEMMA PlacesStep ==
  ASSUME TInv, CallPlaces, RunStep
  PROVE  CallPlaces'
<1>1. CASE UNCHANGED <<call, memRuns>>
  BY <1>1 DEF CallPlaces
<1>2. ASSUME call' = Idle \/ call'.pc \in {"exec", "settle"} PROVE CallPlaces'
  BY <1>2 DEF CallPlaces
<1>3. CASE Adjusts \/ Learns
  BY <1>3 DEF Adjusts, Learns, GoesOn, runVars, CallPlaces
<1>4. CASE Suspends
  BY <1>4, RunTypes DEF Suspends, GoesOn, CallPlaces
<1>5. CASE Settles
  BY <1>5, RunTypes DEF Settles, GoesOn, CallPlaces
<1> QED
  BY <1>1, <1>2, <1>3, <1>4, <1>5
  DEF RunStep, runVars, Begins, Executes, Logs, Resumes, Restarts

LEMMA EndedStep ==
  ASSUME TInv, TInv', HistoryTypes, RunsBounded, RunsApart, CallPlaces, Ended, RunStep
  PROVE  Ended'
<1>0. launches \in Nat /\ \A r \in Runs : r \in Nat
  BY RunTypes
<1>1. CASE UNCHANGED <<call, memRuns, diskRuns, finished>>
  BY <1>1 DEF Ended
<1>2. ASSUME NEW t \in Traces, NEW g \in GraphIds, NEW body, Begins(t, g, body)
      PROVE  Ended'
  <2>1. /\ call'.run.rid = launches + 1 /\ UNCHANGED <<memRuns, diskRuns, finished>>
        /\ launches < MaxLaunches
    BY <1>2 DEF Begins, FreshRun
  <2>2. launches + 1 \in Runs /\ launches + 1 > launches
    BY <1>0, <2>1, RunTypes DEF Runs
  <2>3. finished[launches + 1] = 0
    BY <2>2 DEF RunsBounded
  <2> QED BY <2>1, <2>3 DEF Ended
<1>3. ASSUME NEW node \in NodeIds, NEW status, Executes(node, status) PROVE Ended'
  BY <1>3 DEF Executes, Ended
<1>4. CASE Adjusts \/ Learns
  BY <1>4 DEF Adjusts, Learns, GoesOn, runVars, Ended
<1>5. CASE Suspends
  BY <1>5, RunTypes DEF Suspends, GoesOn, Ended
<1>6. CASE Settles
  BY <1>6, RunTypes DEF Settles, GoesOn, Ended
<1>7. CASE Logs
  <2>1. /\ call # Idle /\ call.pc = "log" /\ call' = Idle /\ diskRuns' = memRuns
        /\ memRuns' = memRuns
        /\ finished' = IF call.run.pending = {}
                       THEN [finished EXCEPT ![call.run.rid] = @ + 1] ELSE finished
    BY <1>7 DEF Logs
  <2>2. CASE call.run.pending # {}
    BY <2>1, <2>2 DEF Ended
  <2>3. CASE call.run.pending = {}
    <3>1. /\ call.run.rid \in Runs /\ finished[call.run.rid] = 0
          /\ memRuns[call.trace] = NoRun
      BY <2>1, <2>3, RunTypes DEF Ended, CallPlaces
    <3>2. \A r \in Runs : finished'[r] = IF r = call.run.rid THEN 1 ELSE finished[r]
      BY <2>1, <2>3, <3>1 DEF HistoryTypes
    <3>3. ASSUME NEW t \in Traces, memRuns[t] # NoRun PROVE finished'[memRuns[t].rid] = 0
      <4>1. memRuns[t].rid # call.run.rid /\ memRuns[t].rid \in Runs
        BY <2>1, <3>1, <3>3, RunTypes DEF RunsApart
      <4> QED BY <3>2, <3>3, <4>1 DEF Ended
    <3> QED BY <2>1, <3>2, <3>3 DEF Ended
  <2> QED BY <2>2, <2>3
<1>8. ASSUME NEW t \in Traces, NEW n \in NodeIds, Resumes(t, n) PROVE Ended'
  <2>1. /\ memRuns[t] # NoRun /\ UNCHANGED <<memRuns, diskRuns, finished>>
        /\ call'.run = [memRuns[t] EXCEPT !.node_status[n] = "ok", !.pending = @ \ {n}]
    BY <1>8 DEF Resumes, runVars
  <2>2. call'.run.rid = memRuns[t].rid
    BY <2>1, RunTypes DEF GraphRunState
  <2> QED BY <2>1, <2>2 DEF Ended
<1>9. CASE Restarts
  BY <1>9 DEF Restarts, Ended
<1> QED
  BY <1>1, <1>2, <1>3, <1>4, <1>5, <1>6, <1>7, <1>8, <1>9 DEF RunStep, runVars

-----------------------------------------------------------------------------
(* What the files count of a run *)

\* The run of the call is scored, and its end is not logged yet.
InScore(r) ==
  IF /\ call # Idle /\ call.run.rid = r /\ call.run.pending = {}
     /\ call.pc \in {"adjust", "reinforce", "log"} THEN 1 ELSE 0

InLearn(r) == InFlight(r, {"adjust", "reinforce"})

\* Why FilesAgree is inductive.
Tallies ==
  \A r \in Runs : /\ finished[r] + InScore(r) <= scoredBy[r]
                  /\ scoredBy[r] <= finished[r] + crashes + InScore(r)
                  /\ learned[r] + InLearn(r) <= scoredBy[r]

LEMMA TalliesStep ==
  ASSUME TInv, TInv', HistoryTypes, HistoryTypes', CallPlaces, Tallies, RunStep
  PROVE  Tallies'
<1> SUFFICES ASSUME NEW r \in Runs
             PROVE  /\ finished'[r] + InScore(r)' <= scoredBy'[r]
                    /\ scoredBy'[r] <= finished'[r] + crashes' + InScore(r)'
                    /\ learned'[r] + InLearn(r)' <= scoredBy'[r]
  BY DEF Tallies
<1>0. /\ finished[r] \in Nat /\ scoredBy[r] \in Nat /\ learned[r] \in Nat /\ crashes \in Nat
      /\ InScore(r) \in {0, 1} /\ InLearn(r) \in {0, 1}
      /\ InScore(r)' \in {0, 1} /\ InLearn(r)' \in {0, 1}
  BY RunTypes DEF HistoryTypes, InScore, InLearn, InFlight
<1>1. /\ finished[r] + InScore(r) <= scoredBy[r]
      /\ scoredBy[r] <= finished[r] + crashes + InScore(r)
      /\ learned[r] + InLearn(r) <= scoredBy[r]
  BY DEF Tallies
<1>2. ASSUME UNCHANGED <<finished, scoredBy, learned, crashes>>,
             InScore(r)' = InScore(r), InLearn(r)' = InLearn(r)
      PROVE  /\ finished'[r] + InScore(r)' <= scoredBy'[r]
             /\ scoredBy'[r] <= finished'[r] + crashes' + InScore(r)'
             /\ learned'[r] + InLearn(r)' <= scoredBy'[r]
  BY <1>1, <1>2
<1>3. ASSUME call = Idle \/ call.pc \in {"exec", "settle"},
             call' = Idle \/ call'.pc \in {"exec", "settle"}
      PROVE  InScore(r)' = InScore(r) /\ InLearn(r)' = InLearn(r)
  BY <1>3 DEF InScore, InLearn, InFlight
<1>4. CASE UNCHANGED <<call, runVars>>
  BY <1>2, <1>4 DEF runVars, InScore, InLearn, InFlight
<1>5. ASSUME NEW t \in Traces, NEW g \in GraphIds, NEW body, Begins(t, g, body)
      PROVE  /\ UNCHANGED <<finished, scoredBy, learned, crashes>>
             /\ InScore(r)' = InScore(r) /\ InLearn(r)' = InLearn(r)
  BY <1>3, <1>5 DEF Begins
<1>6. ASSUME NEW node \in NodeIds, NEW status, Executes(node, status)
      PROVE  /\ UNCHANGED <<finished, scoredBy, learned, crashes>>
             /\ InScore(r)' = InScore(r) /\ InLearn(r)' = InLearn(r)
  BY <1>3, <1>6 DEF Executes
<1>7. ASSUME NEW t \in Traces, NEW n \in NodeIds, Resumes(t, n)
      PROVE  /\ UNCHANGED <<finished, scoredBy, learned, crashes>>
             /\ InScore(r)' = InScore(r) /\ InLearn(r)' = InLearn(r)
  BY <1>3, <1>7 DEF Resumes, runVars
<1>8. CASE Suspends
  BY <1>2, <1>8 DEF Suspends, GoesOn, InScore, InLearn, InFlight
<1>9. CASE Adjusts
  BY <1>2, <1>9 DEF Adjusts, GoesOn, InScore, InLearn, InFlight, runVars
<1>10. CASE Settles
  <2>1. /\ UNCHANGED <<finished, learned, crashes>>
        /\ call # Idle /\ call.pc = "settle" /\ call' # Idle /\ call'.pc = "adjust"
        /\ call'.run = call.run /\ call.run.pending = {}
        /\ scoredBy' = [scoredBy EXCEPT ![call.run.rid] = @ + 1]
    BY <1>10 DEF Settles, GoesOn
  <2>2. InScore(r) = 0 /\ InLearn(r) = 0
    BY <2>1 DEF InScore, InLearn, InFlight
  <2>3. CASE call.run.rid = r
    <3>1. InScore(r)' = 1 /\ InLearn(r)' = 1
      BY <2>1, <2>3 DEF InScore, InLearn, InFlight
    <3>2. scoredBy'[r] = scoredBy[r] + 1
      BY <2>1, <2>3 DEF HistoryTypes
    <3> QED BY <1>0, <1>1, <2>1, <2>2, <3>1, <3>2
  <2>4. CASE call.run.rid # r
    <3>1. InScore(r)' = 0 /\ InLearn(r)' = 0
      BY <2>1, <2>4 DEF InScore, InLearn, InFlight
    <3>2. scoredBy'[r] = scoredBy[r]
      BY <2>1, <2>4 DEF HistoryTypes
    <3> QED BY <1>0, <1>1, <2>1, <2>2, <3>1, <3>2
  <2> QED BY <2>3, <2>4
<1>11. CASE Learns
  <2>1. /\ UNCHANGED <<finished, scoredBy, crashes>>
        /\ call # Idle /\ call.pc = "reinforce" /\ call' # Idle /\ call'.pc = "log"
        /\ call'.run = call.run /\ call.run.pending = {}
        /\ learned' = [learned EXCEPT ![call.run.rid] = @ + 1] \/ learned' = learned
    BY <1>11 DEF Learns, GoesOn, CallPlaces
  <2>2. InScore(r)' = InScore(r) /\ InLearn(r)' = 0
    BY <2>1 DEF InScore, InLearn, InFlight
  <2>3. CASE call.run.rid = r
    <3>1. InLearn(r) = 1
      BY <2>1, <2>3 DEF InLearn, InFlight
    <3>2. learned'[r] = learned[r] + 1 \/ learned'[r] = learned[r]
      BY <2>1, <2>3 DEF HistoryTypes
    <3> QED BY <1>0, <1>1, <2>1, <2>2, <3>1, <3>2
  <2>4. CASE call.run.rid # r
    <3>1. learned'[r] = learned[r]
      BY <2>1, <2>4 DEF HistoryTypes
    <3> QED BY <1>0, <1>1, <2>1, <2>2, <3>1
  <2> QED BY <2>3, <2>4
<1>12. CASE Logs
  <2>1. /\ UNCHANGED <<scoredBy, learned, crashes>>
        /\ call # Idle /\ call.pc = "log" /\ call' = Idle
        /\ finished' = IF call.run.pending = {}
                       THEN [finished EXCEPT ![call.run.rid] = @ + 1] ELSE finished
    BY <1>12 DEF Logs
  <2>2. InScore(r)' = 0 /\ InLearn(r)' = 0 /\ InLearn(r) = 0
    BY <2>1 DEF InScore, InLearn, InFlight
  <2>3. CASE call.run.rid = r /\ call.run.pending = {}
    <3>1. InScore(r) = 1
      BY <2>1, <2>3 DEF InScore
    <3>2. finished'[r] = finished[r] + 1
      BY <2>1, <2>3 DEF HistoryTypes
    <3> QED BY <1>0, <1>1, <2>1, <2>2, <3>1, <3>2
  <2>4. CASE ~(call.run.rid = r /\ call.run.pending = {})
    <3>1. InScore(r) = 0
      BY <2>1, <2>4 DEF InScore
    <3>2. finished'[r] = finished[r]
      BY <2>1, <2>4 DEF HistoryTypes
    <3> QED BY <1>0, <1>1, <2>1, <2>2, <3>1, <3>2
  <2> QED BY <2>3, <2>4
<1>13. CASE Restarts
  <2>1. /\ UNCHANGED <<finished, scoredBy, learned>> /\ call' = Idle /\ crashes' = crashes + 1
    BY <1>13 DEF Restarts
  <2>2. InScore(r)' = 0 /\ InLearn(r)' = 0
    BY <2>1 DEF InScore, InLearn, InFlight
  <2> QED BY <1>0, <1>1, <2>1, <2>2
<1> QED
  BY <1>2, <1>4, <1>5, <1>6, <1>7, <1>8, <1>9, <1>10, <1>11, <1>12, <1>13 DEF RunStep

-----------------------------------------------------------------------------
(* The theorems about the end of a run *)

HistoryInv ==
  /\ WInv
  /\ HistoryTypes /\ RunsBounded /\ RunsApart /\ CallPlaces /\ Ended /\ Tallies

LEMMA InitHistoryInv == Init => HistoryInv
<1> SUFFICES ASSUME Init PROVE HistoryInv
  OBVIOUS
<1>1. WInv /\ TInv
  BY InitWInv, InitTInv
<1>2. crashes = 0
  BY DEF Init, EvoInit
<1>3. HistoryTypes /\ RunsBounded /\ RunsApart /\ CallPlaces /\ Ended
  BY DEF Init, HistoryTypes, RunsBounded, RunsApart, OneTrace, CallPlaces, Ended
<1>4. Tallies
  BY <1>2 DEF Init, Tallies, InScore, InLearn, InFlight
<1> QED BY <1>1, <1>3, <1>4 DEF HistoryInv

LEMMA NextHistoryInv ==
  ASSUME HistoryInv, [Next]_vars
  PROVE  HistoryInv' /\ RunStep
<1>1. WInv' /\ TInv /\ TInv'
  BY NextWInv DEF HistoryInv, WInv
<1>2. RunStep
  BY <1>1, RunSteps
<1>3. HistoryTypes'
  BY <1>1, <1>2, HistoryTypesStep DEF HistoryInv
<1> QED
  BY <1>1, <1>2, <1>3, BoundedStep, ApartStep, PlacesStep, EndedStep, TalliesStep DEF HistoryInv

LEMMA HistoryInvHolds == Spec => []HistoryInv
  BY InitHistoryInv, NextHistoryInv, PTL DEF Spec

\* Nothing brings a run back once state.json holds its last event.
THEOREM FinishedStaysFinal == Spec => []FinishedIsFinal
<1>1. ASSUME HistoryInv PROVE FinishedIsFinal
  <2>1. \A r \in Runs : finished[r] <= 1
    BY <1>1 DEF HistoryInv, Ended
  <2>2. \A t \in Traces : diskRuns[t] # NoRun => finished[diskRuns[t].rid] = 0
    BY <1>1 DEF HistoryInv, Ended
  <2> QED BY <2>1, <2>2 DEF FinishedIsFinal
<1> QED
  BY <1>1, HistoryInvHolds, PTL

\* The metrics, the patterns and the log of ends count a run alike, but for one score
\* that a crash keeps from being logged.
THEOREM TalliesAgree == Spec => []FilesAgree
<1>1. ASSUME HistoryInv PROVE FilesAgree
  <2> SUFFICES ASSUME NEW r \in Runs
               PROVE  /\ finished[r] <= scoredBy[r]
                      /\ scoredBy[r] <= finished[r] + crashes
                                          + InFlight(r, {"adjust", "reinforce", "log"})
                      /\ learned[r] <= scoredBy[r]
    BY DEF FilesAgree
  <2>1. /\ finished[r] \in Nat /\ scoredBy[r] \in Nat /\ learned[r] \in Nat /\ crashes \in Nat
    BY <1>1, RunTypes DEF HistoryInv, WInv, HistoryTypes
  <2>2. /\ finished[r] + InScore(r) <= scoredBy[r]
        /\ scoredBy[r] <= finished[r] + crashes + InScore(r)
        /\ learned[r] + InLearn(r) <= scoredBy[r]
    BY <1>1 DEF HistoryInv, Tallies
  <2>3. /\ InScore(r) \in {0, 1} /\ InLearn(r) \in {0, 1}
        /\ InFlight(r, {"adjust", "reinforce", "log"}) \in {0, 1}
        /\ InScore(r) <= InFlight(r, {"adjust", "reinforce", "log"})
    BY DEF InScore, InLearn, InFlight
  <2> QED BY <2>1, <2>2, <2>3
<1> QED
  BY <1>1, HistoryInvHolds, PTL


-----------------------------------------------------------------------------
(* The graph of a run *)

\* What the kernel runs under an id is one of the graphs a lookup of the id can end at.
GraphsKnown ==
  /\ \A g \in GraphIds : graphs[g] = NoBody \/ graphs[g] \in BodiesOf(g)
  /\ call # Idle => call.body \in BodiesOf(call.run.graph)

LEMMA LookupKnown ==
  ASSUME TInv, GraphsKnown, NEW id, Known(id)
  PROVE  /\ BodyFor(id) \in BodiesOf(GraphFor(id))
         /\ id \in GraphIds => BodyFor(id) \in BodiesOf(id)
<1>1. CASE InMemory(id)
  BY <1>1 DEF GraphsKnown, InMemory, BodyFor, GraphFor
<1>2. CASE ~InMemory(id)
  <2>1. /\ resolve(id) \in Versions /\ BodyFor(id) = FileBody[resolve(id)]
        /\ GraphFor(id) = resolve(id)
    BY <1>2 DEF Known, TInv, IInv, TypeOK, BodyFor, GraphFor
  <2>2. FileBody[resolve(id)] \in BodiesOf(resolve(id))
    BY <2>1 DEF BodiesOf
  <2>3. FileBody[resolve(id)] \in BodiesOf(id)
    BY <2>1 DEF BodiesOf, resolve
  <2> QED BY <2>1, <2>2, <2>3
<1> QED BY <1>1, <1>2

LEMMA KnownStep ==
  ASSUME TInv, GraphsKnown, [Next]_vars
  PROVE  GraphsKnown'
<1>1. ASSUME NEW t, NEW g \in GraphIds, NEW body \in BodiesOf(g), Launch(t, g, body)
      PROVE  GraphsKnown'
  <2>1. /\ graphs' = [graphs EXCEPT ![g] = body] /\ DOMAIN graphs = GraphIds
        /\ call'.body = body /\ call'.run.graph = g
    BY <1>1 DEF Launch, Running, FreshRun, TInv, KernelTypeOK
  <2>2. \A h \in GraphIds : graphs'[h] = IF h = g THEN body ELSE graphs[h]
    BY <2>1
  <2> QED BY <2>1, <2>2 DEF GraphsKnown
<1>2. ASSUME graphs' = graphs,
             \/ call' = Idle
             \/ call # Idle /\ call'.body = call.body /\ call'.run.graph = call.run.graph
      PROVE  GraphsKnown'
  BY <1>2 DEF GraphsKnown
<1>3. CASE NodeOk \/ NodeFailed \/ NodeAccepted
  <2>1. PICK node \in NodeIds, status \in {"ok", "failed", "pending"} : Executes(node, status)
    BY <1>3, ExecutesFact
  <2>2. graphs' = graphs
    BY <1>3 DEF NodeOk, NodeFailed, NodeAccepted, Execute
  <2> QED BY <1>2, <2>1, <2>2 DEF Executes
<1>4. CASE SettlePending \/ Adjust \/ Reinforce \/ \E m \in Samples : SettleDone(m)
  <2>1. /\ graphs' = graphs /\ call # Idle
        /\ \E pc \in {"log", "adjust", "reinforce"} : call' = [call EXCEPT !.pc = pc]
    BY <1>4 DEF SettlePending, Adjust, Reinforce, SettleDone, Idle
  <2>2. call \in Calls
    BY <2>1, CallFact DEF TInv
  <2>3. call'.body = call.body /\ call'.run = call.run
    BY <2>1, <2>2 DEF Calls
  <2> QED BY <1>2, <2>1, <2>3
<1>5. CASE RecordGraphEvent
  BY <1>2, <1>5 DEF RecordGraphEvent
<1>6. ASSUME NEW t \in Traces, NEW n \in NodeIds, HandleJobFinished(t, n) PROVE GraphsKnown'
  <2> DEFINE run == memRuns[t]
             resumed == [run EXCEPT !.node_status[n] = "ok", !.pending = @ \ {n}]
  <2>1. /\ run # NoRun /\ Known(run.graph) /\ graphs' = graphs
        /\ call' = Running(t, resumed, BodyFor(run.graph), ResumeIndex(BodyFor(run.graph), n))
    BY <1>6 DEF HandleJobFinished
  <2>2. run.graph \in GraphIds /\ resumed.graph = run.graph
    BY <2>1, RunTypes DEF GraphRunState
  <2>3. call'.body = BodyFor(run.graph) /\ call'.run.graph = run.graph
    BY <2>1, <2>2 DEF Running
  <2>4. BodyFor(run.graph) \in BodiesOf(run.graph)
    BY <2>1, <2>2, LookupKnown
  <2> HIDE DEF run, resumed
  <2> QED BY <2>1, <2>3, <2>4 DEF GraphsKnown
<1>7. CASE Crash
  <2>1. \A g \in GraphIds : LoadedGraphs[g] = NoBody \/ LoadedGraphs[g] \in BodiesOf(g)
    BY DEF LoadedGraphs, BodiesOf
  <2> QED BY <1>7, <2>1 DEF Crash, GraphsKnown
<1>8. CASE Maintain \/ UNCHANGED vars
  BY <1>8 DEF Maintain, vars, kernelVars, GraphsKnown
<1>9. ASSUME NEW t \in Traces, NEW id \in GraphIds \union {FamilyName}, LaunchNamed(t, id)
      PROVE  GraphsKnown'
  BY <1>1, <1>9, LookupFact, LookupKnown DEF LaunchNamed
<1>10. ASSUME NEW t \in Traces, NEW id \in PlannedIds, NEW body \in PlannedBodies,
              LaunchPlanned(t, id, body)
       PROVE  GraphsKnown'
  <2>1. id \in GraphIds /\ body \in BodiesOf(id)
    BY KernelAssumption DEF BodiesOf
  <2> QED BY <1>1, <1>10, <2>1 DEF LaunchPlanned
<1> QED
  BY <1>3, <1>4, <1>5, <1>6, <1>7, <1>8, <1>9, <1>10 DEF Next, CallStep

\* Every graph that can be looked up is one.
LEMMA BodiesFact ==
  ASSUME NEW g, NEW body \in BodiesOf(g)
  PROVE  /\ GraphBody(body) /\ Len(body) \in Nat /\ DOMAIN body = 1..Len(body)
         /\ \A i \in DOMAIN body : body[i] \in Nodes /\ body[i].id \in NodeIds
<1>1. GraphBody(body)
  BY KernelAssumption DEF BodiesOf
<1>2. body \in Seq(Nodes)
  BY <1>1 DEF GraphBody
<1>3. \A i \in DOMAIN body : body[i] \in Nodes
  BY <1>2
<1> QED BY <1>1, <1>2, <1>3 DEF Nodes

-----------------------------------------------------------------------------
(* The order of the nodes *)

AllOk(run, body, i) == \A k \in 1..i : run.node_status[body[k].id] = "ok"

\* Only the first i nodes of the graph have a status.
Untouched(run, body, i) ==
  \A n \in NodeIds : (\A k \in 1..i : body[k].id # n) => run.node_status[n] = "none"

\* A suspended run waits for the job of a node, after all nodes before it.
InOrder(run) ==
  \E body \in BodiesOf(run.graph) : \E i \in DOMAIN body :
    /\ body[i].async /\ run.pending = {body[i].id}
    /\ AllOk(run, body, i - 1)
    /\ JobsGoOn => Untouched(run, body, i)

OrderInv ==
  /\ \A t \in Traces : /\ memRuns[t] # NoRun => InOrder(memRuns[t])
                       /\ diskRuns[t] # NoRun => InOrder(diskRuns[t])
  /\ call # Idle /\ call.run.pending # {} => InOrder(call.run)
  /\ call # Idle /\ call.pc = "exec" =>
       /\ AllOk(call.run, call.body, call.at - 1)
       /\ JobsGoOn => Untouched(call.run, call.body, call.at - 1)

\* A result finds the node of its job at the place the job was submitted from.
LEMMA ResumesInOrder ==
  ASSUME TInv, GraphsKnown, JobsKeepPlace, NEW run \in GraphRunState, NEW n \in NodeIds,
         InOrder(run), n \in run.pending, Known(run.graph), HasNode(BodyFor(run.graph), n),
         NEW resumed,
         resumed.node_status = [run.node_status EXCEPT ![n] = "ok"]
  PROVE  \A body, at : body = BodyFor(run.graph) /\ at = ResumeIndex(body, n) =>
           /\ AllOk(resumed, body, at - 1)
           /\ JobsGoOn => Untouched(resumed, body, at - 1)
<1> DEFINE c == BodyFor(run.graph)
           j == NodeIndex(c, n)
<1>1. PICK b \in BodiesOf(run.graph) : \E i \in DOMAIN b :
        /\ b[i].async /\ run.pending = {b[i].id}
        /\ AllOk(run, b, i - 1)
        /\ JobsGoOn => Untouched(run, b, i)
  BY DEF InOrder
<1>2. PICK i \in DOMAIN b :
        /\ b[i].async /\ run.pending = {b[i].id}
        /\ AllOk(run, b, i - 1)
        /\ JobsGoOn => Untouched(run, b, i)
  BY <1>1
<1>3. b[i].id = n
  BY <1>2
<1>4. run.graph \in GraphIds /\ c \in BodiesOf(run.graph)
  BY LookupKnown DEF GraphRunState
<1>5. j \in DOMAIN c /\ c[j].id = n
  BY DEF HasNode, NodeIndex
<1>6. ResumeIndex(c, n) = IF j = Len(c) THEN 1 ELSE j + 1
  BY DEF ResumeIndex
<1> HIDE DEF c, j
<1>7. i = j /\ \A k \in 1..i : b[k].id = c[k].id
  BY <1>2, <1>3, <1>4, <1>5 DEF JobsKeepPlace
<1>8. JobsGoOn => j < Len(c)
  BY <1>2, <1>3, <1>4, <1>5 DEF JobsGoOn
<1>9. /\ Len(c) \in Nat /\ DOMAIN c = 1..Len(c)
      /\ \A k \in DOMAIN c : c[k].id \in NodeIds
  BY <1>4, BodiesFact
<1>10. j \in 1..Len(c) /\ i \in Nat
  BY <1>5, <1>7, <1>9
<1>11. /\ run.node_status \in [NodeIds -> Statuses]
       /\ resumed.node_status[n] = "ok"
       /\ \A m \in NodeIds : m # n => resumed.node_status[m] = run.node_status[m]
  BY DEF GraphRunState
<1>12. AllOk(resumed, c, j)
  <2> SUFFICES ASSUME NEW k \in 1..j PROVE resumed.node_status[c[k].id] = "ok"
    BY DEF AllOk
  <2>1. c[k].id \in NodeIds /\ b[k].id = c[k].id
    BY <1>7, <1>9, <1>10
  <2>2. CASE k = j
    BY <2>2, <1>5, <1>11
  <2>3. CASE k # j
    <3>1. k \in 1..(i - 1)
      BY <2>3, <1>7, <1>10
    <3>2. run.node_status[c[k].id] = "ok"
      BY <3>1, <2>1, <1>2 DEF AllOk
    <3> QED BY <3>2, <2>1, <1>11
  <2> QED BY <2>2, <2>3
<1>13. ASSUME JobsGoOn PROVE Untouched(resumed, c, j)
  <2> SUFFICES ASSUME NEW m \in NodeIds, \A k \in 1..j : c[k].id # m
               PROVE  resumed.node_status[m] = "none"
    BY DEF Untouched
  <2>1. m # n
    BY <1>5, <1>10
  <2>2. \A k \in 1..i : b[k].id # m
    BY <1>7
  <2>3. run.node_status[m] = "none"
    BY <1>13, <1>2, <2>2 DEF Untouched
  <2> QED BY <2>1, <2>3, <1>11
<1>14. CASE j = Len(c)
  <2>1. ResumeIndex(c, n) = 1 /\ ~JobsGoOn
    BY <1>6, <1>8, <1>10, <1>14
  <2>2. AllOk(resumed, c, 1 - 1)
    BY DEF AllOk
  <2> QED BY <2>1, <2>2 DEF c
<1>15. CASE j # Len(c)
  <2>1. ResumeIndex(c, n) - 1 = j
    BY <1>6, <1>10, <1>15
  <2> QED BY <2>1, <1>12, <1>13 DEF c
<1> QED BY <1>14, <1>15

\* A node that is done moves the call to the next one.
LEMMA ExecutesInOrder ==
  ASSUME TInv, WInv, GraphsKnown, OrderInv, NEW node \in NodeIds,
         NEW status \in {"ok", "failed", "pending"}, Executes(node, status)
  PROVE  /\ call'.run.pending # {} => InOrder(call'.run)
         /\ call'.pc = "exec" =>
              /\ AllOk(call'.run, call'.body, call'.at - 1)
              /\ JobsGoOn => Untouched(call'.run, call'.body, call'.at - 1)
<1> DEFINE body == call.body
           at   == call.at
<1>1. /\ call # Idle /\ call.pc = "exec" /\ node = body[at].id
      /\ call'.body = body /\ call'.run.graph = call.run.graph
      /\ call'.run.node_status = [call.run.node_status EXCEPT ![node] = status]
  BY DEF Executes
<1>2. /\ body \in BodiesOf(call.run.graph) /\ at \in DOMAIN body /\ call.run \in GraphRunState
      /\ Len(body) \in Nat /\ DOMAIN body = 1..Len(body) /\ call.run.pending = {}
  BY <1>1, CallFact, RunTypes DEF TInv, GraphsKnown, WInv, CallWaits
<1>3. /\ \A k \in DOMAIN body : body[k].id \in NodeIds
      /\ \A k, l \in DOMAIN body : body[k].id = body[l].id => k = l
  BY <1>2, BodiesFact DEF GraphBody
<1>4. AllOk(call.run, body, at - 1) /\ (JobsGoOn => Untouched(call.run, body, at - 1))
  BY <1>1 DEF OrderInv
<1>5. CASE call'.pc = "exec" /\ call'.at = at + 1 /\ status = "ok" /\ call'.run.pending = {}
  BY <1>1, <1>2, <1>3, <1>4, <1>5 DEF AllOk, Untouched, GraphRunState
<1>6. CASE call'.pc = "settle" /\ call'.run.pending = {}
  BY <1>6
<1>7. CASE call'.pc = "settle" /\ body[at].async /\ call'.run.pending = {node}
  <2> HIDE DEF body, at
  <2>1. AllOk(call'.run, body, at - 1)
    <3> SUFFICES ASSUME NEW k \in 1..(at - 1) PROVE call'.run.node_status[body[k].id] = "ok"
      BY DEF AllOk
    <3>1. k \in DOMAIN body /\ k # at
      BY <1>2
    <3>2. body[k].id \in NodeIds /\ body[k].id # node
      BY <3>1, <1>1, <1>2, <1>3
    <3>3. call.run.node_status[body[k].id] = "ok"
      BY <1>4 DEF AllOk
    <3> QED BY <3>2, <3>3, <1>1, <1>2 DEF GraphRunState
  <2>2. ASSUME JobsGoOn PROVE Untouched(call'.run, body, at)
    <3> SUFFICES ASSUME NEW n \in NodeIds, \A k \in 1..at : body[k].id # n
                 PROVE  call'.run.node_status[n] = "none"
      BY DEF Untouched
    <3>1. n # node
      BY <1>1, <1>2
    <3>2. \A k \in 1..(at - 1) : body[k].id # n
      BY <1>2
    <3>3. call.run.node_status[n] = "none"
      BY <3>2, <2>2, <1>4 DEF Untouched
    <3> QED BY <3>1, <3>3, <1>1, <1>2 DEF GraphRunState
  <2> QED BY <1>1, <1>2, <1>7, <2>1, <2>2 DEF InOrder
<1>8. \/ call'.pc = "exec" /\ call'.at = at + 1 /\ status = "ok" /\ call'.run.pending = {}
      \/ call'.pc = "settle" /\ call'.run.pending = {}
      \/ call'.pc = "settle" /\ body[at].async /\ call'.run.pending = {node}
  BY <1>2 DEF Executes
<1> QED BY <1>5, <1>6, <1>7, <1>8

LEMMA OrderStep ==
  ASSUME WInv, GraphsKnown, OrderInv, JobsKeepPlace, [Next]_vars
  PROVE  OrderInv'
<1>0. TInv /\ RunStep /\ TInv'
  BY RunSteps, NextTInv DEF WInv
<1>1. ASSUME UNCHANGED <<memRuns, diskRuns>>,
             call' # Idle => /\ call'.run.pending # {} => InOrder(call'.run)
                             /\ call'.pc = "exec" =>
                                  /\ AllOk(call'.run, call'.body, call'.at - 1)
                                  /\ JobsGoOn => Untouched(call'.run, call'.body, call'.at - 1)
      PROVE  OrderInv'
  BY <1>1 DEF OrderInv
<1>2. ASSUME NEW t \in Traces, NEW g \in GraphIds, NEW body, Begins(t, g, body)
      PROVE  OrderInv'
  <2>1. call'.run.pending = {} /\ \A n \in NodeIds : call'.run.node_status[n] = "none"
    BY <1>2 DEF Begins, FreshRun
  <2>2. UNCHANGED <<memRuns, diskRuns>> /\ call'.at = 1
    BY <1>2 DEF Begins
  <2>3. /\ AllOk(call'.run, call'.body, call'.at - 1)
        /\ Untouched(call'.run, call'.body, call'.at - 1)
    BY <2>1, <2>2 DEF AllOk, Untouched
  <2> QED BY <1>1, <2>1, <2>2, <2>3
<1>3. ASSUME NEW node \in NodeIds, NEW status \in {"ok", "failed", "pending"},
             Executes(node, status)
      PROVE  OrderInv'
  <2>1. UNCHANGED <<memRuns, diskRuns>>
    BY <1>3 DEF Executes
  <2> QED BY <1>0, <1>1, <1>3, <2>1, ExecutesInOrder
<1>4. CASE Adjusts \/ Learns
  BY <1>1, <1>4 DEF Adjusts, Learns, GoesOn, runVars, OrderInv
<1>5. CASE Suspends \/ Settles
  <2>1. /\ call # Idle /\ call'.pc # "exec" /\ call'.run = call.run /\ diskRuns' = diskRuns
        /\ \/ memRuns' = [memRuns EXCEPT ![call.trace] = call.run] /\ call.run.pending # {}
           \/ memRuns' = [memRuns EXCEPT ![call.trace] = NoRun]
    BY <1>5 DEF Suspends, Settles, GoesOn
  <2>2. call.run.pending # {} => InOrder(call.run)
    BY <2>1 DEF OrderInv
  <2>3. \A t \in Traces : memRuns'[t] # NoRun => InOrder(memRuns'[t])
    <3> SUFFICES ASSUME NEW t \in Traces, memRuns'[t] # NoRun PROVE InOrder(memRuns'[t])
      OBVIOUS
    <3>1. CASE memRuns'[t] = memRuns[t]
      BY <3>1 DEF OrderInv
    <3>2. CASE memRuns'[t] # memRuns[t]
      <4>1. memRuns'[t] = call.run /\ call.run.pending # {}
        BY <1>0, <2>1, <3>2, RunTypes
      <4> QED BY <2>2, <4>1
    <3> QED BY <3>1, <3>2
  <2> QED BY <2>1, <2>2, <2>3 DEF OrderInv
<1>6. CASE Logs
  BY <1>6 DEF Logs, OrderInv
<1>7. ASSUME NEW t \in Traces, NEW n \in NodeIds, Resumes(t, n) PROVE OrderInv'
  <2> DEFINE run == memRuns[t]
             body == BodyFor(run.graph)
  <2>1. /\ run # NoRun /\ n \in run.pending /\ Known(run.graph) /\ HasNode(body, n)
        /\ call'.body = body /\ call'.at = ResumeIndex(body, n)
        /\ call'.run = [run EXCEPT !.node_status[n] = "ok", !.pending = @ \ {n}]
        /\ UNCHANGED <<memRuns, diskRuns>>
    BY <1>7 DEF Resumes, runVars
  <2>2. run \in GraphRunState /\ InOrder(run)
    BY <1>0, <2>1, RunTypes DEF OrderInv
  <2>3. /\ call'.run.node_status = [run.node_status EXCEPT ![n] = "ok"]
        /\ call'.run.pending = run.pending \ {n}
    BY <2>1, <2>2 DEF GraphRunState
  <2>4. call'.run.pending = {}
    BY <2>1, <2>2, <2>3 DEF InOrder
  <2> HIDE DEF run, body
  <2>5. /\ AllOk(call'.run, call'.body, call'.at - 1)
        /\ JobsGoOn => Untouched(call'.run, call'.body, call'.at - 1)
    BY <1>0, <2>1, <2>2, <2>3, ResumesInOrder DEF body
  <2> QED BY <1>1, <2>1, <2>4, <2>5
<1>8. CASE Restarts
  BY <1>8 DEF Restarts, OrderInv
<1>9. CASE UNCHANGED <<call, runVars>>
  BY <1>9 DEF runVars, OrderInv
<1> QED
  BY <1>0, <1>2, <1>3, <1>4, <1>5, <1>6, <1>7, <1>8, <1>9 DEF RunStep

\* Where the job of a node keeps its place in every graph of an id, a node is reached only
\* when all nodes before it are "ok".
THEOREM SerialExecution ==
  JobsKeepPlace => (Spec => []SerialOrder)
<1> DEFINE Inv == WInv /\ GraphsKnown /\ OrderInv
<1>1. Init => Inv
  <2> SUFFICES ASSUME Init PROVE Inv
    OBVIOUS
  <2>1. WInv
    BY InitWInv
  <2>2. GraphsKnown /\ OrderInv
    BY DEF Init, LoadedGraphs, GraphsKnown, BodiesOf, OrderInv
  <2> QED BY <2>1, <2>2
<1>2. JobsKeepPlace /\ Inv /\ [Next]_vars => Inv'
  BY NextWInv, KnownStep, OrderStep DEF WInv
<1>3. Inv => SerialOrder
  BY DEF OrderInv, SerialOrder, AllOk
<1> HIDE DEF Inv
<1>4. JobsKeepPlace => []JobsKeepPlace
  OBVIOUS
<1> QED
  BY <1>1, <1>2, <1>3, <1>4, PTL DEF Spec

-----------------------------------------------------------------------------
(* How often a node is executed *)

\* A node without a status was executed in launches that a crash has undone.
Fresh(run) ==
  \A n \in NodeIds : run.node_status[n] = "none" => execs[run.rid][n] <= crashes

ExecInv ==
  /\ ReexecutionBound
  /\ call # Idle => Fresh(call.run)
  /\ \A t \in Traces :
       memRuns[t] # NoRun /\ (call # Idle => memRuns[t].rid # call.run.rid) => Fresh(memRuns[t])

\* Executing a node counts for the run of the call only, and for a node that had no status.
LEMMA ExecutesOnce ==
  ASSUME TInv, TInv', WInv, GraphsKnown, OrderInv, JobsGoOn, ExecInv, NEW node \in NodeIds,
         NEW status \in {"ok", "failed", "pending"}, Executes(node, status)
  PROVE  ExecInv'
<1> DEFINE rid == call.run.rid
<1>1. /\ call # Idle /\ call.pc = "exec" /\ node = call.body[call.at].id
      /\ call' # Idle /\ call'.run.rid = rid
      /\ call'.run.node_status = [call.run.node_status EXCEPT ![node] = status]
      /\ execs' = [execs EXCEPT ![rid] = Count(@, node)]
      /\ memRuns' = memRuns /\ crashes' = crashes
  BY DEF Executes
<1>2. /\ call.run \in GraphRunState /\ rid \in Runs /\ call.body \in BodiesOf(call.run.graph)
      /\ call.at \in DOMAIN call.body /\ crashes \in Nat
      /\ execs \in [Runs -> [NodeIds -> 0..ExecCap]] /\ ExecCap \in Nat
  BY <1>1, CallFact, RunTypes, KernelAssumption DEF TInv, GraphsKnown
<1>3. call.run.node_status[node] = "none"
  <2>1. Untouched(call.run, call.body, call.at - 1)
    BY <1>1 DEF OrderInv
  <2>2. \A k \in 1..(call.at - 1) : call.body[k].id # node
    <3>1. GraphBody(call.body) /\ DOMAIN call.body = 1..Len(call.body) /\ Len(call.body) \in Nat
      BY <1>2, BodiesFact
    <3> SUFFICES ASSUME NEW k \in 1..(call.at - 1) PROVE call.body[k].id # node
      OBVIOUS
    <3>2. k \in DOMAIN call.body /\ k # call.at
      BY <1>2, <3>1
    <3> QED BY <1>1, <1>2, <3>1, <3>2 DEF GraphBody
  <2> QED BY <2>1, <2>2 DEF Untouched
<1>4. /\ \A r \in Runs : r # rid => execs'[r] = execs[r]
      /\ \A n \in NodeIds : n # node => execs'[rid][n] = execs[rid][n]
      /\ execs'[rid][node] \in {execs[rid][node], execs[rid][node] + 1}
  BY <1>1, <1>2 DEF Count
<1>5. execs[rid][node] <= crashes
  BY <1>1, <1>3 DEF ExecInv, Fresh
<1> HIDE DEF rid
<1>6. ReexecutionBound'
  <2> SUFFICES ASSUME NEW r \in Runs, NEW n \in NodeIds PROVE execs'[r][n] <= 1 + crashes
    BY <1>1 DEF ReexecutionBound
  <2>1. execs[r][n] <= 1 + crashes
    BY DEF ExecInv, ReexecutionBound
  <2>2. execs[rid][node] \in Nat
    BY <1>2
  <2>3. CASE r = rid /\ n = node
    BY <2>2, <2>3, <1>2, <1>4, <1>5
  <2>4. CASE ~(r = rid /\ n = node)
    BY <2>1, <2>4, <1>4
  <2> QED BY <2>3, <2>4
<1>7. Fresh(call.run)'
  <2>1. \A n \in NodeIds : call'.run.node_status[n] = "none" => n # node
    BY <1>1, <1>2 DEF GraphRunState
  <2>2. \A n \in NodeIds : n # node => call'.run.node_status[n] = call.run.node_status[n]
    BY <1>1, <1>2 DEF GraphRunState
  <2>3. Fresh(call.run)
    BY <1>1 DEF ExecInv
  <2>4. /\ call'.run.rid = rid /\ call.run.rid = rid /\ crashes' = crashes
        /\ \A n \in NodeIds : n # node => execs'[rid][n] = execs[rid][n]
    BY <1>1, <1>4 DEF rid
  <2> QED BY <2>1, <2>2, <2>3, <2>4 DEF Fresh
<1>8. ASSUME NEW t \in Traces, memRuns[t] # NoRun, memRuns[t].rid # rid
      PROVE  Fresh(memRuns[t])'
  <2>1. memRuns[t].rid \in Runs
    BY <1>8, RunTypes
  <2>2. Fresh(memRuns[t])
    BY <1>1, <1>8 DEF ExecInv, rid
  <2> QED BY <1>1, <1>4, <1>8, <2>1, <2>2 DEF Fresh
<1> QED BY <1>1, <1>6, <1>7, <1>8 DEF ExecInv

LEMMA ExecStep ==
  ASSUME HistoryInv, GraphsKnown, OrderInv, JobsGoOn, ExecInv, [Next]_vars
  PROVE  ExecInv'
<1>0. TInv /\ TInv' /\ RunStep /\ WInv
  BY RunSteps, NextTInv DEF WInv, HistoryInv
<1>1. ASSUME NEW t \in Traces, NEW g \in GraphIds, NEW body, Begins(t, g, body)
      PROVE  ExecInv'
  <2>1. /\ call = Idle /\ call'.run = FreshRun(g) /\ launches < MaxLaunches
        /\ UNCHANGED <<execs, memRuns, crashes>>
    BY <1>1 DEF Begins
  <2>2. launches + 1 \in Runs /\ launches + 1 > launches
    BY <1>0, <2>1, RunTypes DEF Runs
  <2>3. \A n \in NodeIds : execs[launches + 1][n] = 0
    BY <2>2 DEF HistoryInv, RunsBounded
  <2>4. Fresh(call.run)'
    BY <1>0, <2>1, <2>3, RunTypes DEF Fresh, FreshRun
  <2> QED BY <2>1, <2>4 DEF ExecInv, Fresh, ReexecutionBound
<1>2. ASSUME NEW node \in NodeIds, NEW status \in {"ok", "failed", "pending"},
             Executes(node, status)
      PROVE  ExecInv'
  BY <1>0, <1>2, ExecutesOnce
<1>3. CASE Adjusts \/ Learns
  BY <1>3 DEF Adjusts, Learns, GoesOn, runVars, ExecInv, Fresh, ReexecutionBound
<1>4. CASE Suspends \/ Settles
  <2>1. /\ call # Idle /\ call' # Idle /\ call'.run = call.run
        /\ UNCHANGED <<execs, crashes>>
        /\ \/ memRuns' = [memRuns EXCEPT ![call.trace] = call.run]
           \/ memRuns' = [memRuns EXCEPT ![call.trace] = NoRun]
    BY <1>4 DEF Suspends, Settles, GoesOn
  <2>2. \A t \in Traces : memRuns'[t] \in {memRuns[t], call.run, NoRun}
    BY <1>0, <2>1, RunTypes
  <2> QED BY <2>1, <2>2 DEF ExecInv, Fresh, ReexecutionBound
<1>5. CASE Logs
  <2>1. call # Idle /\ call.pc = "log" /\ call' = Idle /\ UNCHANGED <<memRuns, execs, crashes>>
    BY <1>5 DEF Logs
  <2>2. ASSUME NEW t \in Traces, memRuns[t] # NoRun PROVE Fresh(memRuns[t])
    <3>1. CASE memRuns[t].rid # call.run.rid
      BY <2>1, <2>2, <3>1 DEF ExecInv
    <3>2. CASE memRuns[t].rid = call.run.rid
      <4>1. t = call.trace
        BY <2>1, <2>2, <3>2 DEF HistoryInv, RunsApart
      <4>2. memRuns[t] = call.run
        BY <2>1, <2>2, <4>1 DEF HistoryInv, CallPlaces
      <4> QED BY <2>1, <4>2 DEF ExecInv
    <3> QED BY <3>1, <3>2
  <2> QED BY <2>1, <2>2 DEF ExecInv, Fresh, ReexecutionBound
<1>6. ASSUME NEW t \in Traces, NEW n \in NodeIds, Resumes(t, n) PROVE ExecInv'
  <2>1. /\ call = Idle /\ memRuns[t] # NoRun
        /\ call'.run = [memRuns[t] EXCEPT !.node_status[n] = "ok", !.pending = @ \ {n}]
        /\ UNCHANGED <<memRuns, execs, crashes>>
    BY <1>6 DEF Resumes, runVars
  <2>2. memRuns[t] \in GraphRunState
    BY <1>0, <2>1, RunTypes
  <2>3. /\ call'.run.rid = memRuns[t].rid
        /\ call'.run.node_status = [memRuns[t].node_status EXCEPT ![n] = "ok"]
    BY <2>1, <2>2 DEF GraphRunState
  <2>4. \A m \in NodeIds :
          call'.run.node_status[m] = "none" => memRuns[t].node_status[m] = "none"
    BY <2>2, <2>3 DEF GraphRunState
  <2>5. Fresh(memRuns[t])
    BY <2>1 DEF ExecInv
  <2>6. Fresh(call.run)'
    BY <2>1, <2>3, <2>4, <2>5 DEF Fresh
  <2> QED BY <2>1, <2>6 DEF ExecInv, Fresh, ReexecutionBound
<1>7. CASE Restarts
  <2>1. call' = Idle /\ memRuns' = diskRuns /\ crashes' = crashes + 1 /\ execs' = execs
    BY <1>7 DEF Restarts
  <2>2. \A r \in Runs, n \in NodeIds : execs[r][n] <= crashes + 1
    BY <1>0, RunTypes DEF ExecInv, ReexecutionBound
  <2>3. \A r \in Runs, n \in NodeIds : execs[r][n] <= 1 + (crashes + 1)
    BY <1>0, <2>2, RunTypes
  <2>4. \A t \in Traces : diskRuns[t] # NoRun => diskRuns[t].rid \in Runs
    BY <1>0, RunTypes
  <2> QED BY <2>1, <2>2, <2>3, <2>4 DEF ExecInv, Fresh, ReexecutionBound
<1>8. CASE UNCHANGED <<call, runVars>>
  BY <1>8 DEF runVars, ExecInv, Fresh, ReexecutionBound
<1> QED
  BY <1>0, <1>1, <1>2, <1>3, <1>4, <1>5, <1>6, <1>7, <1>8 DEF RunStep

\* Where jobs keep their place and no graph ends in one, a node of a run is executed once,
\* and once more at most for every crash.
THEOREM ReexecutionsBounded ==
  JobsKeepPlace /\ JobsGoOn => (Spec => []ReexecutionBound)
<1> DEFINE Inv == HistoryInv /\ GraphsKnown /\ OrderInv /\ ExecInv
           Premise == JobsKeepPlace /\ JobsGoOn
<1>1. Init => Inv
  <2> SUFFICES ASSUME Init PROVE Inv
    OBVIOUS
  <2>1. HistoryInv /\ crashes = 0
    BY InitHistoryInv DEF Init, EvoInit
  <2>2. GraphsKnown /\ OrderInv
    BY DEF Init, LoadedGraphs, GraphsKnown, BodiesOf, OrderInv
  <2>3. ExecInv
    BY <2>1 DEF Init, ExecInv, ReexecutionBound
  <2> QED BY <2>1, <2>2, <2>3
<1>2. Premise /\ Inv /\ [Next]_vars => Inv'
  BY NextHistoryInv, KnownStep, OrderStep, ExecStep DEF HistoryInv, WInv
<1>3. Inv => ReexecutionBound
  BY DEF ExecInv
<1> HIDE DEF Inv
<1>4. Premise => []Premise
  OBVIOUS
<1> QED
  BY <1>1, <1>2, <1>3, <1>4, PTL DEF Spec

-----------------------------------------------------------------------------
(* The ledger *)

\* Only the trace of a call that has been settled differs between memory and state.json.
InStep ==
  \A t \in Traces :
    call = Idle \/ t # call.trace \/ call.pc \in {"exec", "settle"} => memRuns[t] = diskRuns[t]

\* A run is stored under a trace that was launched under, and no other run is stored under
\* the trace of the call.
TracesUsed ==
  /\ \A t \in Traces : memRuns[t] # NoRun \/ diskRuns[t] # NoRun => t \in used
  /\ call # Idle => call.trace \in used
  /\ call # Idle /\ diskRuns[call.trace] # NoRun => diskRuns[call.trace].rid = call.run.rid

LEMMA InStepStep ==
  ASSUME WInv, InStep, RunStep
  PROVE  InStep'
<1>1. ASSUME call = Idle, UNCHANGED <<memRuns, diskRuns>> PROVE InStep'
  BY <1>1 DEF WInv, RunsFollow, InStep
<1>2. CASE Suspends \/ Settles
  <2>1. /\ call # Idle /\ call.pc = "settle" /\ call'.trace = call.trace /\ diskRuns' = diskRuns
        /\ call' # Idle /\ call'.pc \in {"log", "adjust"}
        /\ \E run : memRuns' = [memRuns EXCEPT ![call.trace] = run]
    BY <1>2 DEF Suspends, Settles, GoesOn
  <2>2. \A t \in Traces : t # call.trace => memRuns'[t] = memRuns[t]
    BY <2>1, RunTypes DEF WInv
  <2> QED BY <2>1, <2>2 DEF InStep
<1>3. CASE Logs \/ Restarts
  BY <1>3 DEF Logs, Restarts, InStep
<1>4. CASE \E node \in NodeIds, status \in {"ok", "failed", "pending"} : Executes(node, status)
  BY <1>4 DEF Executes, InStep
<1>5. CASE Adjusts \/ Learns
  BY <1>5 DEF Adjusts, Learns, GoesOn, runVars, InStep
<1>6. CASE UNCHANGED <<call, runVars>>
  BY <1>6 DEF runVars, InStep
<1> QED
  BY <1>1, <1>2, <1>3, <1>4, <1>5, <1>6 DEF RunStep, Begins, Resumes, runVars

LEMMA TracesStep ==
  ASSUME HistoryInv, HistoryInv', TracesUsed, ~ReuseTraces, RunStep
  PROVE  TracesUsed'
<1>0. TInv /\ WInv
  BY DEF HistoryInv, WInv
<1>1. ASSUME NEW t \in Traces, NEW g \in GraphIds, NEW body, Begins(t, g, body)
      PROVE  TracesUsed'
  <2>1. /\ call'.trace = t /\ t \notin used /\ used' = used \union {t}
        /\ UNCHANGED <<memRuns, diskRuns>>
    BY <1>1 DEF Begins
  <2>2. diskRuns[t] = NoRun
    BY <2>1 DEF TracesUsed
  <2> QED BY <2>1, <2>2 DEF TracesUsed
<1>2. CASE Suspends \/ Settles
  <2>1. /\ call # Idle /\ call'.trace = call.trace /\ call'.run = call.run
        /\ UNCHANGED <<diskRuns, used>>
        /\ \E run : memRuns' = [memRuns EXCEPT ![call.trace] = run]
    BY <1>2 DEF Suspends, Settles, GoesOn
  <2>2. \A t \in Traces : t # call.trace => memRuns'[t] = memRuns[t]
    BY <1>0, <2>1, RunTypes
  <2> QED BY <2>1, <2>2 DEF TracesUsed
<1>3. CASE Logs \/ Restarts
  BY <1>3 DEF Logs, Restarts, TracesUsed
<1>4. CASE \E node \in NodeIds, status \in {"ok", "failed", "pending"} : Executes(node, status)
  BY <1>4 DEF Executes, TracesUsed
<1>5. CASE Adjusts \/ Learns
  BY <1>5 DEF Adjusts, Learns, GoesOn, runVars, TracesUsed
<1>6. CASE UNCHANGED <<call, runVars>>
  BY <1>6 DEF runVars, TracesUsed
<1>7. ASSUME NEW t \in Traces, NEW n \in NodeIds, Resumes(t, n) PROVE TracesUsed'
  <2>1. /\ call = Idle /\ memRuns[t] # NoRun /\ call'.trace = t
        /\ call'.run = [memRuns[t] EXCEPT !.node_status[n] = "ok", !.pending = @ \ {n}]
        /\ UNCHANGED <<memRuns, diskRuns, used>>
    BY <1>7 DEF Resumes, runVars
  <2>2. call'.run.rid = memRuns[t].rid /\ memRuns = diskRuns
    BY <1>0, <2>1, RunTypes DEF GraphRunState, WInv, RunsFollow
  <2> QED BY <2>1, <2>2 DEF TracesUsed
<1> QED
  BY <1>1, <1>2, <1>3, <1>4, <1>5, <1>6, <1>7 DEF RunStep

\* Only the write of state.json moves a run in the ledger.
LEMMA LogsLedger ==
  ASSUME HistoryInv, InStep, TracesUsed, Logs
  PROVE  [Ledger!Next]_(Ledger!vars)
<1>0. PICK rid, t : rid = call.run.rid /\ t = call.trace
  OBVIOUS
<1>1. /\ call # Idle /\ call.pc = "log" /\ diskRuns' = memRuns /\ memRuns' = memRuns
      /\ torn' = torn
      /\ finished' = IF call.run.pending = {} THEN [finished EXCEPT ![rid] = @ + 1] ELSE finished
  BY <1>0 DEF Logs
<1>2. /\ TInv /\ finished \in [Runs -> Nat] /\ rid \in Runs /\ t \in Traces
      /\ finished[rid] = 0
  BY <1>0, <1>1, RunTypes DEF HistoryInv, WInv, HistoryTypes, Ended
<1>3. /\ call.run.pending = {} => memRuns[t] = NoRun
      /\ call.run.pending # {} => memRuns[t] = call.run /\ memRuns[t] # NoRun
  BY <1>0, <1>1, <1>2, RunTypes, NoRunAssumption DEF HistoryInv, CallPlaces
<1>4. \A u \in Traces : u # t => memRuns[u] = diskRuns[u]
  BY <1>0, <1>1 DEF InStep
<1>5. /\ diskRuns[t] # NoRun => diskRuns[t].rid = rid
      /\ memRuns[t] # NoRun => memRuns[t].rid = rid
  BY <1>0, <1>1, <1>3 DEF TracesUsed
<1>6. \A r \in Runs : r # rid => finished'[r] = finished[r]
  BY <1>1, <1>2
<1>7. ASSUME NEW r \in Runs, r # rid PROVE Stage(r)' = Stage(r)
  <2>1. (\E u \in Traces : memRuns[u] # NoRun /\ memRuns[u].rid = r)
          <=> (\E u \in Traces : diskRuns[u] # NoRun /\ diskRuns[u].rid = r)
    BY <1>4, <1>5, <1>7
  <2> QED BY <1>1, <1>6, <1>7, <2>1 DEF Stage
<1>12. ~torn
  BY <1>1 DEF HistoryInv, WInv, TornStops
<1>8. Stage(rid) \in {"none", "pending"}
  BY <1>2 DEF Stage
<1>9. Stage(rid)' = IF call.run.pending = {} THEN "done" ELSE "pending"
  <2>1. CASE call.run.pending = {}
    <3>1. finished'[rid] = 1
      BY <1>1, <1>2, <2>1
    <3> QED BY <2>1, <3>1 DEF Stage
  <2>2. CASE call.run.pending # {}
    <3>1. finished'[rid] = 0 /\ memRuns[t] # NoRun /\ memRuns[t].rid = rid
      BY <1>1, <1>2, <1>3, <1>5, <2>2
    <3> QED BY <1>1, <1>2, <2>2, <3>1 DEF Stage
  <2> QED BY <2>1, <2>2
<1>10. CASE Stage(rid)' = Stage(rid)
  <2>1. \A r \in Runs : Stage(r)' = Stage(r)
    BY <1>7, <1>10
  <2> QED BY <1>1, <2>1 DEF Ledger!vars
<1>11. CASE Stage(rid)' # Stage(rid)
  <2>1. [r \in Runs |-> Stage(r)]' = [[r \in Runs |-> Stage(r)] EXCEPT ![rid] = Stage(rid)']
    BY <1>7
  <2>2. \/ Stage(rid) = "none" /\ Stage(rid)' = "pending"
        \/ Stage(rid) = "none" /\ Stage(rid)' = "done"
        \/ Stage(rid) = "pending" /\ Stage(rid)' = "done"
    BY <1>8, <1>9, <1>11
  <2>3. [r \in Runs |-> Stage(r)][rid] = Stage(rid)
    BY <1>2
  <2>4. Ledger!Accept(rid) \/ Ledger!FinishAtOnce(rid) \/ Ledger!Finish(rid)
    BY <1>1, <1>12, <2>1, <2>2, <2>3
    DEF Ledger!Accept, Ledger!FinishAtOnce, Ledger!Finish, Ledger!Turn
  <2> QED BY <1>2, <2>4 DEF Ledger!Next
<1> QED BY <1>10, <1>11

LEMMA LedgerStep ==
  ASSUME HistoryInv, InStep, TracesUsed, RunStep
  PROVE  [Ledger!Next]_(Ledger!vars)
<1>1. CASE Logs
  BY <1>1, LogsLedger
<1>2. ASSUME UNCHANGED <<diskRuns, finished>>
      PROVE  UNCHANGED [r \in Runs |-> Stage(r)]
  BY <1>2 DEF Stage
<1>3. ASSUME UNCHANGED <<diskRuns, finished, torn>> PROVE UNCHANGED Ledger!vars
  BY <1>2, <1>3 DEF Ledger!vars
<1>4. CASE Restarts
  <2>1. ~torn /\ torn' \in BOOLEAN /\ UNCHANGED <<diskRuns, finished>>
    BY <1>4 DEF Restarts
  <2>2. UNCHANGED [r \in Runs |-> Stage(r)]
    BY <1>2, <2>1
  <2>3. torn \in BOOLEAN
    BY DEF HistoryInv, WInv, TInv, KernelTypeOK, TypeOK
  <2>4. torn' = TRUE \/ torn' = torn
    BY <2>1, <2>3
  <2>5. CASE torn' = TRUE
    <3>1. Ledger!Close
      BY <2>1, <2>2, <2>5 DEF Ledger!Close
    <3> QED BY <3>1 DEF Ledger!Next
  <2>6. CASE torn' = torn
    BY <1>3, <2>1, <2>6
  <2> QED BY <2>5, <2>6, <2>4
<1> QED
  BY <1>1, <1>3, <1>4 DEF RunStep, Begins, Executes, Suspends, Settles, Adjusts, Learns, Resumes,
                          GoesOn, runVars

\* A run appears in state.json once, as pending or with its end logged; one whose end was
\* logged neither waits nor ends again, and only a crash within a write loses the ledger: its
\* promise but for the liveness.  Callers do not launch under a trace again.
THEOREM LedgerSafe ==
  ~ReuseTraces => (Spec => Ledger!Safety)
<1> DEFINE Inv == HistoryInv /\ InStep /\ TracesUsed
<1>1. Init => Inv
  <2> SUFFICES ASSUME Init PROVE Inv
    OBVIOUS
  <2>1. HistoryInv
    BY InitHistoryInv
  <2>2. InStep /\ TracesUsed
    BY DEF Init, InStep, TracesUsed
  <2> QED BY <2>1, <2>2
<1>2. ~ReuseTraces /\ Inv /\ [Next]_vars => Inv'
  BY NextHistoryInv, InStepStep, TracesStep DEF HistoryInv
<1>3. Inv /\ [Next]_vars => [Ledger!Next]_(Ledger!vars)
  BY NextHistoryInv, LedgerStep
<1>4. Init => Ledger!Init
  BY DEF Init, EvoInit, Ledger!Init, Stage
<1> HIDE DEF Inv
<1>5. ~ReuseTraces => []~ReuseTraces
  OBVIOUS
<1> QED
  BY <1>1, <1>2, <1>3, <1>4, <1>5, PTL DEF Spec, Ledger!Safety

-----------------------------------------------------------------------------
(* Planner: from steps to actions *)

\* A set of natural numbers has a least one.
LEMMA LeastOf ==
  ASSUME NEW N \in SUBSET Nat, N # {}
  PROVE  \E i \in N : \A j \in N : i <= j
<1>1. PICK i \in N : \A j \in N : ~(<<j, i>> \in OpToRel(<, Nat))
  BY NatLessThanWellFounded, WFMin
<1>2. \A j \in N : ~(j < i)
  BY <1>1 DEF OpToRel
<1>3. i \in Nat /\ \A j \in N : j \in Nat
  OBVIOUS
<1>4. \A j \in N : i <= j
  BY <1>2, <1>3
<1> QED BY <1>4


\* There are n numbers from 1 to n.
LEMMA OneTo ==
  ASSUME NEW n \in Nat
  PROVE  IsFiniteSet(1..n) /\ Cardinality(1..n) = n
BY FS_Interval

\* A step whose action is not of the kind its word prefers.
Misplaced(registry, a, word) ==
  \/ word \in AsyncFirst /\ a \notin registry.async
  \/ word \in SyncFirst /\ a \in registry.async

\* The name of an action has one place in the order of the names.
LEMMA PlaceIs ==
  ASSUME NEW registry \in Registries, NEW a \in registry.actions
  PROVE  place(a) \in 1..Len(NameOrder)
<1> DEFINE found == {i \in 1..Len(NameOrder) : NameOrder[i] = a}
<1>1. Len(NameOrder) \in Nat /\ a \in ToSet(NameOrder)
  BY PlannerAssumption
<1>2. PICK i \in DOMAIN NameOrder : NameOrder[i] = a
  BY <1>1 DEF ToSet
<1>3. DOMAIN NameOrder = 1..Len(NameOrder)
  BY PlannerAssumption
<1>4. found \in SUBSET Nat /\ found # {}
  BY <1>1, <1>2, <1>3
<1>5. place(a) = Min(found)
  BY <1>4 DEF place, SelectInSeq
<1>6. \E i1 \in found : \A j \in found : i1 <= j
  <2> HIDE DEF found
  <2> QED BY <1>4, LeastOf
<1>7. Min(found) \in found
  BY <1>6 DEF Min
<1> QED BY <1>5, <1>7

\* An action of the preferred kind ranks before any other.
LEMMA RankIs ==
  ASSUME NEW registry \in Registries, NEW a \in registry.actions, NEW word
  PROVE  /\ Rank(registry, a, word) \in Nat
         /\ ~Misplaced(registry, a, word) => Rank(registry, a, word) <= 2 * Len(NameOrder)
         /\ Misplaced(registry, a, word) => Rank(registry, a, word) > 2 * Len(NameOrder)
<1> DEFINE n == Len(NameOrder)
           p == place(a)
           first == IF Misplaced(registry, a, word) THEN 2 * n ELSE 0
           second == IF a \in registry.provided THEN 0 ELSE n
<1>1. n \in Nat /\ p \in 1..n
  BY PlaceIs, PlannerAssumption
<1>2. Rank(registry, a, word) = first + second + p
  BY DEF Rank, Misplaced
<1>3. /\ first \in Nat /\ second \in Nat /\ second <= n
      /\ ~Misplaced(registry, a, word) => first = 0
      /\ Misplaced(registry, a, word) => first = 2 * n
  BY <1>1
<1> HIDE DEF first, second, n, p
<1>4. /\ first + second + p \in Nat
      /\ first = 0 => first + second + p <= 2 * n
      /\ first = 2 * n => first + second + p > 2 * n
  BY <1>1, <1>3
<1> QED BY <1>2, <1>3, <1>4 DEF n

\* What a word is resolved to answers to it, and is of the preferred kind if anything is.
LEMMA BestIs ==
  ASSUME NEW registry \in Registries, NEW word, capable(registry, word) # {}
  PROVE  LET best == resolve_best(registry, word)
         IN  /\ best \in capable(registry, word)
             /\ (\E a \in capable(registry, word) : ~Misplaced(registry, a, word))
                  => ~Misplaced(registry, best, word)
<1> DEFINE able == capable(registry, word)
           rank(a) == Rank(registry, a, word)
           ranks == {rank(a) : a \in able}
           best == resolve_best(registry, word)
<1>1. able \subseteq registry.actions
  BY DEF capable, allowed_actions
<1>2. \A a \in able : rank(a) \in Nat
  BY <1>1, RankIs
<1>3. ranks \in SUBSET Nat /\ ranks # {}
  BY <1>2
<1>4. \E m \in ranks : \A k \in ranks : m <= k
  <2> HIDE DEF ranks
  <2> QED BY <1>3, LeastOf
<1>5. \E a \in able : \A b \in able : rank(a) <= rank(b)
  BY <1>4
<1>6. best \in able /\ \A b \in able : rank(best) <= rank(b)
  BY <1>5 DEF resolve_best
<1>7. ASSUME NEW a \in able, ~Misplaced(registry, a, word), Misplaced(registry, best, word)
      PROVE  FALSE
  <2> DEFINE n == Len(NameOrder)
  <2>1. n \in Nat
    BY PlannerAssumption
  <2>2. rank(best) <= rank(a) /\ rank(best) \in Nat /\ rank(a) \in Nat
    BY <1>2, <1>6
  <2>3. rank(a) <= 2 * n /\ rank(best) > 2 * n
    BY <1>1, <1>6, <1>7, RankIs
  <2> HIDE DEF rank, n
  <2> QED BY <2>1, <2>2, <2>3
<1> QED BY <1>6, <1>7

\* No word prefers both kinds.
LEMMA WordsPreferOne == AsyncFirst \cap SyncFirst = {}
BY DEF AsyncFirst, SyncFirst

\* A step becomes what serves it, and stands for something if anything serves it.
LEMMA ActionServes ==
  ASSUME NEW registry \in Registries, NEW step
  PROVE  /\ Meaningful(registry, step)
              => /\ ActionFor(registry, step) \in registry.actions
                 /\ Serves(registry, ActionFor(registry, step), step)
         /\ (\E a \in registry.actions : Serves(registry, a, step)) => Meaningful(registry, step)
<1> DEFINE able == {b \in registry.actions : step \in registry.words[b]}
           best == resolve_best(registry, step)
<1>1. able = capable(registry, step)
  BY DEF capable, allowed_actions
<1>2. CASE step \in registry.actions
  BY <1>2 DEF ActionFor, Serves, Meaningful, allowed_actions
<1>3. CASE step \notin registry.actions
  <2> DEFINE kind == IF step \in AsyncFirst THEN able \cap registry.async
                     ELSE IF step \in SyncFirst THEN able \ registry.async ELSE able
  <2>1. \A a : Serves(registry, a, step) <=> a \in (IF kind # {} THEN kind ELSE able)
    BY <1>3 DEF Serves
  <2>2. kind = {a \in able : ~Misplaced(registry, a, step)}
    BY WordsPreferOne DEF Misplaced
  <2>3. Meaningful(registry, step) <=> able # {}
    BY <1>1, <1>3 DEF Meaningful, allowed_actions
  <2>4. ActionFor(registry, step) = best
    BY <1>3 DEF ActionFor, allowed_actions
  <2>5. able # {} => /\ best \in able
                     /\ kind # {} => best \in kind
    <3> HIDE DEF kind
    <3> QED BY <1>1, <2>2, BestIs
  <2>6. able \subseteq registry.actions /\ kind \subseteq able
    BY <2>2
  <2> HIDE DEF able, kind, best
  <2> QED BY <2>1, <2>3, <2>4, <2>5, <2>6
<1> QED BY <1>2, <1>3

\* Steps that all stand for something are taken one by one and in order.
LEMMA AllTaken ==
  ASSUME NEW registry \in Registries, NEW steps \in Seq(STRING),
         \A k \in DOMAIN steps : Meaningful(registry, steps[k])
  PROVE  LET actions == resolve_steps(registry, steps)
         IN  /\ Len(actions) = Len(steps)
             /\ DOMAIN actions = DOMAIN steps
             /\ \A k \in DOMAIN steps : actions[k] = ActionFor(registry, steps[k])
<1> DEFINE n == Len(steps)
           kept == {k \in DOMAIN steps : Meaningful(registry, steps[k])}
           upto(k) == {j \in kept : j <= k}
           Nth(m) == CHOOSE k \in kept : Cardinality(upto(k)) = m
           actions == [m \in 1..Cardinality(kept) |-> ActionFor(registry, steps[Nth(m)])]
<1>1. n \in Nat /\ DOMAIN steps = 1..n
  OBVIOUS
<1>2. kept = 1..n
  BY <1>1
<1>3. Cardinality(kept) = n
  <2> HIDE DEF n, kept
  <2> QED BY <1>1, <1>2, OneTo
<1>4. ASSUME NEW k \in kept PROVE Cardinality(upto(k)) = k
  <2>1. k \in Nat /\ upto(k) = 1..k
    BY <1>1, <1>2
  <2> HIDE DEF upto
  <2> QED BY <2>1, OneTo
<1>5. ASSUME NEW m \in 1..n PROVE Nth(m) = m
  <2>1. m \in kept /\ Cardinality(upto(m)) = m
    BY <1>2, <1>4
  <2>2. \A k \in kept : Cardinality(upto(k)) = m => k = m
    BY <1>4
  <2> HIDE DEF kept, upto
  <2> QED BY <2>1, <2>2
<1>6. resolve_steps(registry, steps) = actions
  BY DEF resolve_steps
<1>7. actions = [m \in 1..n |-> ActionFor(registry, steps[m])]
  <2>1. \A m \in 1..n : ActionFor(registry, steps[Nth(m)]) = ActionFor(registry, steps[m])
    BY <1>5
  <2> HIDE DEF kept, n, Nth
  <2> QED BY <1>3, <2>1
<1> HIDE DEF n, actions
<1>8. Len(actions) = n /\ DOMAIN actions = 1..n
  BY <1>1, <1>7
<1> QED BY <1>1, <1>6, <1>7, <1>8 DEF n

\* What a template is made into, if anything, is allowed and within the limit.
LEMMA TemplateSafe ==
  ASSUME NEW registry \in Registries, NEW monitoring
  PROVE  LET plan == template_plan(registry, monitoring)
         IN  ToSet(plan) \subseteq registry.actions /\ WithinLimit(registry, plan)
<1>1. registry.limit \in Int
  BY PlannerAssumption
<1>2. ToSet(NoPlan) \subseteq registry.actions /\ WithinLimit(registry, NoPlan)
  BY <1>1 DEF NoPlan, ToSet, WithinLimit
<1>3. \A actions : validate_actions(registry, actions)
                     => ToSet(actions) \subseteq registry.actions /\ WithinLimit(registry, actions)
  BY DEF validate_actions, ToSet, allowed_actions
<1> QED BY <1>2, <1>3 DEF template_plan

\* Whatever a model proposes, under every registry the plan is sound: allowed actions
\* within the limit; proposed steps that all stand for something and are not too many are
\* taken one by one, each by an action of the kind its word prefers; any others leave
\* nothing behind (GraphPlanner, LLMGraphPlanner.plan_graph).
THEOREM PlansAreSound ==
  ASSUME NEW request, request.registry \in Registries, request.proposal \in Proposals
  PROVE  Sound(request, plan_graph(request.registry, request.monitoring, request.proposal))
<1> DEFINE registry == request.registry
           proposal == request.proposal
           steps    == proposal.steps
           plan     == plan_graph(registry, request.monitoring, proposal)
           template == template_plan(registry, request.monitoring)
           taken    == /\ proposal.kind \notin {"none", "other"}
                       /\ steps # <<>>
                       /\ WithinLimit(registry, steps)
                       /\ \A k \in DOMAIN steps : \E a \in registry.actions : Serves(registry, a, steps[k])
           actions  == resolve_steps(registry, extract_steps(proposal))
<1>0. ASSUME NEW p
      PROVE  Sound(request, p) <=>
               /\ ToSet(p) \subseteq registry.actions
               /\ WithinLimit(registry, p)
               /\ taken => /\ Len(p) = Len(steps)
                           /\ \A k \in DOMAIN steps : Serves(registry, p[k], steps[k])
               /\ ~taken => p = template
  BY DEF Sound
<1>1. steps \in Seq(STRING) /\ proposal.kind \in {"none", "list", "object", "text", "other"}
  BY PlannerAssumption DEF Proposals
<1>2. plan = IF /\ validate_semantic_steps(registry, extract_steps(proposal))
                /\ validate_actions(registry, actions)
                /\ Len(actions) = Len(extract_steps(proposal))
             THEN actions ELSE template
  BY DEF plan_graph
<1>3. CASE taken
  <2>1. extract_steps(proposal) = steps
    BY <1>1, <1>3 DEF extract_steps
  <2>2. \A k \in DOMAIN steps : Meaningful(registry, steps[k])
    BY <1>3, ActionServes
  <2>3. validate_semantic_steps(registry, steps)
    BY <1>3, <2>2 DEF validate_semantic_steps
  <2>4. /\ Len(actions) = Len(steps)
        /\ DOMAIN actions = DOMAIN steps
        /\ \A k \in DOMAIN steps : actions[k] = ActionFor(registry, steps[k])
    BY <1>1, <2>1, <2>2, AllTaken
  <2>5. \A k \in DOMAIN steps : /\ actions[k] \in registry.actions
                                /\ Serves(registry, actions[k], steps[k])
    BY <2>2, <2>4, ActionServes
  <2> HIDE DEF actions
  <2>6. WithinLimit(registry, actions)
    BY <1>3, <2>4 DEF WithinLimit
  <2>7. validate_actions(registry, actions)
    BY <2>4, <2>5, <2>6 DEF validate_actions, allowed_actions
  <2>8. plan = actions
    BY <1>2, <2>1, <2>3, <2>4, <2>7
  <2>9. ToSet(plan) \subseteq registry.actions
    BY <2>4, <2>5, <2>8 DEF ToSet
  <2> HIDE DEF plan, taken
  <2>10. Sound(request, plan)
    BY <1>0, <1>3, <2>4, <2>5, <2>6, <2>8, <2>9
  <2> QED BY <2>10 DEF plan
<1>4. CASE ~taken
  <2>1. ~validate_semantic_steps(registry, extract_steps(proposal))
    <3> SUFFICES ASSUME validate_semantic_steps(registry, extract_steps(proposal)) PROVE FALSE
      OBVIOUS
    <3>1. extract_steps(proposal) # <<>>
      BY DEF validate_semantic_steps
    <3>2. extract_steps(proposal) = steps /\ proposal.kind \notin {"none", "other"}
      BY <3>1 DEF extract_steps
    <3>3. /\ WithinLimit(registry, steps)
          /\ \A k \in DOMAIN steps : Meaningful(registry, steps[k])
      BY <3>2 DEF validate_semantic_steps
    <3>4. \A k \in DOMAIN steps : \E a \in registry.actions : Serves(registry, a, steps[k])
      BY <3>3, ActionServes
    <3> QED BY <1>4, <3>1, <3>2, <3>3, <3>4
  <2>2. plan = template
    BY <1>2, <2>1
  <2>3. ToSet(template) \subseteq registry.actions /\ WithinLimit(registry, template)
    BY TemplateSafe
  <2> HIDE DEF plan, template, taken
  <2>4. Sound(request, plan)
    BY <1>0, <1>4, <2>2, <2>3
  <2> QED BY <2>4 DEF plan
<1> QED BY <1>3, <1>4

-----------------------------------------------------------------------------
(* Planned graphs in the kernel *)

\* No request is planned unsoundly.
LEMMA RequestsSound == \A request \in Requests : Sound(request, PlanFor(request))
<1> SUFFICES ASSUME NEW request \in Requests PROVE Sound(request, PlanFor(request))
  OBVIOUS
<1>1. request.registry \in Registries /\ request.proposal \in Proposals
  BY DEF Requests
<1> QED BY <1>1, PlansAreSound DEF PlanFor

\* A planned graph in the kernel is never one that is unsound for the request it could have
\* come from (handle_intent).
THEOREM PlansStaySafe == Spec => []PlansAreSafe
<1>1. UnsoundBodies = {}
  BY RequestsSound DEF UnsoundBodies
<1>2. PlansAreSafe
  BY <1>1 DEF PlansAreSafe
<1> QED BY <1>2, PTL

\* Under an id of the planner's own the kernel holds and runs nothing but sound plans,
\* whatever is launched, resumed or lost in a restart (handle_intent, handle_job_finished).
THEOREM RunsArePlans ==
  ASSUME PlansOnly
  PROVE  Spec => []PlannedRunsArePlans
<1>1. ASSUME TInv, GraphsKnown PROVE PlannedRunsArePlans
  <2> SUFFICES ASSUME NEW id \in PlannedIds \ (Versions \union FileGraphs \union {FamilyName})
               PROVE  /\ graphs[id] # NoBody => graphs[id] \in SoundBodies
                      /\ call # Idle /\ call.run.graph = id => call.body \in SoundBodies
    BY DEF PlannedRunsArePlans
  <2>1. id \in GraphIds
    BY KernelAssumption
  <2>2. BodiesOf(id) \subseteq PlannedBodies
    BY DEF BodiesOf
  <2>3. PlannedBodies \subseteq SoundBodies
    BY RequestsSound DEF PlansOnly, SoundBodies
  <2> QED BY <1>1, <2>1, <2>2, <2>3 DEF GraphsKnown
<1>2. Init => GraphsKnown
  BY DEF Init, LoadedGraphs, GraphsKnown, BodiesOf
<1>3. TInv /\ GraphsKnown /\ [Next]_vars => GraphsKnown'
  BY KnownStep
<1> QED BY <1>1, <1>2, <1>3, TInvHolds, PTL DEF Spec

\* Plans number their nodes from the first, so two plans under one id have the same nodes
\* before any node they share (GraphPlanner.plan_graph, LLMGraphPlanner.plan_graph).
LEMMA PlansKeepPlace ==
  ASSUME PlansOnly, NEW b \in PlannedBodies, NEW c \in PlannedBodies,
         NEW i \in DOMAIN b, NEW j \in DOMAIN c, b[i].id = c[j].id
  PROVE  i = j /\ \A k \in 1..i : b[k].id = c[k].id
<1>1. \A body \in PlannedBodies : \A k \in DOMAIN body : body[k].id = Positions[k]
  <2>1. ASSUME NEW request \in Requests, NEW k \in DOMAIN NodesOf(request)
        PROVE  NodesOf(request)[k].id = Positions[k]
    BY DEF NodesOf
  <2> QED BY <2>1 DEF PlansOnly
<1>2. i \in DOMAIN Positions /\ j \in DOMAIN Positions
  BY PositionsAssumption
<1>3. i = j
  BY <1>1, <1>2, PositionsAssumption
<1>4. /\ Len(b) \in Nat /\ DOMAIN b = 1..Len(b)
      /\ Len(c) \in Nat /\ DOMAIN c = 1..Len(c)
  BY KernelAssumption DEF GraphBody
<1>5. \A k \in 1..i : k \in DOMAIN b /\ k \in DOMAIN c
  BY <1>3, <1>4
<1> QED BY <1>1, <1>3, <1>5

\* Where ids are kept apart every graph keeps its jobs in place: a file is one graph, and
\* plans keep place.
LEMMA IdsKeepPlace ==
  ASSUME PlansOnly, IdsApart
  PROVE  JobsKeepPlace
<1> SUFFICES ASSUME NEW g \in GraphIds, NEW b \in BodiesOf(g), NEW c \in BodiesOf(g),
                    NEW i \in DOMAIN b, NEW j \in DOMAIN c, b[i].id = c[j].id
             PROVE  i = j /\ \A k \in 1..i : b[k].id = c[k].id
  BY DEF JobsKeepPlace
<1>1. CASE g \in PlannedIds
  <2>1. b \in PlannedBodies /\ c \in PlannedBodies
    BY <1>1 DEF BodiesOf, IdsApart
  <2> QED BY <2>1, PlansKeepPlace
<1>2. CASE g \notin PlannedIds
  <2>1. b = c
    BY <1>2 DEF BodiesOf, IdsApart
  <2>2. GraphBody(b)
    BY BodiesFact
  <2> QED BY <2>1, <2>2 DEF GraphBody
<1> QED BY <1>1, <1>2

\* Where ids are kept apart the nodes of a run are executed in the graph's order, whatever is
\* planned and however jobs, restarts and new plans of an id fall (run_once,
\* handle_job_finished).
THEOREM PlannedRunsInOrder ==
  PlansOnly /\ IdsApart => (Spec => []SerialOrder)
BY IdsKeepPlace, SerialExecution

=============================================================================
