----------------------- MODULE SchedulerPolicyProofs -----------------------
(***************************************************************************)
(* Theorems about SchedulerPolicy: a stop is recommended after quiet only, *)
(* and every observation is used once.                                     *)
(***************************************************************************)
EXTENDS SchedulerPolicy, SequenceTheorems, TLAPS

Policies == [state : {"none", "empty", "running", "stopped", "other"},
             by : {"nobody", "clawx", "operator"}, at : Nat, engine : Nat]

Types ==
  /\ clock \in Times
  /\ anomalies \in [Times -> Nat]
  /\ evidence \in [Times -> Nat]
  /\ observed \in Nat
  /\ engine \in [number : Nat, events : Nat, observations : Nat]
  /\ emitted \in [{Anomaly, Pattern, LowClaim} -> Nat]
  /\ raised \in BOOLEAN
  /\ file \in Policies
  /\ writing \in Policies

\* A policy is decided by now, by an engine there has been; a stop of the living engine
\* had a quiet window before it.
Founded(policy) ==
  /\ policy.at <= clock /\ policy.engine <= engine.number
  /\ policy.state = "stopped" /\ policy.by = "clawx" /\ policy.engine = engine.number =>
       \A t \in Times : t < policy.at /\ policy.at - t < QuietWindow => anomalies[t] = 0

\* The file, and what is on its way into the file.
BothFounded == Founded(file) /\ Founded(writing)

\* No more observations wait than a pattern needs.
Counted ==
  ~raised =>
    /\ engine.observations = MinimumEvents * emitted[Pattern] + observed
    /\ observed < MinimumEvents

PolicyInv == Types /\ BothFounded /\ Counted

-----------------------------------------------------------------------------
(* The engine's step *)

\* The signals of an event, and whether one of them is a pattern.
LEMMA SignalsSent ==
  ASSUME NEW e \in Events
  PROVE  /\ SignalsOf(e) \in Seq({Anomaly, Pattern, LowClaim})
         /\ (\E k \in 1..Len(SignalsOf(e)) : SignalsOf(e)[k] = Pattern)
              <=> e \in Observations /\ Supports(observed + 1)
<1> DEFINE first == IF e = "anomaly" THEN <<Anomaly>> ELSE <<>>
           second == IF e \in Observations /\ Supports(observed + 1) THEN <<Pattern>> ELSE <<>>
           third == IF e = "low_confidence" THEN <<LowClaim>> ELSE <<>>
           S == {Anomaly, Pattern, LowClaim}
<1>1. Anomaly # Pattern /\ Pattern # LowClaim
  BY DEF Anomaly, Pattern, LowClaim
<1>2. first \in Seq(S) /\ second \in Seq(S) /\ third \in Seq(S)
  <2>1. <<>> \in Seq(S) /\ <<Anomaly>> \in Seq(S) /\ <<Pattern>> \in Seq(S) /\ <<LowClaim>> \in Seq(S)
    OBVIOUS
  <2> QED BY <2>1
<1>3. SignalsOf(e) = (first \o second) \o third
  BY DEF SignalsOf
<1>4. CASE e = "anomaly"
  <2>1. first = <<Anomaly>> /\ third = <<>> /\ e \in Observations
    BY <1>4 DEF Observations
  <2>2. CASE Supports(observed + 1)
    <3>1. second = <<Pattern>>
      BY <2>1, <2>2
    <3>2. <<Anomaly>> \in Seq(S) /\ <<Pattern>> \in Seq(S)
      OBVIOUS
    <3>3. Len(<<Anomaly>>) = 1 /\ Len(<<Pattern>>) = 1 /\ <<Pattern>>[1] = Pattern
      OBVIOUS
    <3> HIDE DEF S
    <3>4. /\ <<Anomaly>> \o <<Pattern>> \in Seq(S)
          /\ Len(<<Anomaly>> \o <<Pattern>>) = 2
          /\ (<<Anomaly>> \o <<Pattern>>)[2] = Pattern
      BY <3>2, <3>3, ConcatProperties
    <3>5. SignalsOf(e) = <<Anomaly>> \o <<Pattern>>
      BY <1>3, <2>1, <3>1, <3>4, ConcatEmptySeq
    <3>6. SignalsOf(e) \in Seq(S) /\ 2 \in 1..Len(SignalsOf(e)) /\ SignalsOf(e)[2] = Pattern
      BY <3>4, <3>5
    <3> QED BY <2>1, <2>2, <3>6 DEF S
  <2>3. CASE ~Supports(observed + 1)
    <3>1. SignalsOf(e) = (<<Anomaly>> \o <<>>) \o <<>>
      BY <1>3, <2>1, <2>3
    <3>2. SignalsOf(e) = <<Anomaly>>
      BY <3>1
    <3> QED BY <1>1, <2>3, <3>2
  <2> QED BY <2>2, <2>3
<1>5. CASE e = "observation"
  <2>1. first = <<>> /\ third = <<>> /\ e \in Observations
    BY <1>5 DEF Observations
  <2>2. CASE Supports(observed + 1)
    <3>1. SignalsOf(e) = (<<>> \o <<Pattern>>) \o <<>>
      BY <1>3, <2>1, <2>2
    <3>2. SignalsOf(e) = <<Pattern>>
      BY <3>1
    <3>3. 1 \in 1..Len(SignalsOf(e)) /\ SignalsOf(e)[1] = Pattern
      BY <3>2
    <3> QED BY <2>1, <2>2, <3>2, <3>3
  <2>3. CASE ~Supports(observed + 1)
    <3>1. SignalsOf(e) = <<>>
      BY <1>3, <2>1, <2>3
    <3> QED BY <2>3, <3>1
  <2> QED BY <2>2, <2>3
<1>6. CASE e \in {"claim", "low_confidence"}
  <2>1. first = <<>> /\ second = <<>> /\ e \notin Observations
    BY <1>6 DEF Observations
  <2>2. SignalsOf(e) = third
    BY <1>2, <1>3, <2>1
  <2>3. third = <<>> \/ third = <<LowClaim>>
    OBVIOUS
  <2> QED BY <1>1, <1>2, <2>1, <2>2, <2>3
<1> QED BY <1>4, <1>5, <1>6 DEF Events, Observations

\* An event leaves the count of the observations right, unless it raises.
LEMMA EventCounts ==
  ASSUME PolicyInv, NEW e \in Events, NEW timed \in BOOLEAN, NEW failing \in 1..3,
         ProcessEvent(e, timed, failing)
  PROVE  Counted'
<1> DEFINE signals == SignalsOf(e)
           sent == {signals[k] : k \in {j \in 1..Len(signals) : j < failing}}
<1>1. /\ engine' = [engine EXCEPT !.events = @ + 1,
                                  !.observations = IF e \in Observations THEN @ + 1 ELSE @]
      /\ observed' = ObservedAfter(e, sent)
      /\ emitted' = [s \in DOMAIN emitted |-> IF s \in sent THEN emitted[s] + 1 ELSE emitted[s]]
      /\ raised' = (raised \/ failing \in 1..Len(signals))
  BY DEF ProcessEvent
<1> SUFFICES ASSUME ~raised'
             PROVE  /\ engine'.observations = MinimumEvents * emitted'[Pattern] + observed'
                    /\ observed' < MinimumEvents
  BY DEF Counted
<1>2. ~raised /\ failing \notin 1..Len(signals)
  BY <1>1 DEF PolicyInv, Types
<1>3. /\ engine.observations = MinimumEvents * emitted[Pattern] + observed
      /\ observed < MinimumEvents
  BY <1>2 DEF PolicyInv, Counted
<1>4. Len(signals) \in Nat
  BY SignalsSent
<1>5. Pattern \in sent <=> e \in Observations /\ Supports(observed + 1)
  <2>1. \A k \in 1..Len(signals) : k < failing
    BY <1>2, <1>4
  <2> QED BY <2>1, SignalsSent
<1>6. /\ engine'.observations = IF e \in Observations THEN engine.observations + 1
                                                      ELSE engine.observations
      /\ emitted'[Pattern] = IF Pattern \in sent THEN emitted[Pattern] + 1 ELSE emitted[Pattern]
  BY <1>1 DEF PolicyInv, Types
<1>7. /\ MinimumEvents \in Nat /\ observed \in Nat /\ emitted[Pattern] \in Nat
      /\ MinimumEvents > 0
  BY PolicyAssumption DEF PolicyInv, Types
<1> HIDE DEF sent, signals
<1>8. CASE e \notin Observations
  BY <1>1, <1>3, <1>5, <1>6, <1>8 DEF ObservedAfter
<1>9. CASE e \in Observations /\ Supports(observed + 1)
  <2>1. observed' = 0 /\ emitted'[Pattern] = emitted[Pattern] + 1
    BY <1>1, <1>5, <1>6, <1>9 DEF ObservedAfter
  <2>2. observed + 1 = MinimumEvents
    BY <1>3, <1>7, <1>9 DEF Supports
  <2>3. MinimumEvents * (emitted[Pattern] + 1) = MinimumEvents * emitted[Pattern] + MinimumEvents
    BY <1>7
  <2>4. MinimumEvents * emitted[Pattern] \in Nat
    BY <1>7
  <2> QED BY <1>3, <1>6, <1>7, <1>9, <2>1, <2>2, <2>3, <2>4
<1>10. CASE e \in Observations /\ ~Supports(observed + 1)
  <2>1. observed' = observed + 1 /\ emitted'[Pattern] = emitted[Pattern]
    BY <1>1, <1>5, <1>6, <1>10 DEF ObservedAfter
  <2>2. observed + 1 < MinimumEvents
    BY <1>7, <1>10 DEF Supports
  <2>3. MinimumEvents * emitted[Pattern] \in Nat
    BY <1>7
  <2> QED BY <1>3, <1>6, <1>7, <1>10, <2>1, <2>2, <2>3
<1> QED BY <1>8, <1>9, <1>10

\* What an event advises is founded.
LEMMA EventFounded ==
  ASSUME PolicyInv, NEW e \in Events, NEW timed \in BOOLEAN, NEW failing \in 1..3,
         ProcessEvent(e, timed, failing)
  PROVE  Types' /\ BothFounded'
<1> DEFINE signals == SignalsOf(e)
           sent == {signals[k] : k \in {j \in 1..Len(signals) : j < failing}}
           seen == IF Anomaly \in sent THEN [anomalies EXCEPT ![clock] = @ + 1] ELSE anomalies
           known == IF timed THEN [evidence EXCEPT ![clock] = @ + 1] ELSE evidence
           advice == IF failing \in 1..Len(signals) THEN "none" ELSE Evaluate(seen, known, clock)
           decided == [state |-> advice, by |-> "clawx", at |-> clock, engine |-> engine.number]
           empty == [Nothing EXCEPT !.state = "empty"]
<1>1. /\ engine' = [engine EXCEPT !.events = @ + 1,
                                  !.observations = IF e \in Observations THEN @ + 1 ELSE @]
      /\ anomalies' = seen
      /\ evidence' = known
      /\ observed' = ObservedAfter(e, sent)
      /\ emitted' = [s \in DOMAIN emitted |-> IF s \in sent THEN emitted[s] + 1 ELSE emitted[s]]
      /\ raised' = (raised \/ failing \in 1..Len(signals))
      /\ clock' = clock
  BY DEF ProcessEvent
<1>2. \/ file' = file /\ writing' = writing
      \/ file' = empty /\ writing' = decided
  BY DEF ProcessEvent, policyVars
<1>3. advice = "none" \/ advice = "running" \/ (advice = "stopped" /\ QuietPeriod(seen, clock))
  BY DEF Evaluate
<1>4. clock \in Times /\ clock \in Nat /\ engine.number \in Nat
  BY PolicyAssumption DEF PolicyInv, Types, Times
<1>5. seen \in [Times -> Nat] /\ known \in [Times -> Nat]
  <2>1. anomalies \in [Times -> Nat] /\ evidence \in [Times -> Nat]
    BY DEF PolicyInv, Types
  <2>2. /\ [anomalies EXCEPT ![clock] = @ + 1] \in [Times -> Nat]
        /\ [evidence EXCEPT ![clock] = @ + 1] \in [Times -> Nat]
    BY <1>4, <2>1
  <2> HIDE DEF sent
  <2> QED BY <2>1, <2>2
<1>6. \A t \in Times : t # clock => seen[t] = anomalies[t]
  BY DEF PolicyInv, Types
<1>7. engine' \in [number : Nat, events : Nat, observations : Nat] /\ engine'.number = engine.number
  <2>1. engine \in [number : Nat, events : Nat, observations : Nat]
    BY DEF PolicyInv, Types
  <2>2. engine'.observations \in Nat /\ engine'.events \in Nat
    BY <1>1, <2>1
  <2>3. engine' \in [number : Nat, events : Nat, observations : Nat]
    BY <1>1, <2>1, <2>2
  <2>4. engine'.number = engine.number
    BY <1>1, <2>1
  <2> QED BY <2>3, <2>4
<1>8. emitted' \in [{Anomaly, Pattern, LowClaim} -> Nat]
  <2>1. emitted \in [{Anomaly, Pattern, LowClaim} -> Nat]
    BY DEF PolicyInv, Types
  <2> QED BY <1>1, <2>1
<1>9. observed' \in Nat /\ raised' \in BOOLEAN
  BY <1>1 DEF PolicyInv, Types, ObservedAfter
<1>10. empty \in Policies /\ decided \in Policies
  BY <1>3, <1>4 DEF Nothing, Policies
<1>11. Types'
  BY <1>1, <1>2, <1>4, <1>5, <1>7, <1>8, <1>9, <1>10 DEF PolicyInv, Types
<1>12. ASSUME NEW policy \in Policies, Founded(policy)
       PROVE  /\ policy.at <= clock /\ policy.engine <= engine.number
              /\ policy.state = "stopped" /\ policy.by = "clawx"
                   /\ policy.engine = engine.number =>
                   \A t \in Times : t < policy.at /\ policy.at - t < QuietWindow => seen[t] = 0
  BY <1>4, <1>6, <1>12 DEF Founded, Policies, Times
<1>13. CASE file' = file /\ writing' = writing
  <2>1. /\ file \in Policies /\ writing \in Policies
        /\ Founded(file) /\ Founded(writing)
    BY DEF PolicyInv, Types, BothFounded
  <2> HIDE DEF seen
  <2>2. Founded(file)' /\ Founded(writing)'
    BY <1>1, <1>7, <1>12, <1>13, <2>1 DEF Founded
  <2> QED BY <1>11, <2>2 DEF BothFounded
<1>14. CASE file' = empty /\ writing' = decided
  <2>1. Founded(file)'
    BY <1>1, <1>4, <1>7, <1>14 DEF Founded, Nothing
  <2>2. Founded(writing)'
    <3>1. writing'.at = clock /\ writing'.engine = engine.number /\ writing'.state = advice
      BY <1>14
    <3>2. advice = "stopped" =>
            \A t \in Times : t < clock /\ clock - t < QuietWindow => seen[t] = 0
      BY <1>3, <1>4 DEF QuietPeriod, Times
    <3> HIDE DEF advice, seen
    <3> QED BY <1>1, <1>4, <1>7, <3>1, <3>2 DEF Founded
  <2> QED BY <1>11, <2>1, <2>2 DEF BothFounded
<1> QED BY <1>2, <1>11, <1>13, <1>14

-----------------------------------------------------------------------------
(* The other steps, and the theorems *)

LEMMA InitPolicy == Init => PolicyInv
<1> SUFFICES ASSUME Init PROVE PolicyInv
  OBVIOUS
<1>1. 0 \in Times
  BY PolicyAssumption DEF Times
<1>2. Types
  BY <1>1 DEF Init, Types, NewEngine, NoSignals, Policies, Nothing
<1>3. BothFounded
  BY <1>1 DEF Init, BothFounded, Founded, Nothing, NewEngine
<1>4. Counted
  BY PolicyAssumption DEF Init, Counted, NewEngine, NoSignals
<1> QED BY <1>2, <1>3, <1>4 DEF PolicyInv

\* A policy stays founded when time passes, and all of them are when an engine is new.
LEMMA NextPolicy == PolicyInv /\ [Next]_vars => PolicyInv'
<1> SUFFICES ASSUME PolicyInv, [Next]_vars PROVE PolicyInv'
  OBVIOUS
<1> USE DEF PolicyInv
<1>1. CASE UNCHANGED <<historyVars, policyVars, clock>>
  BY <1>1 DEF Types, BothFounded, Founded, Counted, historyVars, policyVars
<1>2. CASE Tick
  <2>1. clock' = clock + 1 /\ clock' \in Times /\ clock \in Nat
    BY <1>2, PolicyAssumption DEF Tick, Types, Times
  <2>2. UNCHANGED <<anomalies, evidence, observed, engine, emitted, raised, file, writing>>
    BY <1>2 DEF Tick, historyVars, policyVars
  <2>3. Types' /\ Counted'
    BY <2>1, <2>2 DEF Types, Counted
  <2>4. file.at \in Nat /\ writing.at \in Nat
    BY DEF Types, Policies
  <2>5. BothFounded'
    BY <2>1, <2>2, <2>4 DEF BothFounded, Founded
  <2> QED BY <2>3, <2>5
<1>3. ASSUME NEW e \in Events, NEW timed \in BOOLEAN, NEW failing \in 1..3,
             ProcessEvent(e, timed, failing)
      PROVE  PolicyInv'
  BY <1>3, EventCounts, EventFounded
<1>4. CASE FinishWrite
  <2>1. /\ file' = writing /\ writing' = Nothing
        /\ UNCHANGED <<clock, anomalies, evidence, observed, engine, emitted, raised>>
    BY <1>4 DEF FinishWrite, historyVars
  <2>2. clock \in Nat /\ engine.number \in Nat
    BY PolicyAssumption DEF Types, Times
  <2>3. Types' /\ Counted'
    BY <2>1 DEF Types, Counted, Nothing, Policies
  <2>4. BothFounded'
    BY <2>1, <2>2 DEF BothFounded, Founded, Nothing
  <2> QED BY <2>3, <2>4
<1>5. CASE RestartEngine
  <2>1. /\ engine' = NewEngine(engine.number + 1) /\ writing' = Nothing /\ file' = file
        /\ clock' = clock /\ raised' = FALSE /\ observed' = 0 /\ emitted' = NoSignals
        /\ anomalies' = [t \in Times |-> 0] /\ evidence' = [t \in Times |-> 0]
    BY <1>5 DEF RestartEngine
  <2>2. engine.number \in Nat /\ clock \in Nat /\ file.engine \in Nat
    BY PolicyAssumption DEF Types, Times, Policies
  <2>3. Types'
    <3>1. NewEngine(engine.number + 1) \in [number : Nat, events : Nat, observations : Nat]
      BY <2>2 DEF NewEngine
    <3>2. Nothing \in Policies /\ NoSignals \in [{Anomaly, Pattern, LowClaim} -> Nat]
      BY DEF Nothing, Policies, NoSignals
    <3> QED BY <2>1, <3>1, <3>2 DEF Types
  <2>4. BothFounded'
    BY <2>1, <2>2 DEF BothFounded, Founded, NewEngine, Nothing
  <2>5. Counted'
    BY <2>1, PolicyAssumption DEF Counted, NewEngine, NoSignals
  <2> QED BY <2>3, <2>4, <2>5
<1>6. ASSUME NEW state \in {"running", "stopped", "other"}, OperatorEdits(state)
      PROVE  PolicyInv'
  <2>1. /\ file' = [Nothing EXCEPT !.state = state, !.by = "operator"] /\ writing' = writing
        /\ UNCHANGED <<clock, anomalies, evidence, observed, engine, emitted, raised>>
    BY <1>6 DEF OperatorEdits, historyVars
  <2>2. clock \in Nat /\ engine.number \in Nat
    BY PolicyAssumption DEF Types, Times
  <2>3. Types' /\ Counted'
    BY <2>1 DEF Types, Counted, Nothing, Policies
  <2>4. BothFounded'
    BY <2>1, <2>2 DEF BothFounded, Founded, Nothing
  <2> QED BY <2>3, <2>4
<1>7. CASE LaunchService \/ ServiceEnds \/ RestartDaemon \/ DaemonStep \/ UNCHANGED vars
  BY <1>1, <1>7 DEF LaunchService, ServiceEnds, RestartDaemon, DaemonStep, LoadPolicy,
     LoadPolicyRaises, AskStatus, Command, CommandFails, vars
<1> QED BY <1>2, <1>3, <1>4, <1>5, <1>6, <1>7 DEF Next

LEMMA PolicyInvariant == Spec => []PolicyInv
<1> QED BY InitPolicy, NextPolicy, PTL DEF Spec

\* A stop the living engine recommended had no anomaly of its own in the quiet window
\* before it, however long ago it was written (_quiet_period, recommend_stop).
THEOREM StopsFollowQuiet == Spec => []StopOnlyQuiet
<1>1. PolicyInv => StopOnlyQuiet
  BY DEF PolicyInv, BothFounded, Founded, StopOnlyQuiet
<1> QED BY <1>1, PolicyInvariant, PTL

\* An observation goes into one pattern, or waits, as long as no signal engine raised
\* (HypothesisBuilder.build, process_event).
THEOREM EachObservationOnce == Spec => []ObservationsCounted
<1>1. PolicyInv => ObservationsCounted
  BY DEF PolicyInv, Counted, ObservationsCounted
<1> QED BY <1>1, PolicyInvariant, PTL

=============================================================================
