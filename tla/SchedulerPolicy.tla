-------------------------- MODULE SchedulerPolicy --------------------------
(***************************************************************************)
(* The scheduler policy: the ClawX engine (modules/clawx_engine) processes *)
(* evidence events, emits signals and, after each event, may rewrite       *)
(* vault/policy/scheduler_policy.json; the policy daemon                   *)
(* (tools/tkai_policy_daemon.py) reads that file, asks systemd for the     *)
(* state of the scheduler's service and starts or stops it.  Operators     *)
(* edit the file, and the launcher (tools/tkai_launch.py) starts the       *)
(* service whatever the file says.                                         *)
(*                                                                         *)
(* The engine's histories live in its memory.  The file is rewritten in    *)
(* place: between the truncation and the write a reader finds it empty,    *)
(* and the daemon, which catches nothing, ends.  Time is counted in ticks; *)
(* of an event there is left whether it is an anomaly, a low-confidence    *)
(* claim, and whether it carries a time.                                   *)
(***************************************************************************)
EXTENDS Integers, Sequences, FiniteSetsExt

CONSTANTS AnomalyThreshold, AnomalyWindow,   \* the rules' parameters, in events and ticks
          EvidenceThreshold, EvidenceWindow,
          QuietWindow,
          MinimumEvents,                     \* HypothesisBuilder's
          MaxTime,                           \* bound: ticks
          MaxEvents,                         \* bound: events of an engine
          MaxEngines                         \* bound: engine processes

ASSUME PolicyAssumption ==
  /\ AnomalyThreshold \in Nat \ {0} /\ EvidenceThreshold \in Nat \ {0}
  /\ AnomalyWindow \in Nat /\ EvidenceWindow \in Nat /\ QuietWindow \in Nat
  /\ AnomalyWindow <= QuietWindow
  /\ MinimumEvents \in Nat \ {0}
  /\ MaxTime \in Nat /\ MaxEvents \in Nat /\ MaxEngines \in Nat \ {0}

Times == 0..MaxTime

VARIABLES clock,     \* the time
          anomalies, \* _signal_history: the anomaly signals of each tick
          evidence,  \* _evidence_history: the events of each tick that carry their time
          observed,  \* _recent_observations, by their number
          engine,    \* the engine process, its events so far, the observations among them
          emitted,   \* history: the engine's signals, by type
          raised,    \* history: a signal engine raised
          file,      \* the policy file: its state, its writer and when it was decided
          writing,   \* what the engine is writing into the truncated file
          daemon,    \* where apply_policy is, and what it read
          running    \* the scheduler's service

historyVars == <<anomalies, evidence, observed, engine, emitted, raised>>
policyVars  == <<file, writing>>
vars        == <<clock, historyVars, policyVars, daemon, running>>

Anomaly == "funding_rate_anomaly"
Pattern == "funding_pattern_detected"
LowClaim == "low_confidence_claim"

Observations == {"anomaly", "observation"}
Events       == Observations \cup {"claim", "low_confidence"}

Nothing == [state |-> "none", by |-> "nobody", at |-> 0, engine |-> 0]
Asleep  == [pc |-> "asleep", desired |-> "none"]

NewEngine(n) == [number |-> n, events |-> 0, observations |-> 0]

NoSignals == [s \in {Anomaly, Pattern, LowClaim} |-> 0]

Init ==
  /\ clock = 0
  /\ anomalies = [t \in Times |-> 0]
  /\ evidence = [t \in Times |-> 0]
  /\ observed = 0
  /\ engine = NewEngine(1)
  /\ emitted = NoSignals
  /\ raised = FALSE
  /\ file = Nothing
  /\ writing = Nothing
  /\ daemon = Asleep
  /\ running = FALSE

Tick ==
  /\ clock < MaxTime
  /\ clock' = clock + 1
  /\ UNCHANGED <<historyVars, policyVars, daemon, running>>

-----------------------------------------------------------------------------
(* The rules *)

\* Entries of a history within a window before now.
Recent(history, now, window) ==
  MapThenSumSet(LAMBDA t : history[t], {t \in Times : t <= now /\ now - t < window})

\* Mutant: the quiet window is the anomaly window.
QuietBriefly(signals, now) ==
  \A t \in Times : t <= now /\ now - t < AnomalyWindow => signals[t] = 0

QuietPeriod(signals, now) ==
  \A t \in Times : t <= now /\ now - t < QuietWindow => signals[t] = 0

\* evaluate: the first rule that applies; "none" leaves the file as it is.
Evaluate(signals, events, now) ==
  CASE Recent(signals, now, AnomalyWindow) >= AnomalyThreshold -> "running"
    [] Recent(events, now, EvidenceWindow) >= EvidenceThreshold -> "running"
    [] QuietPeriod(signals, now) -> "stopped"
    [] OTHER -> "none"

-----------------------------------------------------------------------------
(* The engine *)

\* HypothesisBuilder.build.
Supports(n) == n >= MinimumEvents

\* The signals process_event emits for an event, in order.
SignalsOf(e) ==
     (IF e = "anomaly" THEN <<Anomaly>> ELSE <<>>)
  \o (IF e \in Observations /\ Supports(observed + 1) THEN <<Pattern>> ELSE <<>>)
  \o (IF e = "low_confidence" THEN <<LowClaim>> ELSE <<>>)

\* Mutant: a hypothesis does not use its observations up.
KeptAfterPattern(e, sent) == IF e \in Observations THEN observed + 1 ELSE observed

\* The observations kept: a hypothesis that was emitted uses them up.
ObservedAfter(e, sent) ==
  CASE e \notin Observations -> observed
    [] Pattern \in sent -> 0
    [] OTHER -> observed + 1

\* process_event, called by the subscriber.  The adapter hands each signal to a signal
\* engine before it is recorded; when that raises, at the signal failing, the rest of the
\* event is left out, the policy with it, and the subscriber swallows the exception.
ProcessEvent(e, timed, failing) ==
  LET signals == SignalsOf(e)
      sent    == {signals[k] : k \in {j \in 1..Len(signals) : j < failing}}
      seen    == IF Anomaly \in sent THEN [anomalies EXCEPT ![clock] = @ + 1] ELSE anomalies
      known   == IF timed THEN [evidence EXCEPT ![clock] = @ + 1] ELSE evidence
      raises  == failing \in 1..Len(signals)
      advice  == IF raises THEN "none" ELSE Evaluate(seen, known, clock)
  IN  /\ writing = Nothing
      /\ engine.events < MaxEvents
      /\ engine' = [engine EXCEPT !.events = @ + 1,
                                  !.observations = IF e \in Observations THEN @ + 1 ELSE @]
      /\ anomalies' = seen
      /\ evidence' = known
      /\ observed' = ObservedAfter(e, sent)
      /\ emitted' = [s \in DOMAIN emitted |-> IF s \in sent THEN emitted[s] + 1 ELSE emitted[s]]
      /\ raised' = (raised \/ raises)
      /\ IF advice = "none" THEN UNCHANGED policyVars
         ELSE /\ writing' = [state |-> advice, by |-> "clawx", at |-> clock,
                             engine |-> engine.number]
              /\ file' = [Nothing EXCEPT !.state = "empty"]
      /\ UNCHANGED <<clock, daemon, running>>

\* SchedulerPolicyWriter._write: the truncated file receives its text.
FinishWrite ==
  /\ writing # Nothing
  /\ file' = writing
  /\ writing' = Nothing
  /\ UNCHANGED <<clock, historyVars, daemon, running>>

\* The engine ends, perhaps within a write, and another begins with empty histories.
RestartEngine ==
  /\ engine.number < MaxEngines
  /\ engine' = NewEngine(engine.number + 1)
  /\ anomalies' = [t \in Times |-> 0]
  /\ evidence' = [t \in Times |-> 0]
  /\ observed' = 0
  /\ emitted' = NoSignals
  /\ raised' = FALSE
  /\ writing' = Nothing
  /\ UNCHANGED <<clock, file, daemon, running>>

-----------------------------------------------------------------------------
(* Operators, the policy daemon and the service *)

\* An operator edits the file; what is neither of the two states is left alone.
OperatorEdits(state) ==
  /\ writing = Nothing
  /\ file' = [Nothing EXCEPT !.state = state, !.by = "operator"]
  /\ UNCHANGED <<clock, historyVars, writing, daemon, running>>

\* tkai_launch starts the runtime, whatever the policy says.
LaunchService ==
  /\ ~running
  /\ running' = TRUE
  /\ UNCHANGED <<clock, historyVars, policyVars, daemon>>

\* The service ends by itself.
ServiceEnds ==
  /\ running
  /\ running' = FALSE
  /\ UNCHANGED <<clock, historyVars, policyVars, daemon>>

\* apply_policy loads the file.
LoadPolicy ==
  /\ daemon.pc = "asleep"
  /\ file.state \in {"running", "stopped"}
  /\ daemon' = [pc |-> "asking", desired |-> file.state]
  /\ UNCHANGED <<clock, historyVars, policyVars, running>>

\* An empty file does not parse, and main catches nothing.
LoadPolicyRaises ==
  /\ daemon.pc = "asleep"
  /\ file.state = "empty"
  /\ daemon' = [Asleep EXCEPT !.pc = "dead"]
  /\ UNCHANGED <<clock, historyVars, policyVars, running>>

Agrees(desired) == running = (desired = "running")

\* Mutant: a policy that says running is applied, one that says stopped is not.
AskStatusToStart ==
  /\ daemon.pc = "asking"
  /\ daemon' = IF running \/ daemon.desired = "stopped" THEN Asleep
               ELSE [daemon EXCEPT !.pc = "commanding"]
  /\ UNCHANGED <<clock, historyVars, policyVars, running>>

\* The service's state is asked for: nothing to do, or a command follows.
AskStatus ==
  /\ daemon.pc = "asking"
  /\ daemon' = IF Agrees(daemon.desired) THEN Asleep ELSE [daemon EXCEPT !.pc = "commanding"]
  /\ UNCHANGED <<clock, historyVars, policyVars, running>>

\* start_scheduler or stop_scheduler.
Command ==
  /\ daemon.pc = "commanding"
  /\ running' = (daemon.desired = "running")
  /\ daemon' = Asleep
  /\ UNCHANGED <<clock, historyVars, policyVars>>

\* The command fails; its return code is not looked at.
CommandFails ==
  /\ daemon.pc = "commanding"
  /\ daemon' = Asleep
  /\ UNCHANGED <<clock, historyVars, policyVars, running>>

RestartDaemon ==
  /\ daemon.pc = "dead"
  /\ daemon' = Asleep
  /\ UNCHANGED <<clock, historyVars, policyVars, running>>

-----------------------------------------------------------------------------

DaemonStep == LoadPolicy \/ LoadPolicyRaises \/ AskStatus \/ Command \/ CommandFails

Next ==
  \/ Tick
  \/ \E e \in Events, timed \in BOOLEAN, failing \in 1..3 : ProcessEvent(e, timed, failing)
  \/ FinishWrite
  \/ RestartEngine
  \/ \E state \in {"running", "stopped", "other"} : OperatorEdits(state)
  \/ LaunchService \/ ServiceEnds
  \/ DaemonStep \/ RestartDaemon

Spec == Init /\ [][Next]_vars

\* The daemon loops for ever while it lives; nothing restarts it.
FairSpec == Spec /\ WF_vars(DaemonStep)

-----------------------------------------------------------------------------
(* Properties *)

\* An engine recommends a stop only if it emitted no anomaly within the quiet window
\* before, however the other rules' windows end within it (SchedulerPolicyRules).
StopOnlyQuiet ==
  file.state = "stopped" /\ file.by = "clawx" /\ file.engine = engine.number =>
    \A t \in Times : t < file.at /\ file.at - t < QuietWindow => anomalies[t] = 0

\* Every observation is used by one pattern or kept for the next, unless the signal
\* engine raised (process_event, HypothesisBuilder).
ObservationsCounted ==
  ~raised => engine.observations = MinimumEvents * emitted[Pattern] + observed

\* Nobody but the daemon touches the service, and its commands work.
Interferes == LaunchService \/ ServiceEnds \/ CommandFails

\* A policy that stays is applied in the end, also when the daemon was at work on an
\* earlier one, as long as the daemon lives: if nobody starts or stops the service
\* besides (apply_policy).
PolicyApplied ==
  \A desired \in {"running", "stopped"} :
    /\ <>[](file.state = desired /\ daemon.pc # "dead")
    /\ <>[][~Interferes]_vars
    => <>[]Agrees(desired)

=============================================================================
