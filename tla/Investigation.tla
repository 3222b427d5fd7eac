--------------------------- MODULE Investigation ---------------------------
(***************************************************************************)
(* The investigation loop (modules/investigation_engine): a pass reads the *)
(* set of processed ids and the last lines of the signal log, has each     *)
(* signal that is not processed analysed by a model, most severe first,    *)
(* appends the evidence and rewrites the set.                              *)
(*                                                                         *)
(* Passes are run by the daemon (tools/tkai_investigation_daemon.py) while *)
(* its service is active, by missions (tools/mission_runner.py), which     *)
(* first ask whether the service is active and skip their pass if it is,   *)
(* and by hand (--once), which asks nothing.  Any of them may overlap, and *)
(* all write one file of processed ids, emptied before it is written.  The *)
(* burn-in trainer (tools/clawx_burnin.py) appends signals of its own and  *)
(* evidence for them, without a processed id.                              *)
(*                                                                         *)
(* A call of a model walks a chain of endpoints (model_router.py) and is   *)
(* retried (ollama_analyser.py); what an endpoint does at a call is not    *)
(* known beforehand.  What the evidence says is left out: a reply that     *)
(* cannot be parsed is evidence too.                                       *)
(***************************************************************************)
EXTENDS SignalLog

CONSTANTS Emitted,    \* the signals other processes emit
          WithoutId,  \* those that carry no signal_id
          Severity,   \* 1 low, 2 medium (also when absent), 3 high
          Cycle,      \* the burn-in's signal of a training cycle, then its result or failure
          Outcome,
          Window,     \* limit of read_signals
          Endpoints,  \* the route chain's endpoints are 1..Endpoints
          MaxRetries, \* MAX_RETRIES of ollama_analyser
          Missions,   \* the missions that may be under way at once
          Manual,     \* the passes started by hand that may be
          CountCap    \* bound: evidence for a signal is counted up to this, disturbances to one less

Runners == {"daemon"} \cup Missions \cup Manual

ASSUME InvestigationAssumption ==
  /\ Emitted \cup {Cycle, Outcome} \subseteq Signals
  /\ WithoutId \subseteq Emitted
  /\ Cycle \notin Emitted
  /\ Severity \in [Signals -> 1..3]
  /\ Window \in Nat \ {0}
  /\ Endpoints \in Nat
  /\ MaxRetries \in Nat \ {0}
  /\ IsFiniteSet(Missions) /\ IsFiniteSet(Manual)
  /\ "daemon" \notin Missions \cup Manual
  /\ CountCap \in Nat \ {0, 1}

VARIABLES service,   \* the investigation service is active
          pass,      \* the passes of the runners
          processed, \* the file of processed ids
          idsFile,   \* what that file is to who loads it
          evidence,  \* history: evidence records by signal
          trainer,   \* where the burn-in is
          disturbances \* history: passes cut off, and passes begun beside another

fileVars == <<processed, idsFile>>
invVars  == <<service, pass, fileVars, evidence, trainer, disturbances>>
vars     == <<logVars, invVars>>

\* A pass: where it is, the ids it believes processed, the signals before it, the attempts
\* at the first of them, and whether the service was started since its mission asked.
NoPass == [pc |-> "idle", known |-> {}, todo |-> <<>>, tries |-> 0, late |-> FALSE]

UnderWay(p) == pass[p].pc \notin {"idle", "cleared"}

\* A file that is empty or mixed does not parse.
IdsFile == {"absent", "whole", "empty", "mixed"}

\* What a write leaves of the file that write_text emptied: if another pass has written
\* since, the longer of the two may show behind the shorter.
Written == IF idsFile = "empty" THEN {"whole"} ELSE {"whole", "mixed"}

Init ==
  /\ LogInit
  /\ service = FALSE
  /\ pass = [p \in Runners |-> NoPass]
  /\ processed = {}
  /\ idsFile = "absent"
  /\ evidence = [s \in Signals |-> 0]
  /\ trainer = "idle"
  /\ disturbances = 0

OneMore(s) == evidence' = [evidence EXCEPT ![s] = IF @ < CountCap THEN @ + 1 ELSE @]

Disturbed(p) ==
  disturbances' = IF p /\ disturbances < CountCap - 1 THEN disturbances + 1 ELSE disturbances

-----------------------------------------------------------------------------
(* Other processes *)

Arrive(s) ==
  /\ Emit(s) \/ \E parses \in BOOLEAN : EmitCutShort(s, parses)
  /\ UNCHANGED invVars

StartService ==
  /\ ~service
  /\ service' = TRUE
  /\ pass' = [p \in Runners |-> [pass[p] EXCEPT !.late = p \in Missions /\ pass[p].pc # "idle"]]
  /\ UNCHANGED <<logVars, fileVars, evidence, trainer, disturbances>>

\* The service is stopped, in the middle of a pass or between two.
StopService ==
  /\ service
  /\ service' = FALSE
  /\ Disturbed(UnderWay("daemon"))
  /\ pass' = [pass EXCEPT !["daemon"] = NoPass]
  /\ UNCHANGED <<logVars, fileVars, evidence, trainer>>

\* A mission or a pass by hand is killed: within a write it leaves the file empty.
KillPass(p) ==
  /\ pass[p].pc # "idle"
  /\ Disturbed(UnderWay(p))
  /\ pass' = [pass EXCEPT ![p] = NoPass]
  /\ UNCHANGED <<logVars, service, fileVars, evidence, trainer>>

\* training_cycle appends the signal of a cycle, whose id is new.
BeginCycle ==
  /\ trainer = "idle"
  /\ Emit(Cycle)
  /\ trainer' = "asking"
  /\ UNCHANGED <<service, pass, fileVars, evidence, disturbances>>

\* The model answers: the trainer writes the evidence itself.
CycleEvidence ==
  /\ trainer = "asking"
  /\ OneMore(Cycle)
  /\ trainer' = "reporting"
  /\ UNCHANGED <<logVars, service, pass, fileVars, disturbances>>

\* The result signal, or the failure signal of a query that raised.
EndCycle ==
  /\ trainer \in {"asking", "reporting"}
  /\ Emit(Outcome)
  /\ trainer' = "done"
  /\ UNCHANGED <<service, pass, fileVars, evidence, disturbances>>

\* training_cycle
TrainerStep == BeginCycle \/ CycleEvidence \/ EndCycle

-----------------------------------------------------------------------------
(* A pass *)

Step(p, fields) == pass' = [pass EXCEPT ![p] = fields]

\* Mutant: the mission's pass is not skipped while the service is active.
CheckServiceNever(m) ==
  /\ pass[m].pc = "idle"
  /\ Step(m, [NoPass EXCEPT !.pc = "cleared"])
  /\ UNCHANGED <<logVars, service, fileVars, evidence, trainer, disturbances>>

\* run_mission: skip_if_service_active.  A step that is skipped changes nothing here.
CheckService(m) ==
  /\ pass[m].pc = "idle"
  /\ ~service
  /\ Step(m, [NoPass EXCEPT !.pc = "cleared"])
  /\ UNCHANGED <<logVars, service, fileVars, evidence, trainer, disturbances>>

MayBegin(p) ==
  IF p \in Missions THEN pass[p].pc = "cleared"
  ELSE pass[p].pc = "idle" /\ (p = "daemon" => service)

\* The mission's question keeps its pass and the daemon's apart, unless the service was
\* started after it.
KeptApart(p, q) ==
  \/ p = "daemon" /\ q \in Missions /\ ~pass[q].late
  \/ q = "daemon" /\ p \in Missions /\ ~pass[p].late

Beside(p) == \E q \in Runners \ {p} : UnderWay(q) /\ ~KeptApart(p, q)

\* run_investigation loads the ids.  A file that does not parse raises: the pass ends, and
\* the daemon sleeps and tries again.
LoadProcessed(p) ==
  /\ MayBegin(p)
  /\ idsFile \in {"absent", "whole"}
  /\ Disturbed(Beside(p))
  /\ Step(p, [pass[p] EXCEPT !.pc = "loaded", !.known = processed])
  /\ UNCHANGED <<logVars, service, fileVars, evidence, trainer>>

\* Mutant: the first lines of the log.
FirstLines == {i \in 1..Len(log) : i <= Window}

LastLines == {i \in 1..Len(log) : i > Len(log) - Window}

Unparsable == \E i \in LastLines : ~log[i].ok

\* The signals of the last lines, in the order of the log.
Recent ==
  LET first == Len(log) - Cardinality(LastLines)
  IN  [k \in 1..Cardinality(LastLines) |-> CHOOSE s \in Signals : log[first + k].holds = {s}]

\* How many signals come up to ss[i]: the more severe, and those as severe and not later.
Place(ss, i) ==
  Cardinality({j \in DOMAIN ss : \/ Severity[ss[j]] > Severity[ss[i]]
                                 \/ Severity[ss[j]] = Severity[ss[i]] /\ j <= i})

\* prioritize_signals: a stable sort.
Prioritized(ss) == [k \in DOMAIN ss |-> ss[CHOOSE i \in DOMAIN ss : Place(ss, i) = k]]

ReadWindow(p) ==
  /\ pass[p].pc = "loaded"
  /\ ~Unparsable
  /\ Step(p, [pass[p] EXCEPT !.pc = "working", !.todo = Prioritized(Recent)])
  /\ UNCHANGED <<logVars, service, fileVars, evidence, trainer, disturbances>>

\* A line that does not parse ends the pass; the daemon catches it and sleeps.
ReadWindowRaises(p) ==
  /\ pass[p].pc = "loaded"
  /\ Unparsable
  /\ Step(p, NoPass)
  /\ UNCHANGED <<logVars, service, fileVars, evidence, trainer, disturbances>>

Working(p) == pass[p].pc = "working" /\ pass[p].todo # <<>>

Current(p) == Head(pass[p].todo)

NextSignal(p) == [pass[p] EXCEPT !.pc = "working", !.todo = Tail(@), !.tries = 0]

SkipsKnown(p) == Current(p) \in pass[p].known

SkipProcessed(p) ==
  /\ Working(p)
  /\ SkipsKnown(p)
  /\ Step(p, NextSignal(p))
  /\ UNCHANGED <<logVars, service, fileVars, evidence, trainer, disturbances>>

\* What the endpoints do at a call: refuse it or answer with a status that is not 200 or
\* with JSON that is no object; answer 200 with a body that is not JSON; serve.
Conduct == [1..Endpoints -> {"refuse", "garble", "serve"}]

\* call_model_router takes the first that does not refuse; a body that is not JSON raises
\* there, and the endpoints after it are not asked.
Served(c) == \E e \in 1..Endpoints : c[e] = "serve" /\ \A d \in 1..(e - 1) : c[d] = "refuse"

Ask(p) == Working(p) /\ ~SkipsKnown(p)

Answer(p) ==
  /\ Ask(p)
  /\ \E c \in Conduct : Served(c)
  /\ Step(p, [pass[p] EXCEPT !.pc = "answered", !.tries = 0])
  /\ UNCHANGED <<logVars, service, fileVars, evidence, trainer, disturbances>>

\* call_model tries again, up to MAX_RETRIES.
Retry(p) ==
  /\ Ask(p)
  /\ \E c \in Conduct : ~Served(c)
  /\ pass[p].tries < MaxRetries - 1
  /\ Step(p, [pass[p] EXCEPT !.tries = @ + 1])
  /\ UNCHANGED <<logVars, service, fileVars, evidence, trainer, disturbances>>

\* Mutant: a signal whose analysis fails is recorded as processed.
GiveUpRecords(p) ==
  /\ Ask(p)
  /\ \E c \in Conduct : ~Served(c)
  /\ pass[p].tries = MaxRetries - 1
  /\ Step(p, [NextSignal(p) EXCEPT !.pc = "written", !.known = @ \cup {Current(p)}])
  /\ UNCHANGED <<logVars, service, fileVars, evidence, trainer, disturbances>>

\* The last attempt raises: the signal stays unprocessed and the pass goes on.
GiveUp(p) ==
  /\ Ask(p)
  /\ \E c \in Conduct : ~Served(c)
  /\ pass[p].tries = MaxRetries - 1
  /\ Step(p, NextSignal(p))
  /\ UNCHANGED <<logVars, service, fileVars, evidence, trainer, disturbances>>

\* The evidence is appended, and the pass adds the id to those it knows.
WriteEvidence(p) ==
  /\ pass[p].pc = "answered"
  /\ OneMore(Current(p))
  /\ Step(p, IF Current(p) \in WithoutId THEN NextSignal(p)
             ELSE [NextSignal(p) EXCEPT !.pc = "written", !.known = @ \cup {Current(p)}])
  /\ UNCHANGED <<logVars, service, fileVars, trainer, disturbances>>

\* save_processed empties the file.
OpenProcessed(p) ==
  /\ pass[p].pc = "written"
  /\ idsFile' = "empty"
  /\ Step(p, [pass[p] EXCEPT !.pc = "saving"])
  /\ UNCHANGED <<logVars, service, processed, evidence, trainer, disturbances>>

\* It writes the ids the pass knows, whatever others recorded meanwhile.
SaveProcessed(p) ==
  /\ pass[p].pc = "saving"
  /\ processed' = pass[p].known
  /\ idsFile' \in Written
  /\ Step(p, [pass[p] EXCEPT !.pc = "working"])
  /\ UNCHANGED <<logVars, service, evidence, trainer, disturbances>>

Finished(p) == pass[p].pc = "working" /\ pass[p].todo = <<>>

EndPass(p) ==
  /\ Finished(p)
  /\ idsFile # "absent"
  /\ Step(p, NoPass)
  /\ UNCHANGED <<logVars, service, fileVars, evidence, trainer, disturbances>>

\* A pass that finds no file at its end writes one.
CreateProcessed(p) ==
  /\ Finished(p)
  /\ idsFile = "absent"
  /\ Step(p, [pass[p] EXCEPT !.pc = "written"])
  /\ UNCHANGED <<logVars, service, fileVars, evidence, trainer, disturbances>>

-----------------------------------------------------------------------------

PassStep(p) ==
  \/ LoadProcessed(p) \/ ReadWindow(p) \/ ReadWindowRaises(p) \/ SkipProcessed(p)
  \/ Answer(p) \/ Retry(p) \/ GiveUp(p) \/ WriteEvidence(p)
  \/ OpenProcessed(p) \/ SaveProcessed(p) \/ EndPass(p) \/ CreateProcessed(p)

Next ==
  \/ \E s \in Emitted : Arrive(s)
  \/ StartService \/ StopService
  \/ \E m \in Missions : CheckService(m)
  \/ \E p \in Missions \cup Manual : KillPass(p)
  \/ TrainerStep
  \/ \E p \in Runners : PassStep(p)

Spec == Init /\ [][Next]_vars

\* The daemon loops for ever while its service is active.
FairSpec == Spec /\ WF_vars(PassStep("daemon"))

-----------------------------------------------------------------------------
(* Properties *)

\* A signal recorded as processed has evidence: neither a failed analysis nor a pass that
\* is cut off between the two writes loses one (run_investigation writes the evidence
\* first, and goes on when an analysis fails).
ProcessedHasEvidence == \A s \in processed : evidence[s] >= 1

\* A signal that other processes emitted with an id is investigated once, however often
\* its line is in the log, and again only because a pass was cut off or begun beside
\* another, once for each; the service asked for and found inactive, a mission's pass and
\* the daemon's are no such two (run_mission, run_investigation).
InvestigatedOnce ==
  \A s \in Emitted \ WithoutId : evidence[s] <= 1 + disturbances

\* From some time on the service stays active and a call of the daemon is served within
\* its retries.
DaemonWorks == <>[]service /\ <>[][~GiveUp("daemon")]_vars

\* The file of ids does not parse, and it is not the daemon that is writing it: a killed
\* pass, or another's write, left it so, and the daemon's passes end at it (load_processed).
IdsLost == idsFile \in {"empty", "mixed"} /\ pass["daemon"].pc # "saving"

\* The signals that stay in the window are investigated in the end; those that a burst
\* pushes out of it are not, and a line or a file of ids that does not parse blocks it.
WindowInvestigated ==
  DaemonWorks =>
    []<>(IdsLost \/ Unparsable \/ \A i \in LastLines : \A s \in log[i].holds : evidence[s] >= 1)

=============================================================================
