----------------------------- MODULE SignalBus -----------------------------
(***************************************************************************)
(* The ClawX signal bus: writers that append signals to the log, the       *)
(* bridge that imports ACME's export files into it                         *)
(* (tools/acme_signal_bridge.py), and the scheduler that reads the lines   *)
(* after its saved offset and launches the mission of each signal that has *)
(* a rule (tools/clawx_scheduler.py).                                      *)
(*                                                                         *)
(* The scheduler runs as a service that polls, and an operator may run a   *)
(* pass of it with --once at the same time: both share the offset's file   *)
(* and nothing locks it.  A mission is a subprocess that the pass waits    *)
(* for; what it returns is not looked at.  The bridge is a command and a   *)
(* tool of /pi: its runs may overlap too, each with the state it loaded.   *)
(* An export is seen half-written while ACME writes it.  A state file is   *)
(* emptied before it is written, and one that does not parse raises at     *)
(* every start.  Processes may be killed between any two steps.            *)
(***************************************************************************)
EXTENDS SignalLog

CONSTANTS Direct,    \* the signals emit_signal is called with
          Ruled,     \* the signals whose type has a mission in RULES
          Files,     \* the export files, in the order of their names
          Early,     \* the files that ACME exported before the start
          Readers,   \* the processes that run passes
          Service,   \* the one that polls
          Bridges,   \* the bridge's runs that may be under way at once
          MaxAborts, \* bound: runs of the bridge that end without saving
          MaxOverlaps, \* bound: runs of the bridge that start while another is under way
          Buffer,    \* lines that the bridge's handle holds back
          CountCap   \* bound: launches of a line are counted up to this

FileNumbers == 1..Len(Files)

ASSUME SignalBusAssumption ==
  /\ Direct \subseteq Signals
  /\ Ruled \subseteq Signals
  /\ Files \in Seq(Seq(Signals))
  /\ Early \subseteq FileNumbers
  /\ Service \in Readers
  /\ IsFiniteSet(Bridges)
  /\ MaxAborts \in Nat /\ MaxOverlaps \in Nat
  /\ Buffer \in Nat \ {0}
  /\ CountCap \in Nat \ {0, 1}

VARIABLES exports,     \* ACME's files: "absent", "partial" while written, "complete"
          bridge,      \* the bridge's runs: where each is, files to read, known, lines not yet flushed
          processed,   \* the files recorded in acme_signal_bridge_state.json
          bridgeState, \* what that file is to who loads it
          aborts,      \* history: runs of the bridge that ended without saving
          overlaps,    \* history: runs of the bridge started while another was under way
          offset,      \* the offset in scheduler_state.json
          readerState, \* what that file is to who loads it
          reader,      \* the readers' passes: where each is, its line, how far it read
          launched,    \* history: launches of each line
          disturbed    \* history: a pass was killed, or two were under way at once

bridgeVars == <<exports, bridge, processed, bridgeState, aborts, overlaps>>
readerVars == <<offset, readerState, reader, launched, disturbed>>
busVars    == <<logVars, bridgeVars, readerVars>>

NoPass   == [pc |-> "idle", at |-> 1, upto |-> 0]
NoBridge == [pc |-> "idle", todo |-> {}, known |-> {}, buffer |-> <<>>]

\* A state file that is empty or mixed does not parse.
FileState == {"whole", "empty", "mixed"}

\* What a write leaves of the file that write_text emptied: if another process has written
\* since, the longer of the two may show behind the shorter.
Written(state) == IF state = "empty" THEN {"whole"} ELSE {"whole", "mixed"}

BusInit ==
  /\ LogInit
  /\ exports = [f \in FileNumbers |-> IF f \in Early THEN "complete" ELSE "absent"]
  /\ bridge = [b \in Bridges |-> NoBridge]
  /\ processed = {}
  /\ bridgeState = "whole"
  /\ aborts = 0
  /\ overlaps = 0
  /\ offset = 0
  /\ readerState = "whole"
  /\ reader = [r \in Readers |-> NoPass]
  /\ launched = [i \in 1..MaxLines |-> 0]
  /\ disturbed = FALSE

-----------------------------------------------------------------------------
(* Writers *)

EmitDirect(s) ==
  /\ Emit(s)
  /\ UNCHANGED <<bridgeVars, readerVars>>

EmitDirectCutShort(s, parses) ==
  /\ EmitCutShort(s, parses)
  /\ UNCHANGED <<bridgeVars, readerVars>>

\* ACME creates an export and later completes it.
ExportAdvances(f) ==
  /\ exports[f] # "complete"
  /\ exports' = [exports EXCEPT ![f] = IF @ = "absent" THEN "partial" ELSE "complete"]
  /\ UNCHANGED <<logVars, bridge, processed, bridgeState, aborts, overlaps, readerVars>>

-----------------------------------------------------------------------------
(* The bridge *)

Others(b) == \E c \in Bridges \ {b} : bridge[c].pc # "idle"

Moves(b, run) == bridge' = [bridge EXCEPT ![b] = run]

\* bridge_signals loads the state; one that does not parse raises, and nothing happens.
StartBridge(b) ==
  /\ bridge[b].pc = "idle"
  /\ bridgeState = "whole"
  /\ Others(b) => overlaps < MaxOverlaps
  /\ overlaps' = IF Others(b) THEN overlaps + 1 ELSE overlaps
  /\ Moves(b, [NoBridge EXCEPT !.pc = "loaded", !.known = processed])
  /\ UNCHANGED <<logVars, exports, processed, bridgeState, aborts, readerVars>>

Listed == {f \in FileNumbers : exports[f] # "absent"}

\* It lists the directory and leaves out the files it knows.
ListExports(b) ==
  /\ bridge[b].pc = "loaded"
  /\ Moves(b, [bridge[b] EXCEPT !.pc = "reading", !.todo = Listed \ bridge[b].known])
  /\ UNCHANGED <<logVars, exports, processed, bridgeState, aborts, overlaps, readerVars>>

NextFile(b, f) == f \in bridge[b].todo /\ \A g \in bridge[b].todo : f <= g

\* The records of a file are written into the handle's buffer.
ReadExport(b, f) ==
  /\ bridge[b].pc = "reading"
  /\ Len(bridge[b].buffer) < Buffer
  /\ NextFile(b, f)
  /\ exports[f] = "complete"
  /\ Moves(b, [bridge[b] EXCEPT !.todo = @ \ {f}, !.known = @ \cup {f},
                                 !.buffer = @ \o Files[f]])
  /\ UNCHANGED <<logVars, exports, processed, bridgeState, aborts, overlaps, readerVars>>

\* The buffer is full: its lines reach the file.
FlushBridge(b) ==
  /\ bridge[b].pc = "reading"
  /\ Len(bridge[b].buffer) >= Buffer
  /\ Room(Len(bridge[b].buffer))
  /\ Write(bridge[b].buffer)
  /\ Moves(b, [bridge[b] EXCEPT !.buffer = <<>>])
  /\ UNCHANGED <<exports, processed, bridgeState, aborts, overlaps, readerVars>>

\* A file that does not parse raises: the handle is closed, which flushes it, and the
\* state is not saved.
ReadExportRaises(b, f) ==
  /\ bridge[b].pc = "reading"
  /\ Len(bridge[b].buffer) < Buffer
  /\ NextFile(b, f)
  /\ exports[f] = "partial"
  /\ aborts < MaxAborts
  /\ Room(Len(bridge[b].buffer))
  /\ Write(bridge[b].buffer)
  /\ Moves(b, NoBridge)
  /\ aborts' = aborts + 1
  /\ UNCHANGED <<exports, processed, bridgeState, overlaps, readerVars>>

\* The files are read and the handle is closed.
CloseBridge(b) ==
  /\ bridge[b].pc = "reading"
  /\ bridge[b].todo = {}
  /\ Room(Len(bridge[b].buffer))
  /\ Write(bridge[b].buffer)
  /\ Moves(b, [bridge[b] EXCEPT !.pc = "closed", !.buffer = <<>>])
  /\ UNCHANGED <<exports, processed, bridgeState, aborts, overlaps, readerVars>>

\* save_state empties the file.
OpenBridgeState(b) ==
  /\ bridge[b].pc = "closed"
  /\ bridgeState' = "empty"
  /\ Moves(b, [bridge[b] EXCEPT !.pc = "saving"])
  /\ UNCHANGED <<logVars, exports, processed, aborts, overlaps, readerVars>>

\* Mutant: every file of the directory is recorded.
SaveBridgeAll(b) ==
  /\ bridge[b].pc = "saving"
  /\ processed' = Listed
  /\ bridgeState' \in Written(bridgeState)
  /\ Moves(b, NoBridge)
  /\ UNCHANGED <<logVars, exports, aborts, overlaps, readerVars>>

\* Mutant: what is recorded is what the run had loaded.
SaveBridgeNothing(b) ==
  /\ bridge[b].pc = "saving"
  /\ bridgeState' \in Written(bridgeState)
  /\ Moves(b, NoBridge)
  /\ UNCHANGED <<logVars, exports, processed, aborts, overlaps, readerVars>>

\* It writes the files the run knows, whatever others recorded meanwhile.
SaveBridge(b) ==
  /\ bridge[b].pc = "saving"
  /\ processed' = bridge[b].known
  /\ bridgeState' \in Written(bridgeState)
  /\ Moves(b, NoBridge)
  /\ UNCHANGED <<logVars, exports, aborts, overlaps, readerVars>>

\* A run is killed: what its buffer holds is lost, and so is a state file it had emptied.
KillBridge(b) ==
  /\ bridge[b].pc # "idle"
  /\ aborts < MaxAborts
  /\ aborts' = aborts + 1
  /\ Moves(b, NoBridge)
  /\ UNCHANGED <<logVars, exports, processed, bridgeState, overlaps, readerVars>>

-----------------------------------------------------------------------------
(* The scheduler *)

Reading(r) == reader[r].pc # "idle"

\* run_once loads the offset; a file that does not parse raises, and nothing happens.
LoadOffset(r) ==
  /\ reader[r].pc = "idle"
  /\ readerState = "whole"
  /\ reader' = [reader EXCEPT ![r] = [pc |-> "loaded", at |-> offset + 1, upto |-> 0]]
  /\ disturbed' = (disturbed \/ \E q \in Readers \ {r} : Reading(q))
  /\ UNCHANGED <<logVars, bridgeVars, offset, readerState, launched>>

\* The lines after the offset.
NewLines(r) == reader[r].at..Len(log)

\* Mutant: a line that does not parse is left out.
ReadLinesLenient(r) ==
  /\ reader[r].pc = "loaded"
  /\ reader' = [reader EXCEPT ![r].pc = "launching", ![r].upto = Len(log)]
  /\ UNCHANGED <<logVars, bridgeVars, offset, readerState, launched, disturbed>>

\* read_new_signals parses every new line before the first is acted on.
ReadLines(r) ==
  /\ reader[r].pc = "loaded"
  /\ \A i \in NewLines(r) : log[i].ok
  /\ reader' = [reader EXCEPT ![r].pc = "launching", ![r].upto = Len(log)]
  /\ UNCHANGED <<logVars, bridgeVars, offset, readerState, launched, disturbed>>

\* A line that does not parse raises, and main catches nothing: the process ends.  A
\* process that ended is idle here: the next pass is that of its successor.
ReadLinesRaises(r) ==
  /\ reader[r].pc = "loaded"
  /\ \E i \in NewLines(r) : ~log[i].ok
  /\ reader' = [reader EXCEPT ![r] = NoPass]
  /\ UNCHANGED <<logVars, bridgeVars, offset, readerState, launched, disturbed>>

HasRule(i) == \E s \in log[i].told : s \in Ruled

\* process_signals: the mission of a signal with a rule runs to its end.
LaunchMission(r) ==
  /\ reader[r].pc = "launching"
  /\ reader[r].at <= reader[r].upto
  /\ launched' = IF HasRule(reader[r].at) /\ launched[reader[r].at] < CountCap
                 THEN [launched EXCEPT ![reader[r].at] = @ + 1] ELSE launched
  /\ reader' = [reader EXCEPT ![r].at = @ + 1]
  /\ UNCHANGED <<logVars, bridgeVars, offset, readerState, disturbed>>

\* All missions have run: save_state empties the file.
OpenOffset(r) ==
  /\ reader[r].pc = "launching"
  /\ reader[r].at > reader[r].upto
  /\ readerState' = "empty"
  /\ reader' = [reader EXCEPT ![r].pc = "saving"]
  /\ UNCHANGED <<logVars, bridgeVars, offset, launched, disturbed>>

\* Mutant: the offset is saved as the length of the log at the end.
SaveLength(r) ==
  /\ reader[r].pc = "saving"
  /\ offset' = Len(log)
  /\ readerState' \in Written(readerState)
  /\ reader' = [reader EXCEPT ![r] = NoPass]
  /\ UNCHANGED <<logVars, bridgeVars, launched, disturbed>>

\* Mutant: the offset saved is that of the last signal's line.
SaveLastIndex(r) ==
  /\ reader[r].pc = "saving"
  /\ offset' = IF reader[r].upto = 0 THEN 0 ELSE reader[r].upto - 1
  /\ readerState' \in Written(readerState)
  /\ reader' = [reader EXCEPT ![r] = NoPass]
  /\ UNCHANGED <<logVars, bridgeVars, launched, disturbed>>

\* The offset becomes the number of lines that were read.
SaveOffset(r) ==
  /\ reader[r].pc = "saving"
  /\ offset' = reader[r].upto
  /\ readerState' \in Written(readerState)
  /\ reader' = [reader EXCEPT ![r] = NoPass]
  /\ UNCHANGED <<logVars, bridgeVars, launched, disturbed>>

\* A reader is killed within a pass, the mission it waits for with it; killed while it
\* saves, it leaves the file empty.
KillReader(r) ==
  /\ Reading(r)
  /\ disturbed' = TRUE
  /\ reader' = [reader EXCEPT ![r] = NoPass]
  /\ UNCHANGED <<logVars, bridgeVars, offset, readerState, launched>>

-----------------------------------------------------------------------------

PassStep(r) ==
  \/ LoadOffset(r) \/ ReadLines(r) \/ ReadLinesRaises(r)
  \/ LaunchMission(r) \/ OpenOffset(r) \/ SaveOffset(r)

WriterNext ==
  \/ \E s \in Direct : EmitDirect(s) \/ \E parses \in BOOLEAN : EmitDirectCutShort(s, parses)
  \/ \E f \in FileNumbers : ExportAdvances(f)

BridgeStep(b) ==
  \/ StartBridge(b) \/ ListExports(b) \/ FlushBridge(b) \/ CloseBridge(b)
  \/ OpenBridgeState(b) \/ SaveBridge(b) \/ KillBridge(b)
  \/ \E f \in FileNumbers : ReadExport(b, f) \/ ReadExportRaises(b, f)

BusNext ==
  \/ WriterNext
  \/ \E b \in Bridges : BridgeStep(b)
  \/ \E r \in Readers : PassStep(r) \/ KillReader(r)

BusSpec == BusInit /\ [][BusNext]_busVars

\* The service polls for ever, and is started again when it ends.
FairBusSpec == BusSpec /\ WF_busVars(PassStep(Service))

-----------------------------------------------------------------------------
(* Properties *)

\* The saved offset never passes a line that told no reader a signal, nor a signal with a
\* rule that a line told and whose mission was not launched: however passes overlap and
\* wherever they are killed (run_once saves the offset last, and saves what it read, not
\* what the log holds by then).  A line that only lacked its newline told its signal, and
\* is passed; the one joined to it behind the offset is told to nobody.
AtLeastOnce ==
  \A i \in 1..offset : log[i].told # {} /\ (HasRule(i) => launched[i] >= 1)

\* Passes that do not overlap and are not killed launch a line once (run_once;
\* test_clawx_scheduler.py, "advances offset without reinvoking").
OncePerLine ==
  ~disturbed => \A i \in 1..MaxLines : launched[i] <= 1

\* A file the bridge recorded has all its signals in the log, whenever a run was killed,
\* whatever other file failed and whoever recorded it last (bridge_signals).
RecordedIsOnBus ==
  \A f \in processed : \A k \in 1..Len(Files[f]) :
    \E i \in 1..Len(log) : Files[f][k] \in log[i].holds

\* A record is known by its file and its place in it, and nothing else writes it: the
\* bridge names one that has no signal_id acme-<file>-<ordinal>, emit_signal gives none.
ExportsDistinct ==
  /\ \A f, g \in FileNumbers : \A k \in 1..Len(Files[f]), l \in 1..Len(Files[g]) :
       Files[f][k] = Files[g][l] => f = g /\ k = l
  /\ \A f \in FileNumbers : \A k \in 1..Len(Files[f]) : Files[f][k] \notin Direct

\* Lines that carry a signal.
LinesOf(s) == {i \in 1..Len(log) : s \in log[i].holds}

\* A signal of an export is imported again only because a run did not save its state, or
\* because one was started while another was under way, once for each: the record that a
\* run overwrites with what it had loaded is part of that price (bridge_signals;
\* ACME_TKAI_INTERFACE.md, "imports only new ACME export files").
ImportedAgain ==
  \A f \in FileNumbers : \A k \in 1..Len(Files[f]) :
    Cardinality(LinesOf(Files[f][k])) <= 1 + aborts + overlaps

\* The service is not killed for ever.
KilledFinitely == <>[][~KillReader(Service)]_busVars

\* A line behind the offset does not parse: the service ends at it whenever it is started
\* (read_new_signals).
Stuck == \E i \in (offset + 1)..Len(log) : ~log[i].ok

\* The offset's file does not parse, and it is not the service that is writing it: a
\* killed pass, or another's save, emptied it, and the service ends at it (load_state).
StateLost == readerState # "whole" /\ reader[Service].pc # "saving"

\* Again and again no signal with a rule that a line told is left that was not launched,
\* unless the service cannot start: it does not get past a line or its own state.
EveryLineServed ==
  KilledFinitely =>
    []<>(StateLost \/ Stuck \/ \A i \in 1..Len(log) : HasRule(i) => launched[i] >= 1)

=============================================================================
