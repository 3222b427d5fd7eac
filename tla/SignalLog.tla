----------------------------- MODULE SignalLog -----------------------------
(***************************************************************************)
(* The signal bus file vault/runtime/signals.jsonl: signal_writer.py, the  *)
(* bridge and the burn-in append lines of JSON to it, several processes    *)
(* read it, nobody rewrites it.  An append opens the file at its end, so   *)
(* lines of two writers are not mixed; but a write may be cut short (a     *)
(* full disk, a killed writer), and the line it leaves has no newline: the *)
(* next line is joined to it, and neither can be parsed.  A line that only *)
(* lacks its newline parses until then: a reader may have served it, and   *)
(* have counted it as read.                                                *)
(***************************************************************************)
EXTENDS Integers, Sequences, FiniteSets

CONSTANTS Signals,  \* what a line may say: an id and a type, known by their name
          MaxLines, \* bound: lines of the log
          MaxCuts   \* bound: writes cut short

ASSUME SignalLogAssumption == MaxLines \in Nat /\ MaxCuts \in Nat

VARIABLES log,  \* the lines: the signals written into each, the one a reader could parse
                \* at some time, and whether it parses now
          cut,  \* the last line has no newline
          cuts  \* history: writes cut short

logVars == <<log, cut, cuts>>

Line == [holds : SUBSET Signals, told : SUBSET Signals, ok : BOOLEAN]

LogInit == log = <<>> /\ cut = FALSE /\ cuts = 0

\* The lines once the signals of a sequence are appended.
Appended(ss) ==
  LET kept == IF cut THEN Len(log) - 1 ELSE Len(log)
  IN  [i \in 1..(kept + Len(ss)) |->
         IF i <= kept THEN log[i]
         ELSE IF i = kept + 1 /\ cut
              THEN [log[i] EXCEPT !.holds = @ \cup {ss[1]}, !.ok = FALSE]
              ELSE [holds |-> {ss[i - kept]}, told |-> {ss[i - kept]}, ok |-> TRUE]]

Room(n) == Len(log) + n <= MaxLines

\* Writers flush whole lines, each opened at the end of the file.
Write(ss) ==
  IF ss = <<>> THEN UNCHANGED logVars
  ELSE /\ log' = Appended(ss)
       /\ cut' = FALSE
       /\ UNCHANGED cuts

\* emit_signal: one line; an error of the write is swallowed.
Emit(s) == Room(1) /\ Write(<<s>>)

\* The write of a line is cut short: its head stays in the file, without a newline.  It
\* parses if nothing but the newline is missing and it is not joined to another.
EmitCutShort(s, parses) ==
  /\ cuts < MaxCuts
  /\ Room(1)
  /\ parses => ~cut
  /\ log' = IF parses \/ cut THEN Appended(<<s>>)
            ELSE Append(log, [holds |-> {s}, told |-> {}, ok |-> FALSE])
  /\ cut' = TRUE
  /\ cuts' = cuts + 1

=============================================================================
