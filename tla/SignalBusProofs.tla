-------------------------- MODULE SignalBusProofs --------------------------
(***************************************************************************)
(* Theorems about SignalBus, for any number of readers, of runs of the     *)
(* bridge, exports and lines, and wherever writes are cut short and        *)
(* processes killed.                                                       *)
(***************************************************************************)
EXTENDS SignalBus, FiniteSetTheorems, TLAPS

-----------------------------------------------------------------------------
(* The log *)

\* A line that parses tells a signal.
LogTypes ==
  /\ log \in Seq(Line)
  /\ Len(log) <= MaxLines
  /\ cut \in BOOLEAN
  /\ cut => Len(log) > 0
  /\ \A i \in 1..Len(log) : log[i].ok => log[i].told # {}

\* What a line told it goes on telling, and no line loses a signal.
Grown ==
  /\ Len(log) <= Len(log')
  /\ \A i \in 1..Len(log) : /\ log[i].holds \subseteq log'[i].holds
                            /\ log'[i].told = log[i].told

\* The lines that stay when something is appended: all but one that was cut short.
Kept == IF cut THEN Len(log) - 1 ELSE Len(log)

\* What an append does to the lines there are, and where it puts the new signals.
LEMMA AppendedFacts ==
  ASSUME LogTypes, NEW ss \in Seq(Signals), Len(ss) > 0
  PROVE  /\ Appended(ss) \in Seq(Line)
         /\ Len(Appended(ss)) = Kept + Len(ss)
         /\ Kept \in Nat /\ Kept <= Len(log) /\ Len(log) <= Kept + Len(ss)
         /\ \A i \in 1..Len(log) :
              /\ log[i].holds \subseteq Appended(ss)[i].holds
              /\ Appended(ss)[i].told = log[i].told
         /\ \A i \in 1..(Kept + Len(ss)) : Appended(ss)[i].ok => Appended(ss)[i].told # {}
         /\ \A k \in 1..Len(ss) : ss[k] \in Appended(ss)[Kept + k].holds
         /\ \A i \in 1..(Kept + Len(ss)) : \A s \in Appended(ss)[i].holds :
              \/ i <= Len(log) /\ s \in log[i].holds
              \/ i > Kept /\ s = ss[i - Kept]
<1> DEFINE n == Kept + Len(ss)
           line(i) == IF i <= Kept THEN log[i]
                      ELSE IF i = Kept + 1 /\ cut
                           THEN [log[i] EXCEPT !.holds = @ \cup {ss[1]}, !.ok = FALSE]
                           ELSE [holds |-> {ss[i - Kept]}, told |-> {ss[i - Kept]}, ok |-> TRUE]
<1>1. Len(log) \in Nat /\ Len(ss) \in Nat /\ DOMAIN log = 1..Len(log)
  BY DEF LogTypes
<1>2. Kept \in Nat /\ Kept <= Len(log) /\ Len(log) <= n /\ n \in Nat
  BY <1>1 DEF Kept, LogTypes
<1>3. Appended(ss) = [i \in 1..n |-> line(i)]
  BY DEF Appended, Kept
<1>4. \A i \in 1..Len(log) : log[i] \in Line
  BY <1>1 DEF LogTypes
<1>5. \A k \in 1..Len(ss) : ss[k] \in Signals
  OBVIOUS
<1>6. ASSUME NEW i \in 1..n PROVE line(i) \in Line
  <2>1. CASE i <= Kept
    BY <1>1, <1>2, <2>1 DEF LogTypes
  <2>2. CASE i > Kept /\ i = Kept + 1 /\ cut
    <3>1. i \in 1..Len(log)
      BY <1>1, <1>2, <2>2 DEF Kept
    <3>2. PICK l \in Line : l = log[i]
      BY <1>4, <3>1
    <3>3. line(i) = [l EXCEPT !.holds = @ \cup {ss[1]}, !.ok = FALSE]
      BY <1>2, <2>2, <3>2
    <3>4. ss[1] \in Signals /\ l.holds \cup {ss[1]} \in SUBSET Signals
      BY <1>5, <1>1, <3>2 DEF Line
    <3> HIDE DEF line
    <3> QED BY <3>3, <3>4 DEF Line
  <2>3. CASE i > Kept /\ ~(i = Kept + 1 /\ cut)
    <3>1. i - Kept \in 1..Len(ss)
        BY <1>1, <1>2, <2>3
    <3> QED BY <1>2, <1>5, <2>3, <3>1 DEF Line
  <2> QED BY <1>2, <2>1, <2>2, <2>3
<1>7. Appended(ss) \in Seq(Line) /\ Len(Appended(ss)) = n
  <2> HIDE DEF line, n
  <2> QED BY <1>2, <1>3, <1>6
<1>8. \A i \in 1..n : Appended(ss)[i] = line(i)
  <2> HIDE DEF line, n
  <2> QED BY <1>3
\* The lines that stay, the one that was cut short, and the new ones.
<1>9. \A i \in 1..Kept : Appended(ss)[i] = log[i]
  <2> SUFFICES ASSUME NEW i \in 1..Kept PROVE Appended(ss)[i] = log[i]
    OBVIOUS
  <2>1. i \in 1..n /\ i <= Kept
    BY <1>1, <1>2
  <2>2. line(i) = log[i]
    BY <2>1
  <2> QED BY <1>8, <2>1, <2>2
<1>10. cut => Kept + 1 = Len(log)
  BY <1>1 DEF Kept
<1>11. cut => /\ Appended(ss)[Kept + 1].holds = log[Kept + 1].holds \cup {ss[1]}
             /\ Appended(ss)[Kept + 1].told = log[Kept + 1].told
             /\ ~Appended(ss)[Kept + 1].ok
  <2>1. Kept + 1 \in 1..n /\ ~(Kept + 1 <= Kept)
    BY <1>1, <1>2
  <2>2. cut => line(Kept + 1) = [log[Kept + 1] EXCEPT !.holds = @ \cup {ss[1]}, !.ok = FALSE]
    BY <2>1
  <2>3. Appended(ss)[Kept + 1] = line(Kept + 1)
    BY <1>8, <2>1
  <2>4. cut => log[Kept + 1] \in Line
    BY <1>1, <1>4, <1>10, <1>2
  <2> HIDE DEF line
  <2> QED BY <2>2, <2>3, <2>4 DEF Line
<1>12. \A i \in 1..n : i > Kept /\ ~(i = Kept + 1 /\ cut) =>
        Appended(ss)[i].holds = {ss[i - Kept]} /\ Appended(ss)[i].told # {}
  <2> SUFFICES ASSUME NEW i \in 1..n, i > Kept, ~(i = Kept + 1 /\ cut)
               PROVE  Appended(ss)[i].holds = {ss[i - Kept]} /\ Appended(ss)[i].told # {}
    OBVIOUS
  <2>1. ~(i <= Kept)
    BY <1>2
  <2>2. Appended(ss)[i] = [holds |-> {ss[i - Kept]}, told |-> {ss[i - Kept]}, ok |-> TRUE]
    BY <1>8, <2>1
  <2> QED BY <2>2
<1> HIDE DEF line
<1>13. ASSUME NEW i \in 1..Len(log)
      PROVE  /\ log[i].holds \subseteq Appended(ss)[i].holds
             /\ Appended(ss)[i].told = log[i].told
  <2>1. CASE i <= Kept
    BY <1>1, <1>2, <1>9, <2>1
  <2>2. CASE i > Kept
    <3>1. cut
      BY <1>1, <2>2 DEF Kept
    <3>2. i = Len(log)
      <4>1. Kept + 1 = Len(log)
        BY <1>10, <3>1
      <4>2. Kept \in Nat /\ Len(log) \in Nat
        BY <1>1, <1>2
      <4> QED BY <2>2, <4>1, <4>2
    <3>3. Kept + 1 = i
      BY <1>10, <3>1, <3>2
    <3> QED BY <1>11, <3>1, <3>3
  <2> QED BY <1>2, <2>1, <2>2
<1>14. ASSUME NEW k \in 1..Len(ss) PROVE ss[k] \in Appended(ss)[Kept + k].holds
  <2>1. Kept + k \in 1..n /\ Kept + k > Kept /\ (Kept + k) - Kept = k
    BY <1>1, <1>2
  <2>2. CASE k = 1 /\ cut
    BY <1>11, <2>2
  <2>3. CASE ~(k = 1 /\ cut)
    <3>1. ~(Kept + k = Kept + 1 /\ cut)
      BY <1>2, <2>3
    <3> QED BY <1>12, <2>1, <3>1
  <2> QED BY <2>2, <2>3
<1>15. ASSUME NEW i \in 1..n, NEW s \in Appended(ss)[i].holds
       PROVE  \/ i <= Len(log) /\ s \in log[i].holds
              \/ i > Kept /\ s = ss[i - Kept]
  <2>1. CASE i <= Kept
    <3>1. i \in 1..Kept /\ i <= Len(log)
      BY <1>1, <1>2, <2>1
    <3> QED BY <1>9, <3>1
  <2>2. CASE i > Kept /\ i = Kept + 1 /\ cut
    <3>1. i = Len(log) /\ i - Kept = 1 /\ i <= Len(log)
      <4>1. Kept + 1 = Len(log)
        BY <1>10, <2>2
      <4>2. Kept \in Nat /\ Len(log) \in Nat
        BY <1>1, <1>2
      <4> QED BY <2>2, <4>1, <4>2
    <3>2. s \in log[i].holds \cup {ss[1]}
      BY <1>11, <2>2
    <3> QED BY <2>2, <3>1, <3>2
  <2>3. CASE i > Kept /\ ~(i = Kept + 1 /\ cut)
    BY <1>12, <2>3
  <2> QED BY <1>2, <2>1, <2>2, <2>3
<1>16. ASSUME NEW i \in 1..n, Appended(ss)[i].ok PROVE Appended(ss)[i].told # {}
  <2>1. CASE i <= Kept
    <3>1. i \in 1..Kept /\ i \in 1..Len(log)
      BY <1>1, <1>2, <2>1
    <3> QED BY <1>9, <1>16, <3>1 DEF LogTypes
  <2>2. CASE i > Kept /\ ~(i = Kept + 1 /\ cut)
    BY <1>12, <2>2
  <2>3. CASE i = Kept + 1 /\ cut
    BY <1>11, <1>16, <2>3
  <2> QED BY <1>2, <2>1, <2>2, <2>3
<1> QED BY <1>2, <1>7, <1>13, <1>14, <1>15, <1>16

\* Every new signal is on a line, and a line has no signal that it did not have or that is
\* not the new one written at its place.
Carried(ss) ==
  /\ \A k \in 1..Len(ss) : \E i \in 1..Len(log') : ss[k] \in log'[i].holds
  /\ \A i \in 1..Len(log') : \A s \in log'[i].holds :
       \/ i <= Len(log) /\ s \in log[i].holds
       \/ i - Kept \in 1..Len(ss) /\ s = ss[i - Kept]

LEMMA AppendFacts ==
  ASSUME LogTypes, NEW ss \in Seq(Signals), Len(ss) > 0, Room(Len(ss)),
         log' = Appended(ss), cut' \in BOOLEAN
  PROVE  LogTypes' /\ Grown /\ Carried(ss)
<1>1. Len(ss) \in Nat
  OBVIOUS
<1>2. Len(log) \in Nat /\ MaxLines \in Nat /\ Len(log) + Len(ss) <= MaxLines
  BY SignalLogAssumption DEF LogTypes, Room
<1>3. Len(log') = Kept + Len(ss) /\ Kept \in Nat /\ Kept <= Len(log) /\ Len(log) <= Len(log')
  BY AppendedFacts
<1>4. LogTypes'
  <2>1. log' \in Seq(Line)
    BY AppendedFacts
  <2>2. Len(log') <= MaxLines /\ Len(log') > 0
    BY <1>1, <1>2, <1>3
  <2>3. \A i \in 1..Len(log') : log'[i].ok => log'[i].told # {}
    BY AppendedFacts, <1>3
  <2> QED BY <2>1, <2>2, <2>3 DEF LogTypes
<1>5. Grown
  BY AppendedFacts, <1>3 DEF Grown
<1>6. ASSUME NEW k \in 1..Len(ss)
      PROVE  \E i \in 1..Len(log') : ss[k] \in log'[i].holds
  <2>1. Kept + k \in 1..Len(log')
    BY <1>1, <1>3
  <2>2. ss[k] \in log'[Kept + k].holds
    BY AppendedFacts
  <2> QED BY <2>1, <2>2
<1>7. ASSUME NEW i \in 1..Len(log'), NEW s \in log'[i].holds
      PROVE  \/ i <= Len(log) /\ s \in log[i].holds
             \/ i - Kept \in 1..Len(ss) /\ s = ss[i - Kept]
  <2>1. \/ i <= Len(log) /\ s \in log[i].holds
        \/ i > Kept /\ s = ss[i - Kept]
    BY AppendedFacts, <1>3
  <2>2. i > Kept => i - Kept \in 1..Len(ss)
    BY <1>1, <1>3
  <2> QED BY <2>1, <2>2
<1> QED BY <1>4, <1>5, <1>6, <1>7 DEF Carried

LEMMA WriteFacts ==
  ASSUME LogTypes, NEW ss \in Seq(Signals), Room(Len(ss)), Write(ss)
  PROVE  LogTypes' /\ Grown /\ Carried(ss)
<1>1. CASE ss = <<>>
  <2>1. UNCHANGED logVars /\ Len(ss) = 0
    BY <1>1 DEF Write
  <2> QED BY <2>1 DEF LogTypes, Grown, Carried, logVars
<1>2. CASE ss # <<>>
  <2>1. Len(ss) > 0
    BY <1>2
  <2>2. log' = Appended(ss) /\ cut' \in BOOLEAN
    BY <1>2 DEF Write
  <2> QED BY <2>1, <2>2, AppendFacts
<1> QED BY <1>1, <1>2

\* A write cut short leaves the line with what was written of it.
LEMMA CutShortFacts ==
  ASSUME LogTypes, NEW s \in Signals, NEW parses \in BOOLEAN, EmitCutShort(s, parses)
  PROVE  LogTypes' /\ Grown /\ Carried(<<s>>)
<1>1. <<s>> \in Seq(Signals) /\ Len(<<s>>) = 1 /\ <<s>>[1] = s /\ cut' \in BOOLEAN
  BY DEF EmitCutShort
<1>2. CASE parses \/ cut
  <2>1. Room(Len(<<s>>)) /\ log' = Appended(<<s>>) /\ Len(<<s>>) > 0
    BY <1>1, <1>2 DEF EmitCutShort
  <2> QED BY <1>1, <2>1, AppendFacts
<1>3. CASE ~(parses \/ cut)
  <2> DEFINE stump == [holds |-> {s}, told |-> {}, ok |-> FALSE]
  <2>1. log' = Append(log, stump) /\ Room(1) /\ Kept = Len(log) /\ stump \in Line
    BY <1>3 DEF EmitCutShort, Kept, Line
  <2>2. Len(log) \in Nat /\ MaxLines \in Nat /\ Len(log) + 1 <= MaxLines
    BY <2>1, SignalLogAssumption DEF LogTypes, Room
  <2>3. stump.holds = {s} /\ ~stump.ok
    OBVIOUS
  <2> HIDE DEF stump
  <2>4. /\ log' \in Seq(Line) /\ Len(log') = Len(log) + 1 /\ log'[Len(log) + 1] = stump
        /\ \A i \in 1..Len(log) : log'[i] = log[i]
    BY <2>1 DEF LogTypes
  <2>5. \A i \in 1..Len(log') : i \in 1..Len(log) \/ i = Len(log) + 1
    BY <2>2, <2>4
  <2>6. LogTypes'
    <3>1. \A i \in 1..Len(log') : log'[i].ok => log'[i].told # {}
      BY <2>3, <2>4, <2>5 DEF LogTypes
    <3>2. Len(log') <= MaxLines /\ Len(log') > 0
      BY <2>2, <2>4
    <3> QED BY <1>1, <2>4, <3>1, <3>2 DEF LogTypes
  <2>7. Grown
    BY <2>2, <2>4 DEF Grown
  <2>8. Carried(<<s>>)
    <3>1. \A k \in 1..Len(<<s>>) : k = 1
      BY <1>1
    <3>2. Len(log) + 1 \in 1..Len(log') /\ s \in log'[Len(log) + 1].holds
      BY <2>2, <2>3, <2>4
    <3>3. ASSUME NEW i \in 1..Len(log'), NEW x \in log'[i].holds
          PROVE  \/ i <= Len(log) /\ x \in log[i].holds
                 \/ i - Kept \in 1..Len(<<s>>) /\ x = <<s>>[i - Kept]
      <4>1. CASE i \in 1..Len(log)
        BY <2>2, <2>4, <4>1
      <4>2. CASE i = Len(log) + 1
        <5>1. x = s /\ i - Kept = 1
          BY <2>1, <2>2, <2>3, <2>4, <4>2
        <5> QED BY <1>1, <5>1
      <4> QED BY <2>5, <4>1, <4>2
    <3> QED BY <1>1, <3>1, <3>2, <3>3 DEF Carried
  <2> QED BY <2>6, <2>7, <2>8
<1> QED BY <1>2, <1>3

-----------------------------------------------------------------------------
(* The inductive invariant *)

Runs == [pc : {"idle", "loaded", "reading", "closed", "saving"}, todo : SUBSET FileNumbers,
         known : SUBSET FileNumbers, buffer : Seq(Signals)]

\* A run has files to read and lines to write between its listing and its end only.
Quiet(b) == bridge[b].pc # "reading" => bridge[b].todo = {} /\ bridge[b].buffer = <<>>

BridgeTypes ==
  /\ exports \in [FileNumbers -> {"absent", "partial", "complete"}]
  /\ bridge \in [Bridges -> Runs]
  /\ \A b \in Bridges : Quiet(b)
  /\ processed \subseteq FileNumbers
  /\ bridgeState \in FileState
  /\ aborts \in Nat
  /\ overlaps \in Nat

Passes == [pc : {"idle", "loaded", "launching", "saving"}, at : Nat \ {0}, upto : Nat]

ReaderTypes ==
  /\ offset \in Nat
  /\ readerState \in FileState
  /\ reader \in [Readers -> Passes]
  /\ launched \in [1..MaxLines -> Nat]
  /\ disturbed \in BOOLEAN

BusTypes == LogTypes /\ BridgeTypes /\ ReaderTypes

\* What the offset may not pass before it holds of a line.
Served(i) == log[i].told # {} /\ (HasRule(i) => launched[i] >= 1)

\* A pass starts behind served lines only, and has served those it left behind; the lines
\* it read all told a signal.
PassServed(r) ==
  /\ reader[r].pc # "idle" => /\ reader[r].at - 1 <= Len(log)
                              /\ \A i \in 1..(reader[r].at - 1) : Served(i)
  /\ reader[r].pc \in {"launching", "saving"} =>
       /\ reader[r].at <= reader[r].upto + 1
       /\ reader[r].upto <= Len(log)
       /\ \A i \in 1..reader[r].upto : log[i].told # {}
  /\ reader[r].pc = "saving" => reader[r].at = reader[r].upto + 1

PassesServed == offset <= Len(log) /\ AtLeastOnce /\ \A r \in Readers : PassServed(r)

\* As long as passes are undisturbed one is under way at most, it starts at the saved
\* offset, and what it has not come to was not launched.
Undisturbed ==
  /\ \A r, q \in Readers : Reading(r) /\ Reading(q) => r = q
  /\ \A i \in 1..MaxLines : launched[i] <= 1
  /\ \A r \in Readers :
       /\ Reading(r) => \A i \in 1..MaxLines : i >= reader[r].at => launched[i] = 0
       /\ reader[r].pc = "loaded" => reader[r].at = offset + 1
  /\ (\A r \in Readers : ~Reading(r)) => \A i \in 1..MaxLines : i > offset => launched[i] = 0

UndisturbedOnce == ~disturbed => Undisturbed

OnBus(s) == \E i \in 1..Len(log) : s \in log[i].holds

Buffered(b, s) == \E n \in 1..Len(bridge[b].buffer) : bridge[b].buffer[n] = s

\* A run knows a file once its signals are on the bus or in its buffer.
KnownCarried(b) ==
  \A f \in bridge[b].known : \A k \in 1..Len(Files[f]) :
    OnBus(Files[f][k]) \/ Buffered(b, Files[f][k])

KnownOnBus == RecordedIsOnBus /\ \A b \in Bridges : KnownCarried(b)

\* The buffer holds each record once, of files that the run knows.
RunShape(b) ==
  /\ bridge[b].todo \cap bridge[b].known = {}
  /\ \A n, m \in 1..Len(bridge[b].buffer) : bridge[b].buffer[n] = bridge[b].buffer[m] => n = m
  /\ \A n \in 1..Len(bridge[b].buffer) : \E f \in bridge[b].known :
       \E k \in 1..Len(Files[f]) : bridge[b].buffer[n] = Files[f][k]

BridgeShape == \A b \in Bridges : RunShape(b)

\* A run will add a line of the signal s of file f, as far as it is known by now.
Adds(b, f, s) ==
  \/ bridge[b].pc = "loaded" /\ f \notin bridge[b].known
  \/ f \in bridge[b].todo
  \/ Buffered(b, s)

Adding(f, s) == {b \in Bridges : Adds(b, f, s)}

UnderWay == \E b \in Bridges : bridge[b].pc # "idle"

\* A run that will overwrite the record of f with one that lacks it.
Forgets(b, f, s) == bridge[b].pc # "idle" /\ f \notin bridge[b].known /\ ~Adds(b, f, s)

\* The lines of a signal, with those under way, are due to runs that did not save, to runs
\* started beside another, and to one more: which a run under way may add, which the record
\* of the file answers for afterwards, and which was not added yet as long as a run could
\* make the record forget it.
Lines(f, s) == Cardinality(LinesOf(s)) + Cardinality(Adding(f, s))

Bit(p) == IF p THEN 1 ELSE 0

Counted(f, s) ==
  /\ UnderWay => Lines(f, s) <= 1 + aborts + overlaps
  /\ ~UnderWay => Lines(f, s) <= aborts + overlaps + Bit(f \in processed)
  /\ (\E b \in Bridges : Forgets(b, f, s)) => Lines(f, s) <= aborts + overlaps

LinesCounted ==
  \A f \in FileNumbers : \A k \in 1..Len(Files[f]) : Counted(f, Files[f][k])

ImportsCounted == BridgeShape /\ LinesCounted

-----------------------------------------------------------------------------
(* Types *)

LEMMA FilesTypes ==
  ASSUME NEW f \in FileNumbers
  PROVE  Files[f] \in Seq(Signals) /\ \A k \in 1..Len(Files[f]) : Files[f][k] \in Signals
<1>1. Files[f] \in Seq(Signals)
  BY SignalBusAssumption DEF FileNumbers
<1> QED BY <1>1

LEMMA NoBridgeTypes ==
  /\ NoBridge \in Runs
  /\ NoBridge.pc = "idle" /\ NoBridge.known = {} /\ NoBridge.todo = {} /\ NoBridge.buffer = <<>>
  /\ Len(NoBridge.buffer) = 0
BY DEF NoBridge, Runs

LEMMA RunTypes ==
  ASSUME BridgeTypes, NEW b \in Bridges
  PROVE  /\ bridge[b] \in Runs
         /\ bridge[b].todo \subseteq FileNumbers /\ bridge[b].known \subseteq FileNumbers
         /\ bridge[b].buffer \in Seq(Signals)
BY DEF BridgeTypes, Runs

LEMMA TypesInit == BusInit => BusTypes
<1> SUFFICES ASSUME BusInit PROVE BusTypes
  OBVIOUS
<1>0. log = <<>> /\ cut = FALSE
  BY DEF BusInit, LogInit
<1>1. Len(log) = 0
  BY <1>0
<1>2. LogTypes
  <2>1. <<>> \in Seq(Line)
    OBVIOUS
  <2>2. Len(log) <= MaxLines
    BY <1>1, SignalLogAssumption
  <2>4. 1..Len(log) = {}
    BY <1>1
  <2>3. log \in Seq(Line)
    BY <1>0, <2>1
  <2> QED BY <1>0, <2>2, <2>3, <2>4 DEF LogTypes
<1> USE DEF BusInit
<1>3. BridgeTypes
  <2>1. exports \in [FileNumbers -> {"absent", "partial", "complete"}]
    OBVIOUS
  <2>2. bridge \in [Bridges -> Runs] /\ \A b \in Bridges : Quiet(b)
    BY NoBridgeTypes DEF Quiet
  <2> QED BY <2>1, <2>2 DEF BridgeTypes, FileState
<1>4. ReaderTypes
  <2>1. offset \in Nat /\ disturbed \in BOOLEAN /\ readerState \in FileState
    BY DEF FileState
  <2>2. launched \in [1..MaxLines -> Nat]
    OBVIOUS
  <2>3. NoPass \in Passes
    BY DEF NoPass, Passes
  <2> QED BY <2>1, <2>2, <2>3 DEF ReaderTypes
<1> QED BY <1>2, <1>3, <1>4 DEF BusTypes

\* A run writes its buffer or leaves the log alone.
LEMMA BridgeLog ==
  ASSUME NEW b \in Bridges, BridgeStep(b)
  PROVE  \/ UNCHANGED logVars
         \/ Room(Len(bridge[b].buffer)) /\ Write(bridge[b].buffer)
BY DEF BridgeStep, StartBridge, ListExports, FlushBridge, CloseBridge, OpenBridgeState,
       SaveBridge, KillBridge, ReadExport, ReadExportRaises

\* Whoever writes, the lines grow.
LEMMA LogStep ==
  ASSUME BusTypes, [BusNext]_busVars
  PROVE  LogTypes' /\ Grown
<1> USE DEF BusTypes
<1>0. LogTypes /\ Direct \subseteq Signals
  BY SignalBusAssumption
<1>1. CASE UNCHANGED logVars
  BY <1>0, <1>1 DEF LogTypes, Grown, logVars
<1>2. ASSUME NEW s \in Direct, EmitDirect(s) PROVE LogTypes' /\ Grown
  <2>1. <<s>> \in Seq(Signals) /\ Len(<<s>>) = 1
    BY <1>0
  <2>2. Room(1) /\ Write(<<s>>)
    BY <1>2 DEF EmitDirect, Emit
  <2> QED BY WriteFacts, <1>0, <2>1, <2>2
<1>3. ASSUME NEW s \in Direct, NEW parses \in BOOLEAN, EmitDirectCutShort(s, parses)
      PROVE  LogTypes' /\ Grown
  BY CutShortFacts, <1>0, <1>3 DEF EmitDirectCutShort
<1>4. CASE WriterNext
  <2>1. ASSUME NEW f \in FileNumbers, ExportAdvances(f) PROVE LogTypes' /\ Grown
    BY <1>1, <2>1 DEF ExportAdvances
  <2> QED BY <1>2, <1>3, <1>4, <2>1 DEF WriterNext
<1>5. ASSUME NEW b \in Bridges, BridgeStep(b) PROVE LogTypes' /\ Grown
  <2>1. CASE Room(Len(bridge[b].buffer)) /\ Write(bridge[b].buffer)
    BY WriteFacts, <1>0, <2>1, RunTypes
  <2> QED BY <1>1, <1>5, <2>1, BridgeLog
<1>6. CASE \E r \in Readers : PassStep(r) \/ KillReader(r)
  <2>1. UNCHANGED logVars
    BY <1>6 DEF PassStep, KillReader, LoadOffset, ReadLines, ReadLinesRaises, LaunchMission,
                OpenOffset, SaveOffset
  <2> QED BY <1>1, <2>1
<1>7. CASE UNCHANGED busVars
  BY <1>1, <1>7 DEF busVars
<1> QED BY <1>4, <1>5, <1>6, <1>7 DEF BusNext

\* A move touches its run alone.
LEMMA Moved ==
  ASSUME BridgeTypes, NEW b \in Bridges, NEW run, Moves(b, run)
  PROVE  bridge'[b] = run /\ \A c \in Bridges \ {b} : bridge'[c] = bridge[c]
BY DEF Moves, BridgeTypes

EndsRun(b) == SaveBridge(b) \/ KillBridge(b) \/ \E f \in FileNumbers : ReadExportRaises(b, f)

LEMMA OthersStay ==
  ASSUME BridgeTypes, NEW b \in Bridges, BridgeStep(b)
  PROVE  /\ \A c \in Bridges \ {b} : bridge'[c] = bridge[c]
         /\ bridge' = [bridge EXCEPT ![b] = bridge'[b]]
<1>1. PICK run : Moves(b, run)
  BY DEF BridgeStep, StartBridge, ListExports, FlushBridge, CloseBridge, OpenBridgeState,
         SaveBridge, KillBridge, ReadExport, ReadExportRaises
<1>2. bridge'[b] = run /\ \A c \in Bridges \ {b} : bridge'[c] = bridge[c]
  BY <1>1, Moved
<1> QED BY <1>1, <1>2 DEF Moves

\* A run after each of its steps.
LEMMA StartFields ==
  ASSUME BridgeTypes, NEW b \in Bridges, StartBridge(b)
  PROVE  /\ bridge'[b] \in Runs
         /\ bridge'[b].pc = "loaded" /\ bridge'[b].todo = {}
         /\ bridge'[b].known = processed /\ bridge'[b].buffer = <<>>
<1>1. PICK known \in SUBSET FileNumbers : known = processed
  BY DEF BridgeTypes
<1>2. bridge'[b] = [NoBridge EXCEPT !.pc = "loaded", !.known = known]
  BY <1>1, Moved DEF StartBridge
<1> QED BY <1>1, <1>2, NoBridgeTypes DEF Runs

LEMMA ListFields ==
  ASSUME BridgeTypes, NEW b \in Bridges, ListExports(b)
  PROVE  /\ bridge'[b] \in Runs
         /\ bridge'[b].pc = "reading" /\ bridge'[b].todo = Listed \ bridge[b].known
         /\ bridge'[b].known = bridge[b].known /\ bridge'[b].buffer = bridge[b].buffer
<1>1. PICK x \in Runs, todo \in SUBSET FileNumbers :
        x = bridge[b] /\ todo = Listed \ bridge[b].known
  BY RunTypes DEF Listed
<1>2. bridge'[b] = [x EXCEPT !.pc = "reading", !.todo = todo]
  BY <1>1, Moved DEF ListExports
<1> QED BY <1>1, <1>2 DEF Runs

LEMMA ReadFields ==
  ASSUME BridgeTypes, NEW b \in Bridges, NEW f \in FileNumbers, ReadExport(b, f)
  PROVE  /\ bridge'[b] \in Runs
         /\ bridge'[b].pc = bridge[b].pc /\ bridge'[b].todo = bridge[b].todo \ {f}
         /\ bridge'[b].known = bridge[b].known \cup {f}
         /\ bridge'[b].buffer = bridge[b].buffer \o Files[f]
<1>1. PICK x \in Runs, todo \in SUBSET FileNumbers, known \in SUBSET FileNumbers,
           buffer \in Seq(Signals) :
        /\ x = bridge[b] /\ todo = bridge[b].todo \ {f} /\ known = bridge[b].known \cup {f}
        /\ buffer = bridge[b].buffer \o Files[f]
  <2>1. bridge[b].buffer \o Files[f] \in Seq(Signals)
    BY RunTypes, FilesTypes
  <2>2. bridge[b].todo \ {f} \in SUBSET FileNumbers /\ bridge[b].known \cup {f} \in SUBSET FileNumbers
    BY RunTypes
  <2> QED BY <2>1, <2>2, RunTypes
<1>2. bridge'[b] = [x EXCEPT !.todo = todo, !.known = known, !.buffer = buffer]
  BY <1>1, Moved DEF ReadExport
<1> QED BY <1>1, <1>2 DEF Runs

LEMMA WriteFields ==
  ASSUME BridgeTypes, NEW b \in Bridges, FlushBridge(b) \/ CloseBridge(b)
  PROVE  /\ bridge'[b] \in Runs
         /\ FlushBridge(b) => bridge'[b].pc = bridge[b].pc
         /\ CloseBridge(b) => bridge'[b].pc = "closed"
         /\ bridge'[b].todo = bridge[b].todo
         /\ bridge'[b].known = bridge[b].known /\ bridge'[b].buffer = <<>>
<1>1. PICK x \in Runs, buffer \in Seq(Signals) : x = bridge[b] /\ buffer = <<>>
  <2>1. <<>> \in Seq(Signals)
    OBVIOUS
  <2> QED BY <2>1, RunTypes
<1>2. FlushBridge(b) => bridge'[b] = [x EXCEPT !.buffer = buffer]
  BY <1>1, Moved DEF FlushBridge
<1>3. CloseBridge(b) => bridge'[b] = [x EXCEPT !.pc = "closed", !.buffer = buffer]
  BY <1>1, Moved DEF CloseBridge
<1> QED BY <1>1, <1>2, <1>3 DEF Runs

LEMMA OpenFields ==
  ASSUME BridgeTypes, NEW b \in Bridges, OpenBridgeState(b)
  PROVE  /\ bridge'[b] \in Runs
         /\ bridge'[b].pc = "saving" /\ bridge'[b].todo = bridge[b].todo
         /\ bridge'[b].known = bridge[b].known /\ bridge'[b].buffer = bridge[b].buffer
<1>1. PICK x \in Runs : x = bridge[b]
  BY RunTypes
<1>2. bridge'[b] = [x EXCEPT !.pc = "saving"]
  BY <1>1, Moved DEF OpenBridgeState
<1> QED BY <1>1, <1>2 DEF Runs

LEMMA EndFields ==
  ASSUME BridgeTypes, NEW b \in Bridges, EndsRun(b)
  PROVE  /\ bridge'[b] = NoBridge
         /\ bridge'[b].pc = "idle" /\ bridge'[b].todo = {}
         /\ bridge'[b].known = {} /\ bridge'[b].buffer = <<>>
<1>1. bridge'[b] = NoBridge
  BY Moved DEF EndsRun, SaveBridge, KillBridge, ReadExportRaises
<1> QED BY <1>1, NoBridgeTypes

LEMMA BridgeTypesStep ==
  ASSUME BusTypes, [BusNext]_busVars
  PROVE  BridgeTypes'
<1> USE DEF BusTypes
<1>1. CASE UNCHANGED bridgeVars
  BY <1>1 DEF BridgeTypes, bridgeVars, Quiet
<1>2. ASSUME NEW f \in FileNumbers, ExportAdvances(f) PROVE BridgeTypes'
  <2>1. exports' \in [FileNumbers -> {"absent", "partial", "complete"}]
    BY <1>2 DEF ExportAdvances, BridgeTypes
  <2> QED BY <1>2, <2>1 DEF ExportAdvances, BridgeTypes, Quiet
<1>3. ASSUME NEW b \in Bridges, BridgeStep(b) PROVE BridgeTypes'
  <2>0. BridgeTypes /\ bridge[b] \in Runs /\ NoBridge \in Runs /\ <<>> \in Seq(Signals)
    BY RunTypes, NoBridgeTypes
  <2>1. bridge'[b] \in Runs
    BY <1>3, <2>0, StartFields, ListFields, ReadFields, WriteFields, OpenFields, EndFields
    DEF BridgeStep, EndsRun
  <2>2. bridge' \in [Bridges -> Runs]
    BY <1>3, <2>1, OthersStay DEF BridgeTypes
  <2>3. processed' \subseteq FileNumbers
    <3>1. CASE SaveBridge(b)
      BY <3>1, RunTypes DEF SaveBridge
    <3>2. CASE ~SaveBridge(b)
      <4>1. processed' = processed
        BY <1>3, <3>2 DEF BridgeStep, StartBridge, ListExports, FlushBridge, CloseBridge,
                          OpenBridgeState, KillBridge, ReadExport, ReadExportRaises
      <4> QED BY <4>1 DEF BridgeTypes
    <3> QED BY <3>1, <3>2
  <2>4. aborts' \in Nat /\ overlaps' \in Nat /\ exports' = exports
    <3>1. /\ aborts' = aborts \/ aborts' = aborts + 1
          /\ overlaps' = overlaps \/ overlaps' = overlaps + 1
          /\ exports' = exports
      BY <1>3 DEF BridgeStep, StartBridge, ListExports, FlushBridge, CloseBridge,
                  OpenBridgeState, SaveBridge, KillBridge, ReadExport, ReadExportRaises
    <3> QED BY <3>1 DEF BridgeTypes
  <2>5. bridgeState' \in FileState
    <3>1. bridgeState' = bridgeState \/ bridgeState' = "empty" \/ bridgeState' \in Written(bridgeState)
      BY <1>3 DEF BridgeStep, StartBridge, ListExports, FlushBridge, CloseBridge,
                  OpenBridgeState, SaveBridge, KillBridge, ReadExport, ReadExportRaises
    <3> QED BY <3>1 DEF BridgeTypes, FileState, Written
  <2>6. Quiet(b)'
    <3>1. CASE StartBridge(b)
      BY <3>1, StartFields DEF Quiet
    <3>2. CASE ListExports(b)
      BY <3>2, ListFields DEF Quiet
    <3>3. ASSUME NEW f \in FileNumbers, ReadExport(b, f) PROVE Quiet(b)'
      <4>1. bridge[b].pc = "reading"
        BY <3>3 DEF ReadExport
      <4> QED BY <3>3, <4>1, ReadFields DEF Quiet
    <3>4. CASE FlushBridge(b)
      <4>1. bridge[b].pc = "reading"
        BY <3>4 DEF FlushBridge
      <4> QED BY <3>4, <4>1, WriteFields DEF Quiet
    <3>5. CASE CloseBridge(b)
      <4>1. bridge[b].todo = {}
        BY <3>5 DEF CloseBridge
      <4> QED BY <3>5, <4>1, WriteFields DEF Quiet
    <3>6. CASE OpenBridgeState(b)
      <4>1. bridge[b].pc = "closed"
        BY <3>6 DEF OpenBridgeState
      <4> QED BY <3>6, <4>1, OpenFields DEF Quiet, BridgeTypes
    <3>7. CASE EndsRun(b)
      BY <3>7, EndFields DEF Quiet
    <3> QED BY <1>3, <3>1, <3>2, <3>3, <3>4, <3>5, <3>6, <3>7 DEF BridgeStep, EndsRun
  <2>7. \A c \in Bridges \ {b} : Quiet(c)'
    BY <1>3, OthersStay DEF Quiet, BridgeTypes
  <2> QED BY <2>2, <2>3, <2>4, <2>5, <2>6, <2>7 DEF BridgeTypes
<1>4. CASE WriterNext
  <2>1. ASSUME NEW s \in Direct, EmitDirect(s) \/ \E parses \in BOOLEAN : EmitDirectCutShort(s, parses)
        PROVE  UNCHANGED bridgeVars
    BY <2>1 DEF EmitDirect, EmitDirectCutShort
  <2> QED BY <1>1, <1>2, <1>4, <2>1 DEF WriterNext
<1>5. CASE \E r \in Readers : PassStep(r) \/ KillReader(r)
  <2>1. UNCHANGED bridgeVars
    BY <1>5 DEF PassStep, KillReader, LoadOffset, ReadLines, ReadLinesRaises, LaunchMission,
                OpenOffset, SaveOffset
  <2> QED BY <1>1, <2>1
<1>6. CASE UNCHANGED busVars
  BY <1>1, <1>6 DEF busVars
<1> QED BY <1>3, <1>4, <1>5, <1>6 DEF BusNext

\* The readers leave the log and the bridge alone, and are left alone by the others.
LEMMA Frames ==
  /\ WriterNext => UNCHANGED readerVars
  /\ \A b \in Bridges : BridgeStep(b) => UNCHANGED readerVars
  /\ \A r \in Readers : PassStep(r) \/ KillReader(r) => UNCHANGED <<logVars, bridgeVars>>
<1>1. WriterNext => UNCHANGED readerVars
  BY DEF WriterNext, EmitDirect, EmitDirectCutShort, ExportAdvances
<1>2. ASSUME NEW b \in Bridges, BridgeStep(b) PROVE UNCHANGED readerVars
  BY <1>2 DEF BridgeStep, StartBridge, ListExports, FlushBridge, CloseBridge, OpenBridgeState,
              SaveBridge, KillBridge, ReadExport, ReadExportRaises
<1>3. ASSUME NEW r \in Readers, PassStep(r) \/ KillReader(r)
      PROVE  UNCHANGED <<logVars, bridgeVars>>
  BY <1>3 DEF PassStep, KillReader, LoadOffset, ReadLines, ReadLinesRaises, LaunchMission,
              OpenOffset, SaveOffset
<1> QED BY <1>1, <1>2, <1>3

\* What a step of a reader does to the readers' variables.
LEMMA ReaderTypesStep ==
  ASSUME BusTypes, [BusNext]_busVars
  PROVE  ReaderTypes'
<1> USE DEF BusTypes
<1>0. Len(log) \in Nat /\ Len(log) <= MaxLines /\ MaxLines \in Nat
  BY SignalLogAssumption DEF LogTypes
<1>1. CASE UNCHANGED readerVars
  BY <1>1 DEF ReaderTypes, readerVars
<1>2. ASSUME NEW r \in Readers, PassStep(r) \/ KillReader(r) PROVE ReaderTypes'
  <2>0. reader[r] \in Passes /\ NoPass \in Passes
    BY DEF ReaderTypes, NoPass, Passes
  <2>1. CASE LoadOffset(r)
    <3>1. [pc |-> "loaded", at |-> offset + 1, upto |-> 0] \in Passes
      BY DEF ReaderTypes, Passes
    <3>2. disturbed' \in BOOLEAN
      <4>1. (disturbed \/ \E q \in Readers \ {r} : Reading(q)) \in BOOLEAN
        OBVIOUS
      <4> QED BY <2>1, <4>1 DEF LoadOffset
    <3> QED BY <2>1, <3>1, <3>2 DEF LoadOffset, ReaderTypes
  <2>2. CASE ReadLines(r)
    <3>1. reader' = [reader EXCEPT ![r] = [reader[r] EXCEPT !.pc = "launching", !.upto = Len(log)]]
      BY <2>0, <2>2 DEF ReadLines, ReaderTypes, Passes
    <3>2. [reader[r] EXCEPT !.pc = "launching", !.upto = Len(log)] \in Passes
      BY <1>0, <2>0 DEF Passes
    <3> QED BY <2>2, <3>1, <3>2 DEF ReadLines, ReaderTypes
  <2>3. CASE ReadLinesRaises(r)
    BY <2>0, <2>3 DEF ReadLinesRaises, ReaderTypes
  <2>4. CASE LaunchMission(r)
    <3>1. reader' = [reader EXCEPT ![r] = [reader[r] EXCEPT !.at = @ + 1]]
      BY <2>0, <2>4 DEF LaunchMission, ReaderTypes, Passes
    <3>2. [reader[r] EXCEPT !.at = @ + 1] \in Passes
      BY <2>0 DEF Passes
    <3>3. launched' \in [1..MaxLines -> Nat]
      <4> DEFINE a == reader[r].at
      <4>1. launched' = [launched EXCEPT ![a] = @ + 1] \/ launched' = launched
        BY <2>4 DEF LaunchMission
      <4>2. launched \in [1..MaxLines -> Nat]
        BY DEF ReaderTypes
      <4> HIDE DEF a
      <4>3. CASE a \in 1..MaxLines
        BY <4>1, <4>2, <4>3
      <4>4. CASE a \notin 1..MaxLines
        BY <4>1, <4>2, <4>4
      <4> QED BY <4>3, <4>4
    <3> QED BY <2>4, <3>1, <3>2, <3>3 DEF LaunchMission, ReaderTypes
  <2>5. CASE SaveOffset(r)
    <3>1. offset' \in Nat
      BY <2>0, <2>5 DEF SaveOffset, Passes
    <3>2. readerState' \in FileState
      BY <2>5 DEF SaveOffset, Written, FileState
    <3> QED BY <2>0, <2>5, <3>1, <3>2 DEF SaveOffset, ReaderTypes
  <2>6. CASE KillReader(r)
    BY <2>0, <2>6 DEF KillReader, ReaderTypes
  <2>7. CASE OpenOffset(r)
    <3>1. reader' = [reader EXCEPT ![r] = [reader[r] EXCEPT !.pc = "saving"]]
      BY <2>0, <2>7 DEF OpenOffset, ReaderTypes
    <3>2. [reader[r] EXCEPT !.pc = "saving"] \in Passes
      BY <2>0 DEF Passes
    <3>3. readerState' \in FileState
      BY <2>7 DEF OpenOffset, FileState
    <3> QED BY <2>7, <3>1, <3>2, <3>3 DEF OpenOffset, ReaderTypes
  <2> QED BY <1>2, <2>1, <2>2, <2>3, <2>4, <2>5, <2>6, <2>7 DEF PassStep
<1> QED BY <1>1, <1>2, Frames DEF BusNext, busVars

LEMMA TypesStep == BusTypes /\ [BusNext]_busVars => BusTypes'
BY LogStep, BridgeTypesStep, ReaderTypesStep DEF BusTypes

\* Type correctness of the log, the bridge and the readers.
THEOREM BusTypeSafety == BusSpec => []BusTypes
BY TypesInit, TypesStep, PTL DEF BusSpec

-----------------------------------------------------------------------------
(* Every line is served *)

LEMMA ServedKept ==
  ASSUME Grown, UNCHANGED launched, NEW i \in 1..Len(log), Served(i)
  PROVE  Served(i)'
<1>1. log'[i].told = log[i].told
  BY DEF Grown
<1> QED BY <1>1 DEF Served, HasRule

LEMMA ServedStep ==
  ASSUME BusTypes, PassesServed, [BusNext]_busVars
  PROVE  PassesServed'
<1> USE DEF BusTypes
<1>0. Len(log) \in Nat /\ Len(log) <= MaxLines /\ MaxLines \in Nat
  BY SignalLogAssumption DEF LogTypes
<1>1. LogTypes' /\ Grown /\ Len(log') \in Nat
  BY LogStep DEF LogTypes
<1>2. \A r \in Readers : reader[r].at \in Nat \ {0} /\ reader[r].upto \in Nat
  BY DEF ReaderTypes, Passes
<1>3. CASE UNCHANGED readerVars
  <2>1. UNCHANGED <<offset, launched, reader>>
    BY <1>3 DEF readerVars
  <2>2. offset' <= Len(log')
    BY <1>0, <1>1, <2>1 DEF Grown, PassesServed, ReaderTypes
  <2>3. AtLeastOnce'
    <3> SUFFICES ASSUME NEW i \in 1..offset PROVE Served(i)'
      BY <2>1 DEF AtLeastOnce, Served, HasRule
    <3>1. i \in 1..Len(log)
      BY <1>0 DEF PassesServed, ReaderTypes
    <3> QED BY <1>1, <2>1, <3>1, ServedKept DEF PassesServed, AtLeastOnce, Served
  <2>4. ASSUME NEW r \in Readers PROVE PassServed(r)'
    <3>1. reader'[r] = reader[r]
      BY <2>1
    <3>2. ASSUME reader[r].pc # "idle", NEW i \in 1..(reader[r].at - 1)
          PROVE  Served(i)'
      <4>1. i \in 1..Len(log) /\ Served(i)
        BY <1>0, <1>2, <3>2 DEF PassesServed, PassServed
      <4> QED BY <1>1, <2>1, <4>1, ServedKept
    <3>3. ASSUME reader[r].pc \in {"launching", "saving"}, NEW i \in 1..reader[r].upto
          PROVE  log'[i].told # {}
      <4>1. i \in 1..Len(log) /\ log[i].told # {}
        BY <1>0, <1>2, <3>3 DEF PassesServed, PassServed
      <4> QED BY <1>1, <4>1 DEF Grown
    <3>4. reader[r].pc # "idle" => reader[r].at - 1 <= Len(log')
      BY <1>0, <1>1, <1>2 DEF PassesServed, PassServed, Grown
    <3>5. reader[r].pc \in {"launching", "saving"} => /\ reader[r].at <= reader[r].upto + 1
                                                      /\ reader[r].upto <= Len(log')
      BY <1>0, <1>1, <1>2 DEF PassesServed, PassServed, Grown
    <3>6. reader[r].pc = "saving" => reader[r].at = reader[r].upto + 1
      BY DEF PassesServed, PassServed
    <3> QED BY <3>1, <3>2, <3>3, <3>4, <3>5, <3>6 DEF PassServed
  <2> QED BY <2>2, <2>3, <2>4 DEF PassesServed
<1>4. ASSUME NEW r \in Readers, PassStep(r) \/ KillReader(r) PROVE PassesServed'
  <2>1. log' = log
    BY <1>4, Frames DEF logVars
  \* What was served stays so: launches are only added.
  <2>2. ASSUME NEW i \in 1..Len(log), Served(i) PROVE Served(i)'
    <3>1. launched'[i] >= launched[i]
      <4>1. launched[i] \in Nat
        BY <1>0 DEF ReaderTypes
      <4>2. CASE LaunchMission(r)
        <5>0. PICK a \in Nat : a = reader[r].at
          BY <1>2
        <5>1. launched' = launched \/ launched' = [launched EXCEPT ![a] = @ + 1]
          BY <4>2, <5>0 DEF LaunchMission
        <5>2. launched \in [1..MaxLines -> Nat] /\ i \in 1..MaxLines
          BY <1>0 DEF ReaderTypes
        <5>3. launched'[i] = launched[i] \/ launched'[i] = launched[i] + 1
          BY <5>1, <5>2
        <5> QED BY <4>1, <5>3
      <4>3. CASE ~LaunchMission(r)
        <5>1. launched' = launched
          BY <1>4, <4>3 DEF PassStep, LoadOffset, ReadLines, ReadLinesRaises, OpenOffset,
                            SaveOffset, KillReader
        <5> QED BY <4>1, <5>1
      <4> QED BY <4>2, <4>3
    <3>2. launched[i] \in Nat /\ launched'[i] \in Nat
      BY <1>0, ReaderTypesStep DEF ReaderTypes
    <3> QED BY <2>1, <2>2, <3>1, <3>2 DEF Served, HasRule
  <2>3. ASSUME NEW q \in Readers, q # r PROVE PassServed(q)'
    <3>1. reader'[q] = reader[q]
      BY <1>4, <2>3 DEF PassStep, LoadOffset, ReadLines, ReadLinesRaises, LaunchMission,
                        OpenOffset, SaveOffset, KillReader, ReaderTypes
    <3>2. ASSUME reader[q].pc # "idle", NEW i \in 1..(reader[q].at - 1)
          PROVE  Served(i)'
      <4>1. i \in 1..Len(log) /\ Served(i)
        BY <1>0, <1>2, <3>2 DEF PassesServed, PassServed
      <4> QED BY <2>2, <4>1
    <3> QED BY <2>1, <3>1, <3>2 DEF PassesServed, PassServed
  <2>4. ASSUME offset' = offset PROVE AtLeastOnce' /\ offset' <= Len(log')
    <3>1. ASSUME NEW i \in 1..offset PROVE Served(i)'
      <4>1. i \in 1..Len(log)
        BY <1>0 DEF PassesServed, ReaderTypes
      <4> QED BY <2>2, <4>1 DEF PassesServed, AtLeastOnce, Served
    <3> QED BY <2>1, <2>4, <3>1 DEF AtLeastOnce, Served, HasRule, PassesServed
  <2>5. CASE LoadOffset(r)
    <3>1. reader'[r] = [pc |-> "loaded", at |-> offset + 1, upto |-> 0]
      BY <2>5 DEF LoadOffset, ReaderTypes
    <3>2. (offset + 1) - 1 = offset
      BY DEF ReaderTypes
    <3>3. PassServed(r)'
      BY <2>1, <2>4, <2>5, <3>1, <3>2
      DEF PassServed, LoadOffset, AtLeastOnce, Served, HasRule, PassesServed
    <3> QED BY <2>3, <2>4, <2>5, <3>3 DEF PassesServed, LoadOffset
  <2>6. CASE ReadLines(r)
    <3>1. reader'[r] = [reader[r] EXCEPT !.pc = "launching", !.upto = Len(log)]
      BY <2>6 DEF ReadLines, ReaderTypes, Passes
    <3>2. /\ reader'[r].pc = "launching" /\ reader'[r].at = reader[r].at
          /\ reader'[r].upto = Len(log)
      BY <3>1 DEF ReaderTypes, Passes
    <3>3. /\ reader[r].at - 1 <= Len(log)
          /\ \A i \in 1..(reader[r].at - 1) : Served(i)
      BY <2>6 DEF ReadLines, PassesServed, PassServed
    <3>4. ASSUME NEW i \in 1..(reader[r].at - 1) PROVE Served(i)'
      <4>1. i \in 1..Len(log)
        BY <1>0, <1>2, <3>3
      <4> QED BY <2>2, <3>3, <4>1
    <3>5. ASSUME NEW i \in 1..Len(log) PROVE log[i].told # {}
      <4>1. CASE i < reader[r].at
        <5>1. i \in 1..(reader[r].at - 1)
          BY <1>0, <1>2, <4>1
        <5> QED BY <3>3, <5>1 DEF Served
      <4>2. CASE i >= reader[r].at
        <5>1. i \in NewLines(r)
          BY <1>0, <1>2, <4>2 DEF NewLines
        <5> QED BY <2>6, <5>1 DEF ReadLines, LogTypes
      <4> QED BY <1>0, <1>2, <4>1, <4>2
    <3>6. reader[r].at <= Len(log) + 1
      BY <1>0, <1>2, <3>3
    <3>7. PassServed(r)'
      BY <1>0, <2>1, <3>2, <3>3, <3>4, <3>5, <3>6 DEF PassServed
    <3> QED BY <2>3, <2>4, <2>6, <3>7 DEF PassesServed, ReadLines
  <2>7. CASE LaunchMission(r)
    <3>0. PICK a \in Nat : a = reader[r].at
      BY <1>2
    <3>1. reader'[r] = [reader[r] EXCEPT !.at = @ + 1]
      BY <2>7 DEF LaunchMission, ReaderTypes, Passes
    <3>2. /\ reader'[r].pc = "launching" /\ reader'[r].at = a + 1
          /\ reader'[r].upto = reader[r].upto
      BY <2>7, <3>0, <3>1 DEF LaunchMission, ReaderTypes, Passes
    <3>3. /\ a <= reader[r].upto /\ reader[r].upto <= Len(log)
          /\ \A i \in 1..(a - 1) : Served(i)
          /\ \A i \in 1..reader[r].upto : log[i].told # {}
      BY <2>7, <3>0 DEF LaunchMission, PassesServed, PassServed
    <3>4. a \in 1..Len(log) /\ a \in 1..reader[r].upto
      BY <1>0, <1>2, <3>0, <3>3
    <3>5. Served(a)'
      <4>1. log[a].told # {}
        BY <3>3, <3>4
      <4>2. CASE HasRule(a)
        <5>1. launched[a] \in Nat /\ a \in 1..MaxLines /\ launched \in [1..MaxLines -> Nat]
          BY <1>0, <3>4 DEF ReaderTypes
        <5>2. CASE launched[a] < CountCap
          <6>1. launched' = [launched EXCEPT ![a] = @ + 1]
            BY <2>7, <3>0, <4>2, <5>2 DEF LaunchMission
          <6>2. launched'[a] >= 1
            BY <5>1, <6>1
          <6> QED BY <2>1, <4>1, <6>2 DEF Served, HasRule
        <5>3. CASE ~(launched[a] < CountCap)
          <6>1. launched[a] >= 1
            BY <5>1, <5>3, SignalBusAssumption
          <6> QED BY <2>2, <3>4, <4>1, <6>1 DEF Served
        <5> QED BY <5>2, <5>3
      <4>3. CASE ~HasRule(a)
        BY <2>1, <4>1, <4>3 DEF Served, HasRule
      <4> QED BY <4>2, <4>3
    <3>6. ASSUME NEW i \in 1..((a + 1) - 1) PROVE Served(i)'
      <4>1. i = a \/ (i \in 1..(a - 1) /\ i \in 1..Len(log))
        BY <1>0, <1>2, <3>4
      <4> QED BY <2>2, <3>3, <3>5, <4>1
    <3>7. a + 1 <= reader[r].upto + 1 /\ (a + 1) - 1 <= Len(log)
      BY <1>0, <1>2, <3>3
    <3>8. PassServed(r)'
      BY <2>1, <3>2, <3>3, <3>6, <3>7 DEF PassServed
    <3> QED BY <2>3, <2>4, <2>7, <3>8 DEF PassesServed, LaunchMission
  <2>8. CASE SaveOffset(r)
    <3>1. offset' = reader[r].upto /\ reader'[r].pc = "idle"
      BY <2>8 DEF SaveOffset, ReaderTypes, NoPass
    <3>2. /\ reader[r].at = reader[r].upto + 1 /\ reader[r].upto <= Len(log)
          /\ \A i \in 1..(reader[r].at - 1) : Served(i)
      BY <2>8 DEF SaveOffset, PassesServed, PassServed
    <3>3. ASSUME NEW i \in 1..reader[r].upto PROVE Served(i)'
      <4>1. i \in 1..(reader[r].at - 1) /\ i \in 1..Len(log)
        BY <1>0, <1>2, <3>2
      <4> QED BY <2>2, <3>2, <4>1
    <3>4. AtLeastOnce' /\ offset' <= Len(log')
      BY <2>1, <3>1, <3>2, <3>3 DEF AtLeastOnce, Served, HasRule
    <3>5. PassServed(r)'
      BY <3>1 DEF PassServed
    <3> QED BY <2>3, <3>4, <3>5 DEF PassesServed
  <2>10. CASE OpenOffset(r)
    <3>1. reader'[r] = [reader[r] EXCEPT !.pc = "saving"]
      BY <2>10 DEF OpenOffset, ReaderTypes, Passes
    <3>2. /\ reader'[r].pc = "saving" /\ reader'[r].at = reader[r].at
          /\ reader'[r].upto = reader[r].upto /\ offset' = offset
      BY <2>10, <3>1 DEF OpenOffset, ReaderTypes, Passes
    <3>3. /\ reader[r].at - 1 <= Len(log)
          /\ \A i \in 1..(reader[r].at - 1) : Served(i)
          /\ reader[r].at > reader[r].upto /\ reader[r].at <= reader[r].upto + 1
          /\ reader[r].upto <= Len(log)
          /\ \A i \in 1..reader[r].upto : log[i].told # {}
      BY <2>10 DEF OpenOffset, PassesServed, PassServed
    <3>4. reader[r].at = reader[r].upto + 1
      BY <1>2, <3>3
    <3>5. ASSUME NEW i \in 1..(reader[r].at - 1) PROVE Served(i)'
      <4>1. i \in 1..Len(log)
        BY <1>0, <1>2, <3>3
      <4> QED BY <2>2, <3>3, <4>1
    <3>6. PassServed(r)'
      BY <2>1, <3>2, <3>3, <3>4, <3>5 DEF PassServed
    <3> QED BY <2>3, <2>4, <3>2, <3>6 DEF PassesServed
  <2>9. CASE ReadLinesRaises(r) \/ KillReader(r)
    <3>1. offset' = offset /\ reader'[r].pc = "idle"
      BY <2>9 DEF ReadLinesRaises, KillReader, ReaderTypes, NoPass
    <3>2. PassServed(r)'
      BY <3>1 DEF PassServed
    <3> QED BY <2>3, <2>4, <3>1, <3>2 DEF PassesServed
  <2> QED BY <1>4, <2>5, <2>6, <2>7, <2>8, <2>9, <2>10 DEF PassStep
<1> QED BY <1>3, <1>4, Frames DEF BusNext, busVars

\* However passes overlap and wherever they are killed, each line up to the saved offset
\* told a signal, and the mission of that signal was launched (run_once).
THEOREM EveryServed == BusSpec => []AtLeastOnce
<1>1. BusInit => PassesServed
  <2> SUFFICES ASSUME BusInit PROVE PassesServed
    OBVIOUS
  <2>1. offset = 0 /\ \A r \in Readers : reader[r].pc = "idle"
    BY DEF BusInit, NoPass
  <2>2. Len(log) \in Nat
    BY TypesInit DEF BusTypes, LogTypes
  <2> QED BY <2>1, <2>2 DEF PassesServed, PassServed, AtLeastOnce
<1>2. BusTypes /\ PassesServed /\ [BusNext]_busVars => PassesServed'
  BY ServedStep
<1>3. PassesServed => AtLeastOnce
  BY DEF PassesServed
<1> QED BY <1>1, <1>2, <1>3, BusTypeSafety, PTL DEF BusSpec

-----------------------------------------------------------------------------
(* Undisturbed passes launch a line once *)

LEMMA UndisturbedStep ==
  ASSUME BusTypes, PassesServed, UndisturbedOnce, [BusNext]_busVars
  PROVE  UndisturbedOnce'
<1> USE DEF BusTypes
<1>1. \A r \in Readers : reader[r].at \in Nat \ {0} /\ reader[r].upto \in Nat
  BY DEF ReaderTypes, Passes
<1>2. CASE UNCHANGED readerVars
  BY <1>2 DEF readerVars, UndisturbedOnce, Undisturbed, Reading
<1>3. ASSUME NEW r \in Readers, PassStep(r) \/ KillReader(r), ~disturbed' PROVE Undisturbed'
  <2>1. Undisturbed /\ ~KillReader(r)
    <3>1. ~KillReader(r)
      BY <1>3 DEF KillReader
    <3>2. LoadOffset(r) => ~disturbed
      BY <1>3 DEF LoadOffset
    <3>3. ~LoadOffset(r) => disturbed' = disturbed
      BY <1>3, <3>1 DEF PassStep, ReadLines, ReadLinesRaises, LaunchMission, OpenOffset,
                         SaveOffset
    <3>4. ~disturbed
      BY <1>3, <3>2, <3>3
    <3> QED BY <3>1, <3>4 DEF UndisturbedOnce
  <2>2. \A q \in Readers \ {r} : ~Reading(q) /\ reader'[q] = reader[q]
    <3>1. \A q \in Readers \ {r} : ~Reading(q)
      <4>1. CASE Reading(r)
        BY <2>1, <4>1 DEF Undisturbed
      <4>2. CASE ~Reading(r)
        BY <1>3, <2>1, <4>2 DEF PassStep, LoadOffset, ReadLines, ReadLinesRaises,
                                LaunchMission, OpenOffset, SaveOffset, Reading
      <4> QED BY <4>1, <4>2
    <3>2. \A q \in Readers \ {r} : reader'[q] = reader[q]
      BY <1>3 DEF PassStep, LoadOffset, ReadLines, ReadLinesRaises, LaunchMission,
                  OpenOffset, SaveOffset, KillReader, ReaderTypes
    <3> QED BY <3>1, <3>2
  <2>3. \A q \in Readers \ {r} : ~Reading(q)'
    BY <2>2 DEF Reading
  <2>4. \A p, q \in Readers : Reading(p)' /\ Reading(q)' => p = q
    BY <2>3
  <2>5. CASE LoadOffset(r)
    <3>1. /\ reader'[r].pc = "loaded" /\ reader'[r].at = offset + 1
          /\ UNCHANGED <<offset, launched>>
      BY <2>5 DEF LoadOffset, ReaderTypes
    <3>2. \A i \in 1..MaxLines : i > offset => launched[i] = 0
      BY <2>1, <2>2, <2>5 DEF LoadOffset, Undisturbed, Reading
    <3>3. \A i \in 1..MaxLines : i >= offset + 1 => i > offset
      BY DEF ReaderTypes
    <3> QED BY <2>1, <2>3, <2>4, <3>1, <3>2, <3>3 DEF Undisturbed, Reading
  <2>6. CASE ReadLines(r)
    <3>1. /\ reader[r].pc = "loaded" /\ reader'[r].pc = "launching"
          /\ reader'[r].at = reader[r].at /\ UNCHANGED <<offset, launched>>
      BY <2>6 DEF ReadLines, ReaderTypes, Passes
    <3> QED BY <2>1, <2>3, <2>4, <3>1 DEF Undisturbed, Reading
  <2>7. CASE ReadLinesRaises(r)
    <3>1. /\ reader[r].pc = "loaded" /\ reader'[r].pc = "idle"
          /\ UNCHANGED <<offset, launched>>
      BY <2>7 DEF ReadLinesRaises, ReaderTypes, NoPass
    <3>2. reader[r].at = offset + 1
      BY <2>1, <3>1 DEF Undisturbed
    <3>3. \A i \in 1..MaxLines : i > offset => i >= offset + 1
      BY DEF ReaderTypes
    <3>4. \A i \in 1..MaxLines : i > offset => launched[i] = 0
      BY <2>1, <3>1, <3>2, <3>3 DEF Undisturbed, Reading
    <3> QED BY <2>1, <2>3, <2>4, <3>1, <3>4 DEF Undisturbed, Reading
  <2>8. CASE LaunchMission(r)
    <3>0. PICK a \in Nat \ {0} : a = reader[r].at
      BY <1>1
    <3>1. /\ reader[r].pc = "launching" /\ reader'[r].pc = "launching"
          /\ reader'[r].at = a + 1 /\ offset' = offset
          /\ launched' = launched \/ launched' = [launched EXCEPT ![a] = @ + 1]
      BY <2>8, <3>0 DEF LaunchMission, ReaderTypes, Passes
    <3>2. /\ \A i \in 1..MaxLines : i >= a => launched[i] = 0
          /\ \A i \in 1..MaxLines : launched[i] <= 1
      BY <2>1, <3>0, <3>1 DEF Undisturbed, Reading
    <3>3. launched \in [1..MaxLines -> Nat]
      BY DEF ReaderTypes
    <3>4. ASSUME NEW i \in 1..MaxLines
          PROVE  launched'[i] <= 1 /\ (i >= a + 1 => launched'[i] = 0)
      <4>1. CASE i = a
        <5>1. launched[i] = 0 /\ ~(i >= a + 1)
          BY <3>2, <4>1
        <5>2. launched'[i] = launched[i] \/ launched'[i] = launched[i] + 1
          BY <3>1, <3>3
        <5> QED BY <5>1, <5>2
      <4>2. CASE i # a
        <5>1. launched'[i] = launched[i]
          BY <3>1, <3>3, <4>2
        <5>2. i >= a + 1 => i >= a
          OBVIOUS
        <5> QED BY <3>2, <5>1, <5>2
      <4> QED BY <4>1, <4>2
    <3> QED BY <2>3, <2>4, <3>1, <3>4 DEF Undisturbed, Reading
  <2>9. CASE SaveOffset(r)
    <3>1. /\ reader[r].pc = "saving" /\ reader'[r].pc = "idle"
          /\ offset' = reader[r].upto /\ launched' = launched
      BY <2>9 DEF SaveOffset, ReaderTypes, NoPass
    <3>2. reader[r].at <= reader[r].upto + 1
      BY <3>1 DEF PassesServed, PassServed
    <3>3. \A i \in 1..MaxLines : i > reader[r].upto => i >= reader[r].at
      BY <1>1, <3>2
    <3>4. \A i \in 1..MaxLines : i > reader[r].upto => launched[i] = 0
      BY <2>1, <3>1, <3>3 DEF Undisturbed, Reading
    <3> QED BY <2>1, <2>3, <2>4, <3>1, <3>4 DEF Undisturbed, Reading
  <2>10. CASE OpenOffset(r)
    <3>1. /\ reader[r].pc = "launching" /\ reader'[r].pc = "saving"
          /\ reader'[r].at = reader[r].at /\ UNCHANGED <<offset, launched>>
      BY <2>10 DEF OpenOffset, ReaderTypes, Passes
    <3> QED BY <2>1, <2>3, <2>4, <3>1 DEF Undisturbed, Reading
  <2> QED BY <1>3, <2>1, <2>5, <2>6, <2>7, <2>8, <2>9, <2>10 DEF PassStep
<1> QED BY <1>2, <1>3, Frames DEF BusNext, busVars, UndisturbedOnce

\* Passes that are not killed and do not overlap launch the mission of a line once.
THEOREM OnceUndisturbed == BusSpec => []OncePerLine
<1>1. BusInit => PassesServed /\ UndisturbedOnce
  <2> SUFFICES ASSUME BusInit PROVE PassesServed /\ UndisturbedOnce
    OBVIOUS
  <2>1. offset = 0 /\ \A r \in Readers : reader[r].pc = "idle"
    BY DEF BusInit, NoPass
  <2>2. Len(log) \in Nat
    BY TypesInit DEF BusTypes, LogTypes
  <2>3. \A i \in 1..MaxLines : launched[i] = 0
    BY DEF BusInit
  <2> QED BY <2>1, <2>2, <2>3 DEF PassesServed, PassServed, AtLeastOnce, UndisturbedOnce,
                                  Undisturbed, Reading
<1>2. BusTypes /\ PassesServed /\ UndisturbedOnce /\ [BusNext]_busVars
      => PassesServed' /\ UndisturbedOnce'
  BY ServedStep, UndisturbedStep
<1>3. UndisturbedOnce => OncePerLine
  BY DEF UndisturbedOnce, Undisturbed, OncePerLine
<1> QED BY <1>1, <1>2, <1>3, BusTypeSafety, PTL DEF BusSpec

-----------------------------------------------------------------------------
(* What the bridge recorded is on the bus *)

LEMMA ConcatFacts ==
  ASSUME NEW S, NEW a \in Seq(S), NEW b \in Seq(S)
  PROVE  /\ Len(a \o b) = Len(a) + Len(b)
         /\ \A n \in 1..Len(a) : n \in 1..Len(a \o b) /\ (a \o b)[n] = a[n]
         /\ \A k \in 1..Len(b) : /\ Len(a) + k \in 1..Len(a \o b)
                                 /\ (a \o b)[Len(a) + k] = b[k]
         /\ \A n \in 1..Len(a \o b) :
              \/ n \in 1..Len(a) /\ (a \o b)[n] = a[n]
              \/ n - Len(a) \in 1..Len(b) /\ (a \o b)[n] = b[n - Len(a)]
<1>1. Len(a \o b) = Len(a) + Len(b) /\ Len(a) \in Nat /\ Len(b) \in Nat
  OBVIOUS
<1>2. ASSUME NEW n \in 1..Len(a) PROVE n \in 1..Len(a \o b) /\ (a \o b)[n] = a[n]
  <2>1. n \in 1..(Len(a) + Len(b))
    BY <1>1
  <2> QED BY <1>1, <2>1
<1>3. ASSUME NEW k \in 1..Len(b)
      PROVE  Len(a) + k \in 1..Len(a \o b) /\ (a \o b)[Len(a) + k] = b[k]
  <2>1. Len(a) + k \in 1..(Len(a) + Len(b)) /\ ~(Len(a) + k <= Len(a)) /\ (Len(a) + k) - Len(a) = k
    BY <1>1
  <2> QED BY <1>1, <2>1
<1>4. ASSUME NEW n \in 1..Len(a \o b)
      PROVE  \/ n \in 1..Len(a) /\ (a \o b)[n] = a[n]
             \/ n - Len(a) \in 1..Len(b) /\ (a \o b)[n] = b[n - Len(a)]
  <2>1. n \in 1..(Len(a) + Len(b))
    BY <1>1
  <2>2. CASE n <= Len(a)
    BY <1>1, <2>1, <2>2
  <2>3. CASE ~(n <= Len(a))
    <3>1. n - Len(a) \in 1..Len(b)
      BY <1>1, <2>1, <2>3
    <3> QED BY <1>1, <2>1, <2>3, <3>1
  <2> QED BY <2>2, <2>3
<1> QED BY <1>1, <1>2, <1>3, <1>4

LEMMA OnBusKept ==
  ASSUME LogTypes, Grown, NEW s, OnBus(s)
  PROVE  OnBus(s)'
<1>1. PICK i \in 1..Len(log) : s \in log[i].holds
  BY DEF OnBus
<1>2. Len(log) \in Nat /\ i \in 1..Len(log') /\ s \in log'[i].holds
  BY <1>1 DEF Grown, LogTypes
<1> QED BY <1>2 DEF OnBus

\* The steps in which a run writes its buffer.
LEMMA BridgeWrites ==
  ASSUME BusTypes, NEW b \in Bridges, Room(Len(bridge[b].buffer)), Write(bridge[b].buffer)
  PROVE  Carried(bridge[b].buffer)
BY WriteFacts, RunTypes DEF BusTypes

LEMMA KnownStep ==
  ASSUME BusTypes, KnownOnBus, [BusNext]_busVars
  PROVE  KnownOnBus'
<1> USE DEF BusTypes
<1>1. LogTypes /\ Grown
  BY LogStep
<1>2. ASSUME NEW f \in processed, NEW k \in 1..Len(Files[f]) PROVE OnBus(Files[f][k])'
  <2>1. OnBus(Files[f][k])
    BY DEF KnownOnBus, RecordedIsOnBus, OnBus
  <2> QED BY <1>1, <2>1, OnBusKept
<1>3. (processed' = processed) => RecordedIsOnBus'
  BY <1>2 DEF RecordedIsOnBus, OnBus
<1>4. ASSUME NEW c \in Bridges, bridge'[c] = bridge[c] PROVE KnownCarried(c)'
  <2> SUFFICES ASSUME NEW f \in bridge[c].known, NEW k \in 1..Len(Files[f])
               PROVE  OnBus(Files[f][k])' \/ Buffered(c, Files[f][k])'
    BY <1>4 DEF KnownCarried
  <2>1. OnBus(Files[f][k]) \/ Buffered(c, Files[f][k])
    BY DEF KnownOnBus, KnownCarried
  <2>2. Buffered(c, Files[f][k])' = Buffered(c, Files[f][k])
    BY <1>4 DEF Buffered
  <2> QED BY <1>1, <2>1, <2>2, OnBusKept
<1>5. (UNCHANGED <<bridge, processed>>) => KnownOnBus'
  BY <1>3, <1>4 DEF KnownOnBus
<1>6. ASSUME NEW b \in Bridges, BridgeStep(b) PROVE KnownOnBus'
  <2>1. \A c \in Bridges \ {b} : KnownCarried(c)'
    BY <1>4, <1>6, OthersStay
  <2>2. ASSUME bridge'[b].known = {} PROVE KnownCarried(b)'
    BY <2>2 DEF KnownCarried
  <2>3. ~SaveBridge(b) => processed' = processed
    BY <1>6 DEF BridgeStep, StartBridge, ListExports, FlushBridge, CloseBridge, OpenBridgeState,
                KillBridge, ReadExport, ReadExportRaises
  <2>4. CASE StartBridge(b)
    <3>1. bridge'[b].known = processed
      BY <2>4, StartFields
    <3>2. processed' = processed
      BY <2>4 DEF StartBridge
    <3>3. KnownCarried(b)'
      BY <1>2, <3>1 DEF KnownCarried
    <3> QED BY <1>3, <2>1, <3>2, <3>3 DEF KnownOnBus
  <2>5. CASE ListExports(b) \/ OpenBridgeState(b)
    <3>1. bridge'[b].known = bridge[b].known /\ bridge'[b].buffer = bridge[b].buffer
      BY <2>5, ListFields, OpenFields
    <3>2. processed' = processed
      BY <2>5 DEF ListExports, OpenBridgeState
    <3>3. ASSUME NEW f \in bridge[b].known, NEW k \in 1..Len(Files[f])
          PROVE  OnBus(Files[f][k])' \/ Buffered(b, Files[f][k])'
      <4>1. OnBus(Files[f][k]) \/ Buffered(b, Files[f][k])
        BY DEF KnownOnBus, KnownCarried
      <4>2. Buffered(b, Files[f][k])' = Buffered(b, Files[f][k])
        BY <3>1 DEF Buffered
      <4> QED BY <1>1, <4>1, <4>2, OnBusKept
    <3>4. KnownCarried(b)'
      BY <3>1, <3>3 DEF KnownCarried
    <3> QED BY <1>3, <2>1, <3>2, <3>4 DEF KnownOnBus
  <2>6. ASSUME NEW f \in FileNumbers, ReadExport(b, f) PROVE KnownOnBus'
    <3>1. PICK x \in Seq(Signals), y \in Seq(Signals) : x = bridge[b].buffer /\ y = Files[f]
      BY FilesTypes, RunTypes
    <3>2. /\ bridge'[b].known = bridge[b].known \cup {f} /\ bridge'[b].buffer = x \o y
          /\ processed' = processed
      BY <2>6, <3>1, ReadFields DEF ReadExport
    <3>3. /\ \A n \in 1..Len(x) : n \in 1..Len(x \o y) /\ (x \o y)[n] = x[n]
          /\ \A k \in 1..Len(y) : Len(x) + k \in 1..Len(x \o y) /\ (x \o y)[Len(x) + k] = y[k]
      BY ConcatFacts
    <3>4. ASSUME NEW g \in bridge[b].known \cup {f}, NEW k \in 1..Len(Files[g])
          PROVE  OnBus(Files[g][k])' \/ Buffered(b, Files[g][k])'
      <4>1. CASE g = f
        <5>1. k \in 1..Len(y) /\ Files[g][k] = y[k]
          BY <3>1, <4>1
        <5> QED BY <3>2, <3>3, <5>1 DEF Buffered
      <4>2. CASE g \in bridge[b].known
        <5>1. OnBus(Files[g][k]) \/ \E n \in 1..Len(x) : x[n] = Files[g][k]
          BY <3>1, <4>2 DEF KnownOnBus, KnownCarried, Buffered
        <5>2. CASE OnBus(Files[g][k])
          BY <1>1, <5>2, OnBusKept
        <5>3. CASE \E n \in 1..Len(x) : x[n] = Files[g][k]
          BY <3>2, <3>3, <5>3 DEF Buffered
        <5> QED BY <5>1, <5>2, <5>3
      <4> QED BY <4>1, <4>2
    <3>5. KnownCarried(b)'
      BY <3>2, <3>4 DEF KnownCarried
    <3> QED BY <1>3, <2>1, <3>2, <3>5 DEF KnownOnBus
  <2>7. CASE FlushBridge(b) \/ CloseBridge(b)
    <3>1. /\ bridge'[b].known = bridge[b].known /\ processed' = processed
          /\ Room(Len(bridge[b].buffer)) /\ Write(bridge[b].buffer)
      BY <2>7, WriteFields DEF FlushBridge, CloseBridge
    <3>2. ASSUME NEW f \in bridge[b].known, NEW k \in 1..Len(Files[f])
          PROVE  OnBus(Files[f][k])'
      <4>1. CASE OnBus(Files[f][k])
        BY <1>1, <4>1, OnBusKept
      <4>2. CASE Buffered(b, Files[f][k])
        BY <3>1, <4>2, BridgeWrites DEF Carried, OnBus, Buffered
      <4> QED BY <4>1, <4>2 DEF KnownOnBus, KnownCarried
    <3>3. KnownCarried(b)'
      BY <3>1, <3>2 DEF KnownCarried
    <3> QED BY <1>3, <2>1, <3>1, <3>3 DEF KnownOnBus
  <2>8. CASE KillBridge(b) \/ \E f \in FileNumbers : ReadExportRaises(b, f)
    <3>1. bridge'[b].known = {}
      BY <2>8, EndFields DEF EndsRun
    <3>2. processed' = processed
      BY <2>8 DEF KillBridge, ReadExportRaises
    <3> QED BY <1>3, <2>1, <2>2, <3>1, <3>2 DEF KnownOnBus
  <2>9. CASE SaveBridge(b)
    <3>1. /\ processed' = bridge[b].known /\ log' = log /\ bridge[b].pc = "saving"
      BY <2>9 DEF SaveBridge, logVars
    <3>2. bridge'[b].known = {}
      BY <2>9, EndFields DEF EndsRun
    <3>3. bridge[b].buffer = <<>>
      BY <3>1 DEF BridgeTypes, Quiet
    <3>4. ASSUME NEW f \in bridge[b].known, NEW k \in 1..Len(Files[f]) PROVE OnBus(Files[f][k])
      <4>1. ~Buffered(b, Files[f][k])
        BY <3>3 DEF Buffered
      <4> QED BY <4>1 DEF KnownOnBus, KnownCarried
    <3>5. RecordedIsOnBus'
      BY <3>1, <3>4 DEF RecordedIsOnBus, OnBus
    <3> QED BY <2>1, <2>2, <3>2, <3>5 DEF KnownOnBus
  <2> QED BY <1>6, <2>4, <2>5, <2>6, <2>7, <2>8, <2>9 DEF BridgeStep
<1>7. CASE WriterNext
  BY <1>5, <1>7 DEF WriterNext, EmitDirect, EmitDirectCutShort, ExportAdvances, bridgeVars
<1>8. CASE \E r \in Readers : PassStep(r) \/ KillReader(r)
  BY <1>5, <1>8, Frames DEF bridgeVars
<1>9. CASE UNCHANGED busVars
  BY <1>5, <1>9 DEF busVars, bridgeVars
<1> QED BY <1>6, <1>7, <1>8, <1>9 DEF BusNext

\* Every signal of a file the bridge recorded is in the log, wherever the bridge was
\* killed and whatever file raised (bridge_signals).
THEOREM RecordedOnBus == BusSpec => []RecordedIsOnBus
<1>1. BusInit => KnownOnBus
  BY NoBridgeTypes DEF BusInit, KnownOnBus, KnownCarried, RecordedIsOnBus
<1>2. BusTypes /\ KnownOnBus /\ [BusNext]_busVars => KnownOnBus'
  BY KnownStep
<1>3. KnownOnBus => RecordedIsOnBus
  BY DEF KnownOnBus
<1> QED BY <1>1, <1>2, <1>3, BusTypeSafety, PTL DEF BusSpec

-----------------------------------------------------------------------------
(* Why a signal is imported again *)

LEMMA LinesCard ==
  ASSUME LogTypes, NEW s
  PROVE  IsFiniteSet(LinesOf(s)) /\ Cardinality(LinesOf(s)) \in Nat
<1>1. LinesOf(s) \subseteq 1..Len(log) /\ IsFiniteSet(1..Len(log))
  BY FS_Interval DEF LinesOf, LogTypes
<1> QED BY <1>1, FS_Subset, FS_CardinalityType

LEMMA NextLinesCard ==
  ASSUME LogTypes', NEW s
  PROVE  Cardinality(LinesOf(s)') \in Nat
<1> DEFINE L == LinesOf(s)'
           n == Len(log')
<1>1. L \subseteq 1..n /\ n \in Nat
  BY DEF LinesOf, LogTypes
<1> HIDE DEF L, n
<1>2. IsFiniteSet(1..n)
  BY <1>1, FS_Interval
<1>3. Cardinality(L) \in Nat
  BY <1>1, <1>2, FS_Subset, FS_CardinalityType
<1> QED BY <1>3 DEF L

\* Signals that are not written get no line.
LEMMA LinesSame ==
  ASSUME LogTypes, NEW ss, Carried(ss), NEW s, \A k \in 1..Len(ss) : ss[k] # s
  PROVE  /\ Cardinality(LinesOf(s)') \in Nat
         /\ Cardinality(LinesOf(s)') <= Cardinality(LinesOf(s))
<1>1. LinesOf(s)' \subseteq LinesOf(s)
  <2> SUFFICES ASSUME NEW i \in 1..Len(log'), s \in log'[i].holds PROVE i \in LinesOf(s)
    BY DEF LinesOf
  <2>1. i <= Len(log) /\ s \in log[i].holds
    BY DEF Carried
  <2>2. i \in 1..Len(log)
    BY <2>1 DEF LogTypes
  <2> QED BY <2>1, <2>2 DEF LinesOf
<1> QED BY <1>1, LinesCard, FS_Subset, FS_CardinalityType

\* Signals written once get one line at most.
LEMMA LinesOne ==
  ASSUME LogTypes, NEW ss, Carried(ss), NEW s,
         \A k, m \in 1..Len(ss) : ss[k] = ss[m] => k = m
  PROVE  /\ Cardinality(LinesOf(s)') \in Nat
         /\ Cardinality(LinesOf(s)') <= Cardinality(LinesOf(s)) + 1
<1>1. Cardinality(LinesOf(s)) \in Nat /\ IsFiniteSet(LinesOf(s))
  BY LinesCard
<1>2. CASE \A k \in 1..Len(ss) : ss[k] # s
  BY <1>1, <1>2, LinesSame
<1>3. CASE \E k \in 1..Len(ss) : ss[k] = s
  <2>1. PICK k \in 1..Len(ss) : ss[k] = s
    BY <1>3
  <2>2. Kept \in Int
    BY DEF Kept, LogTypes
  <2>3. LinesOf(s)' \subseteq LinesOf(s) \cup {Kept + k}
    <3> SUFFICES ASSUME NEW i \in 1..Len(log'), s \in log'[i].holds
                 PROVE  i \in LinesOf(s) \cup {Kept + k}
      BY DEF LinesOf
    <3>1. CASE i <= Len(log) /\ s \in log[i].holds
      <4>1. i \in 1..Len(log)
        BY <3>1 DEF LogTypes
      <4> QED BY <3>1, <4>1 DEF LinesOf
    <3>2. CASE i - Kept \in 1..Len(ss) /\ s = ss[i - Kept]
      <4>1. i - Kept = k
        BY <2>1, <3>2
      <4>2. i = Kept + k
        BY <2>2, <4>1
      <4> QED BY <4>2
    <3> QED BY <3>1, <3>2 DEF Carried
  <2>4. /\ IsFiniteSet(LinesOf(s) \cup {Kept + k})
        /\ Cardinality(LinesOf(s) \cup {Kept + k}) <= Cardinality(LinesOf(s)) + 1
        /\ Cardinality(LinesOf(s) \cup {Kept + k}) \in Nat
    <3> DEFINE L == LinesOf(s)
               x == Kept + k
    <3>1. IsFiniteSet(L) /\ Cardinality(L) \in Nat
      BY <1>1
    <3> HIDE DEF L, x
    <3>2. /\ IsFiniteSet(L \cup {x})
          /\ Cardinality(L \cup {x}) = IF x \in L THEN Cardinality(L) ELSE Cardinality(L) + 1
      BY <3>1, FS_AddElement
    <3>3. Cardinality(L \cup {x}) = Cardinality(L) \/ Cardinality(L \cup {x}) = Cardinality(L) + 1
      BY <3>2
    <3>4. Cardinality(L \cup {x}) <= Cardinality(L) + 1 /\ Cardinality(L \cup {x}) \in Nat
      BY <3>1, <3>3
    <3> QED BY <3>2, <3>4 DEF L, x
  <2>5. /\ Cardinality(LinesOf(s)') \in Nat
        /\ Cardinality(LinesOf(s)') <= Cardinality(LinesOf(s) \cup {Kept + k})
    BY <2>3, <2>4, FS_Subset, FS_CardinalityType
  <2> QED BY <1>1, <2>4, <2>5
<1> QED BY <1>2, <1>3

LEMMA ShapeStep ==
  ASSUME ExportsDistinct, BusTypes, BridgeShape, [BusNext]_busVars
  PROVE  BridgeShape'
<1> USE DEF BusTypes
<1>1. ASSUME NEW c \in Bridges, bridge'[c] = bridge[c] PROVE RunShape(c)'
  BY <1>1 DEF BridgeShape, RunShape
<1>2. ASSUME bridge' = bridge PROVE BridgeShape'
  BY <1>1, <1>2 DEF BridgeShape
<1>3. ASSUME NEW b \in Bridges, BridgeStep(b) PROVE BridgeShape'
  <2>0. bridge[b] \in Runs /\ RunShape(b)
    BY RunTypes DEF BridgeShape
  <2>1. ASSUME bridge'[b].buffer = <<>>, bridge'[b].todo \cap bridge'[b].known = {}
        PROVE  RunShape(b)'
    <3>1. 1..Len(bridge'[b].buffer) = {}
      BY <2>1
    <3> QED BY <2>1, <3>1 DEF RunShape
  <2>2. CASE StartBridge(b)
    <3>1. bridge'[b].buffer = <<>> /\ bridge'[b].todo = {}
      BY <2>2, StartFields
    <3> QED BY <2>1, <3>1, <1>1, <1>3, OthersStay DEF BridgeShape
  <2>3. CASE ListExports(b)
    <3>1. /\ bridge'[b].buffer = bridge[b].buffer /\ bridge'[b].known = bridge[b].known
          /\ bridge'[b].todo = Listed \ bridge[b].known /\ bridge[b].pc = "loaded"
      BY <2>3, ListFields DEF ListExports
    <3>2. bridge[b].buffer = <<>>
      BY <3>1 DEF BridgeTypes, Quiet
    <3> QED BY <2>1, <3>1, <3>2, <1>1, <1>3, OthersStay DEF BridgeShape
  <2>4. ASSUME NEW f \in FileNumbers, ReadExport(b, f) PROVE RunShape(b)'
    <3>1. PICK x \in Seq(Signals), y \in Seq(Signals) : x = bridge[b].buffer /\ y = Files[f]
      BY FilesTypes, RunTypes
    <3>2. /\ bridge'[b].todo = bridge[b].todo \ {f} /\ bridge'[b].known = bridge[b].known \cup {f}
          /\ bridge'[b].buffer = x \o y /\ f \in bridge[b].todo
      BY <2>4, <3>1, ReadFields DEF ReadExport, NextFile
    <3>3. \A n \in 1..Len(x \o y) : \/ n \in 1..Len(x) /\ (x \o y)[n] = x[n]
                                    \/ n - Len(x) \in 1..Len(y) /\ (x \o y)[n] = y[n - Len(x)]
      BY ConcatFacts
    <3>4. f \notin bridge[b].known
      BY <2>0, <3>2 DEF RunShape
    <3>5. \A n \in 1..Len(x) : \E g \in bridge[b].known : \E k \in 1..Len(Files[g]) :
            x[n] = Files[g][k]
      BY <2>0, <3>1 DEF RunShape
    \* What the buffer holds is of other files.
    <3>6. ASSUME NEW n \in 1..Len(x), NEW k \in 1..Len(y) PROVE x[n] # y[k]
      <4>1. PICK g \in bridge[b].known : \E m \in 1..Len(Files[g]) : x[n] = Files[g][m]
        BY <3>5
      <4>2. g \in FileNumbers /\ g # f
        BY <3>4, RunTypes
      <4> QED BY <3>1, <4>1, <4>2 DEF ExportsDistinct
    <3>7. ASSUME NEW n \in 1..Len(x \o y), NEW m \in 1..Len(x \o y), (x \o y)[n] = (x \o y)[m]
          PROVE  n = m
      <4>1. CASE n \in 1..Len(x) /\ m \in 1..Len(x) /\ x[n] = x[m]
        BY <2>0, <3>1, <4>1 DEF RunShape
      <4>2. CASE n - Len(x) \in 1..Len(y) /\ m - Len(x) \in 1..Len(y)
                 /\ y[n - Len(x)] = y[m - Len(x)]
        <5>1. n - Len(x) = m - Len(x)
          BY <3>1, <4>2 DEF ExportsDistinct
        <5> QED BY <5>1
      <4> QED BY <3>3, <3>6, <3>7, <4>1, <4>2
    <3>8. ASSUME NEW n \in 1..Len(x \o y)
          PROVE  \E g \in bridge[b].known \cup {f} : \E k \in 1..Len(Files[g]) :
                   (x \o y)[n] = Files[g][k]
      <4>1. CASE n \in 1..Len(x) /\ (x \o y)[n] = x[n]
        BY <3>5, <4>1
      <4>2. CASE n - Len(x) \in 1..Len(y) /\ (x \o y)[n] = y[n - Len(x)]
        BY <3>1, <4>2
      <4> QED BY <3>3, <4>1, <4>2
    <3>9. (bridge[b].todo \ {f}) \cap (bridge[b].known \cup {f}) = {}
      BY <2>0 DEF RunShape
    <3>10. \A n, m \in 1..Len(bridge'[b].buffer) :
             bridge'[b].buffer[n] = bridge'[b].buffer[m] => n = m
      BY <3>2, <3>7
    <3>11. \A n \in 1..Len(bridge'[b].buffer) : \E g \in bridge'[b].known :
             \E k \in 1..Len(Files[g]) : bridge'[b].buffer[n] = Files[g][k]
      BY <3>2, <3>8
    <3>12. bridge'[b].todo \cap bridge'[b].known = {}
      BY <3>2, <3>9
    <3> HIDE DEF BusTypes
    <3> QED BY <3>10, <3>11, <3>12 DEF RunShape
  <2>5. CASE FlushBridge(b) \/ CloseBridge(b)
    <3>1. /\ bridge'[b].buffer = <<>> /\ bridge'[b].known = bridge[b].known
          /\ bridge'[b].todo = bridge[b].todo
      BY <2>5, WriteFields
    <3>2. bridge'[b].todo \cap bridge'[b].known = {}
      BY <2>0, <3>1 DEF RunShape
    <3> QED BY <2>1, <3>1, <3>2, <1>1, <1>3, OthersStay DEF BridgeShape
  <2>6. CASE OpenBridgeState(b)
    <3>1. /\ bridge'[b].buffer = bridge[b].buffer /\ bridge'[b].known = bridge[b].known
          /\ bridge'[b].todo = bridge[b].todo
      BY <2>6, OpenFields
    <3>2. RunShape(b)'
      BY <2>0, <3>1 DEF RunShape
    <3> QED BY <3>2, <1>1, <1>3, OthersStay DEF BridgeShape
  <2>7. CASE EndsRun(b)
    <3>1. bridge'[b].buffer = <<>> /\ bridge'[b].todo = {}
      BY <2>7, EndFields
    <3> QED BY <2>1, <3>1, <1>1, <1>3, OthersStay DEF BridgeShape
  <2> QED BY <1>1, <1>3, <2>2, <2>3, <2>4, <2>5, <2>6, <2>7, OthersStay DEF BridgeStep, BridgeShape, EndsRun
<1>4. CASE WriterNext
  BY <1>2, <1>4 DEF WriterNext, EmitDirect, EmitDirectCutShort, ExportAdvances, bridgeVars
<1>5. CASE \E r \in Readers : PassStep(r) \/ KillReader(r)
  BY <1>2, <1>5, Frames DEF bridgeVars
<1>6. CASE UNCHANGED busVars
  BY <1>2, <1>6 DEF busVars, bridgeVars
<1> QED BY <1>3, <1>4, <1>5, <1>6 DEF BusNext

LEMMA AddingCard ==
  ASSUME NEW f, NEW s
  PROVE  IsFiniteSet(Adding(f, s)) /\ Cardinality(Adding(f, s)) \in Nat
<1>1. Adding(f, s) \subseteq Bridges /\ IsFiniteSet(Bridges)
  BY SignalBusAssumption DEF Adding
<1> QED BY <1>1, FS_Subset, FS_CardinalityType

\* The runs that will add a line: those other than b, and b.
LEMMA AddingBut ==
  ASSUME NEW f, NEW s, NEW b \in Bridges
  PROVE  /\ Cardinality(Adding(f, s) \ {b}) \in Nat
         /\ Cardinality(Adding(f, s)) = Cardinality(Adding(f, s) \ {b}) + Bit(Adds(b, f, s))
<1> DEFINE A == Adding(f, s)
<1>1. IsFiniteSet(A) /\ Cardinality(A) \in Nat
  BY AddingCard
<1>2. (b \in A) <=> Adds(b, f, s)
  BY DEF Adding
<1> HIDE DEF A
<1>3. /\ IsFiniteSet(A \ {b})
      /\ Cardinality(A \ {b}) = IF b \in A THEN Cardinality(A) - 1 ELSE Cardinality(A)
  BY <1>1, FS_RemoveElement
<1>4. Cardinality(A \ {b}) \in Nat
  BY <1>3, FS_CardinalityType
<1>5. Cardinality(A) = Cardinality(A \ {b}) + Bit(b \in A)
  BY <1>1, <1>3, <1>4 DEF Bit
<1> QED BY <1>2, <1>4, <1>5 DEF A, Bit

\* What a step of run b does to the count: the other runs go on as they were.
LEMMA AddingStep ==
  ASSUME NEW f, NEW s, NEW b \in Bridges, \A c \in Bridges \ {b} : bridge'[c] = bridge[c]
  PROVE  /\ \A c \in Bridges \ {b} : /\ Adds(c, f, s)' = Adds(c, f, s)
                                     /\ Forgets(c, f, s)' = Forgets(c, f, s)
         /\ Cardinality(Adding(f, s)) \in Nat /\ Cardinality(Adding(f, s)') \in Nat
         /\ Cardinality(Adding(f, s)') + Bit(Adds(b, f, s))
              = Cardinality(Adding(f, s)) + Bit(Adds(b, f, s)')
<1>1. ASSUME NEW c \in Bridges \ {b}
      PROVE  Adds(c, f, s)' = Adds(c, f, s) /\ Forgets(c, f, s)' = Forgets(c, f, s)
  <2>1. Adds(c, f, s)' = Adds(c, f, s)
    BY DEF Adds, Buffered
  <2> QED BY <2>1 DEF Forgets
<1>2. Adding(f, s)' \ {b} = Adding(f, s) \ {b}
  BY <1>1 DEF Adding
<1>3. /\ Cardinality(Adding(f, s) \ {b}) \in Nat
      /\ Cardinality(Adding(f, s)) = Cardinality(Adding(f, s) \ {b}) + Bit(Adds(b, f, s))
  BY AddingBut
<1>4. Cardinality(Adding(f, s)') = Cardinality(Adding(f, s)' \ {b}) + Bit(Adds(b, f, s)')
  <2> DEFINE A == Adding(f, s)'
  <2>1. A \subseteq Bridges /\ IsFiniteSet(A)
    BY SignalBusAssumption, FS_Subset DEF Adding
  <2>2. (b \in A) <=> Adds(b, f, s)'
    BY DEF Adding
  <2> HIDE DEF A
  <2>3. Cardinality(A \ {b}) = IF b \in A THEN Cardinality(A) - 1 ELSE Cardinality(A)
    BY <2>1, FS_RemoveElement
  <2>4. Cardinality(A) \in Nat /\ Cardinality(A \ {b}) \in Nat
    BY <2>1, FS_RemoveElement, FS_CardinalityType
  <2>5. Cardinality(A) = Cardinality(A \ {b}) + Bit(b \in A)
    BY <2>3, <2>4 DEF Bit
  <2> QED BY <2>2, <2>5 DEF A, Bit
<1>5. Bit(Adds(b, f, s)) \in {0, 1} /\ Bit(Adds(b, f, s)') \in {0, 1}
  BY DEF Bit
<1>6. PICK r \in Nat : r = Cardinality(Adding(f, s) \ {b})
  BY <1>3
<1>7. /\ Cardinality(Adding(f, s)) = r + Bit(Adds(b, f, s))
      /\ Cardinality(Adding(f, s)') = r + Bit(Adds(b, f, s)')
  BY <1>2, <1>3, <1>4, <1>6
<1> QED BY <1>1, <1>5, <1>7

\* A step of a run keeps the count.
LEMMA RunCounted ==
  ASSUME ExportsDistinct, BusTypes, BridgeShape, NEW f \in FileNumbers,
         NEW k \in 1..Len(Files[f]), Counted(f, Files[f][k]), NEW b \in Bridges, BridgeStep(b)
  PROVE  Counted(f, Files[f][k])'
<1> USE DEF BusTypes
<1>0. PICK s \in Signals : s = Files[f][k]
  BY FilesTypes
<1>1. /\ aborts \in Nat /\ overlaps \in Nat /\ aborts' \in Nat /\ overlaps' \in Nat
      /\ LogTypes'
  BY LogStep, BridgeTypesStep DEF BridgeTypes, BusNext
<1>2. PICK lines \in Nat, linesN \in Nat : /\ lines = Cardinality(LinesOf(s))
                                          /\ linesN = Cardinality(LinesOf(s)')
  BY <1>1, LinesCard, NextLinesCard
<1>3. PICK adding \in Nat, addingN \in Nat, adds \in {0, 1}, addsN \in {0, 1} :
        /\ adding = Cardinality(Adding(f, s)) /\ addingN = Cardinality(Adding(f, s)')
        /\ adds = Bit(Adds(b, f, s)) /\ addsN = Bit(Adds(b, f, s)')
        /\ addingN + adds = adding + addsN
        /\ \A c \in Bridges \ {b} : Forgets(c, f, s)' = Forgets(c, f, s)
        /\ \A c \in Bridges \ {b} : bridge'[c] = bridge[c]
  <2>1. \A c \in Bridges \ {b} : bridge'[c] = bridge[c]
    BY OthersStay
  <2>2. Bit(Adds(b, f, s)) \in {0, 1} /\ Bit(Adds(b, f, s)') \in {0, 1}
    BY DEF Bit
  <2> QED BY <2>1, <2>2, AddingStep
<1>4. PICK price \in Nat, priceN \in Nat : price = aborts + overlaps /\ priceN = aborts' + overlaps'
  <2>1. PICK m \in Nat, n \in Nat : m = aborts' /\ n = overlaps'
    BY <1>1
  <2>2. aborts + overlaps \in Nat /\ m + n \in Nat
    BY <1>1
  <2>3. m + n = aborts' + overlaps'
    BY <2>1
  <2> QED BY <2>2, <2>3
<1>5. /\ UnderWay => lines + adding <= 1 + price
      /\ ~UnderWay => lines + adding <= price + Bit(f \in processed)
      /\ (\E c \in Bridges : Forgets(c, f, s)) => lines + adding <= price
  <2>1. Lines(f, s) = lines + adding
    BY <1>2, <1>3 DEF Lines
  <2>2. Counted(f, s)
    BY <1>0
  <2> QED BY <1>1, <1>4, <2>1, <2>2 DEF Counted
<1> SUFFICES /\ UnderWay' => linesN + addingN <= 1 + priceN
             /\ ~UnderWay' => linesN + addingN <= priceN + Bit(f \in processed')
             /\ (\E c \in Bridges : Forgets(c, f, s)') => linesN + addingN <= priceN
  <2>1. Lines(f, s)' = linesN + addingN
    BY <1>2, <1>3 DEF Lines
  <2>2. PICK m \in Nat, n \in Nat : m = aborts' /\ n = overlaps'
    BY <1>1
  <2>3. priceN = m + n
    BY <1>4, <2>2
  <2>4. /\ UnderWay' => Lines(f, s)' <= 1 + m + n
        /\ ~UnderWay' => Lines(f, s)' <= m + n + Bit(f \in processed')
        /\ (\E c \in Bridges : Forgets(c, f, s)') => Lines(f, s)' <= m + n
    <3>1. Bit(f \in processed') \in {0, 1} /\ m + n \in Nat
      BY DEF Bit
    <3> QED BY <2>1, <2>3, <3>1
  <2>5. Counted(f, s)'
    BY <2>2, <2>4 DEF Counted, Bit
  <2> QED BY <1>0, <2>5
<1>6. (log' = log) => (linesN = lines)
  <2>1. (log' = log) => LinesOf(s)' = LinesOf(s)
    BY DEF LinesOf
  <2> QED BY <1>2, <2>1
\* What is written of the buffer.
<1>7. ASSUME Room(Len(bridge[b].buffer)), Write(bridge[b].buffer)
      PROVE  linesN <= lines + Bit(Buffered(b, s))
  <2>1. Carried(bridge[b].buffer)
    BY <1>7, BridgeWrites
  <2>2. linesN <= lines + 1
    BY <1>1, <1>2, <2>1, LinesOne DEF BridgeShape, RunShape
  <2>3. ~Buffered(b, s) => linesN <= lines
    BY <1>2, <2>1, LinesSame DEF Buffered
  <2> QED BY <1>1, <1>2, <2>2, <2>3 DEF Bit
<1>8. Buffered(b, s) => f \in bridge[b].known
  <2> SUFFICES ASSUME Buffered(b, s) PROVE f \in bridge[b].known
    OBVIOUS
  <2>1. PICK g \in bridge[b].known : \E m \in 1..Len(Files[g]) : s = Files[g][m]
    BY DEF Buffered, BridgeShape, RunShape
  <2>2. g \in FileNumbers
    BY RunTypes
  <2> QED BY <1>0, <2>1, <2>2 DEF ExportsDistinct
<1>9. f \in bridge[b].todo => f \notin bridge[b].known
  BY DEF BridgeShape, RunShape
<1>10. bridge[b].pc # "reading" => f \notin bridge[b].todo /\ ~Buffered(b, s)
  <2>1. bridge[b].pc # "reading" => bridge[b].todo = {} /\ Len(bridge[b].buffer) = 0
    BY DEF BridgeTypes, Quiet
  <2> QED BY <2>1 DEF Buffered
<1>11. (bridge'[b].buffer = <<>>) => ~Buffered(b, s)'
  <2>1. (bridge'[b].buffer = <<>>) => 1..Len(bridge'[b].buffer) = {}
    OBVIOUS
  <2> QED BY <2>1 DEF Buffered
<1>12. /\ (bridge[b].pc # "idle") => UnderWay
       /\ (bridge'[b].pc # "idle") => UnderWay'
  BY DEF UnderWay
\* Steps that leave the price as it is and add no line that was not counted.
<1>13. ASSUME bridge[b].pc # "idle", bridge'[b].pc # "idle", UNCHANGED <<aborts, overlaps>>,
              linesN + addsN <= lines + adds,
              Forgets(b, f, s)' => Forgets(b, f, s) \/ linesN + addsN < lines + adds
       PROVE  /\ UnderWay' => linesN + addingN <= 1 + priceN
              /\ ~UnderWay' => linesN + addingN <= priceN + Bit(f \in processed')
              /\ (\E c \in Bridges : Forgets(c, f, s)') => linesN + addingN <= priceN
  <2>1. UnderWay /\ UnderWay' /\ priceN = price
    BY <1>4, <1>12, <1>13
  <2>2. linesN + addingN <= lines + adding /\ lines + adding <= 1 + price
    <3>1. addingN + adds = adding + addsN
      BY <1>3
    <3>2. linesN + addsN <= lines + adds
      BY <1>13
    <3>3. linesN + addingN <= lines + adding
      BY <3>1, <3>2
    <3>4. lines + adding <= 1 + price
      BY <1>5, <2>1
    <3> QED BY <3>3, <3>4
  <2>3. ASSUME NEW c \in Bridges, Forgets(c, f, s)' PROVE linesN + addingN <= price
    <3>1. CASE Forgets(c, f, s)
      BY <1>1, <1>2, <1>3, <1>5, <2>2, <3>1
    <3>2. CASE ~Forgets(c, f, s)
      <4>1. c = b
        BY <1>3, <2>3, <3>2
      <4>2. linesN + addsN < lines + adds
        BY <1>13, <2>3, <3>2, <4>1
      <4>3. linesN + addingN < lines + adding
        BY <1>3, <4>2
      <4> QED BY <2>1, <2>2, <4>3
    <3> QED BY <3>1, <3>2
  <2>4. (\E c \in Bridges : Forgets(c, f, s)') => linesN + addingN <= priceN
    BY <2>1, <2>3
  <2>5. linesN + addingN <= 1 + priceN
    BY <2>1, <2>2
  <2> QED BY <2>1, <2>4, <2>5
<1>14. CASE StartBridge(b)
  <2>1. /\ bridge[b].pc = "idle" /\ log' = log /\ aborts' = aborts /\ processed' = processed
        /\ overlaps' = IF Others(b) THEN overlaps + 1 ELSE overlaps
    BY <1>14 DEF StartBridge, logVars
  <2>2. /\ bridge'[b].pc = "loaded" /\ bridge'[b].todo = {}
        /\ bridge'[b].known = processed /\ bridge'[b].buffer = <<>>
    BY <1>14, StartFields
  <2>3. ~Adds(b, f, s) /\ (Adds(b, f, s)' <=> f \notin processed) /\ ~Forgets(b, f, s)'
    <3>1. ~Adds(b, f, s)
      BY <1>10, <2>1 DEF Adds
    <3>2. Adds(b, f, s)' <=> f \notin processed
      BY <1>11, <2>2 DEF Adds
    <3> QED BY <2>2, <3>1, <3>2 DEF Forgets
  <2>4. adds = 0 /\ addsN = Bit(f \notin processed) /\ linesN = lines
    BY <1>3, <1>6, <2>1, <2>3 DEF Bit
  <2>5. addingN = adding + Bit(f \notin processed)
    BY <1>3, <1>4, <2>4
  <2>6. Bit(f \notin processed) \in {0, 1} /\ Bit(f \in processed) + Bit(f \notin processed) = 1
    BY DEF Bit
  <2>7. UnderWay' /\ priceN = aborts + overlaps'
    BY <1>4, <1>12, <2>1, <2>2
  <2>8. CASE Others(b)
    <3>1. UnderWay /\ priceN = price + 1
      BY <1>1, <1>4, <2>1, <2>7, <2>8 DEF Others, UnderWay
    <3>2. linesN + addingN <= 1 + priceN
      BY <1>1, <1>3, <1>5, <2>4, <2>5, <2>6, <3>1
    <3>3. ASSUME NEW c \in Bridges, Forgets(c, f, s)' PROVE linesN + addingN <= priceN
      <4>1. Forgets(c, f, s)
        BY <1>3, <2>3, <3>3
      <4>2. lines + adding <= price
        BY <1>5, <4>1
      <4> QED BY <2>4, <2>5, <2>6, <3>1, <4>2
    <3> QED BY <2>7, <3>2, <3>3
  <2>9. CASE ~Others(b)
    <3>1. ~UnderWay /\ priceN = price
      BY <1>4, <2>1, <2>7, <2>9 DEF Others, UnderWay
    <3>2. linesN + addingN <= 1 + priceN
      <4>1. lines + adding <= price + Bit(f \in processed)
        BY <1>5, <3>1
      <4>2. linesN + addingN = lines + adding + Bit(f \notin processed)
        BY <1>1, <1>3, <2>4, <2>5, <2>6
      <4>3. Bit(f \in processed) \in {0, 1}
        BY DEF Bit
      <4>4. PICK p \in Nat, q \in Nat : /\ p = Bit(f \in processed)
                                       /\ q = Bit(f \notin processed)
        BY <2>6, <4>3
      <4>5. lines + adding <= price + p
        BY <4>1, <4>4
      <4>6. linesN + addingN = lines + adding + q
        BY <4>2, <4>4
      <4>7. p + q = 1
        BY <2>6, <4>4
      <4> QED BY <3>1, <4>5, <4>6, <4>7
    <3>3. ASSUME NEW c \in Bridges PROVE ~Forgets(c, f, s)'
      <4>1. CASE c = b
        BY <2>3, <4>1
      <4>2. CASE c # b
        <5>1. ~Forgets(c, f, s)
          BY <3>1 DEF Forgets, UnderWay
        <5> QED BY <1>3, <4>2, <5>1
      <4> QED BY <4>1, <4>2
    <3> QED BY <2>7, <3>2, <3>3
  <2> QED BY <2>8, <2>9
<1>15. CASE ListExports(b)
  <2>1. bridge[b].pc = "loaded" /\ log' = log /\ UNCHANGED <<aborts, overlaps>>
    BY <1>15 DEF ListExports, logVars
  <2>2. /\ bridge'[b].pc = "reading" /\ bridge'[b].todo = Listed \ bridge[b].known
        /\ bridge'[b].known = bridge[b].known /\ bridge'[b].buffer = bridge[b].buffer
    BY <1>15, ListFields
  <2>3. ~Buffered(b, s)' /\ (Adds(b, f, s) <=> f \notin bridge[b].known)
    <3>1. ~Buffered(b, s)
      BY <1>10, <2>1
    <3>2. Buffered(b, s)' = Buffered(b, s)
      BY <2>2 DEF Buffered
    <3> QED BY <1>10, <2>1, <3>1, <3>2 DEF Adds
  <2>4. Adds(b, f, s)' => f \notin bridge[b].known
    BY <2>2, <2>3 DEF Adds
  <2>5. linesN = lines /\ addsN <= adds
    BY <1>3, <1>6, <2>1, <2>3, <2>4 DEF Bit
  <2>6. Forgets(b, f, s)' => linesN + addsN < lines + adds
    <3> SUFFICES ASSUME Forgets(b, f, s)' PROVE linesN + addsN < lines + adds
      OBVIOUS
    <3>1. Adds(b, f, s) /\ ~Adds(b, f, s)'
      BY <2>2, <2>3 DEF Forgets
    <3>2. adds = 1 /\ addsN = 0
      BY <1>3, <3>1 DEF Bit
    <3> QED BY <1>1, <2>5, <3>2
  <2>7. linesN + addsN <= lines + adds
    BY <1>1, <1>4, <2>5
  <2>8. bridge[b].pc # "idle" /\ bridge'[b].pc # "idle"
    BY <2>1, <2>2
  <2> QED BY <1>13, <2>1, <2>6, <2>7, <2>8
<1>16. ASSUME NEW g \in FileNumbers, ReadExport(b, g)
       PROVE  /\ UnderWay' => linesN + addingN <= 1 + priceN
              /\ ~UnderWay' => linesN + addingN <= priceN + Bit(f \in processed')
              /\ (\E c \in Bridges : Forgets(c, f, s)') => linesN + addingN <= priceN
  <2>1. /\ bridge[b].pc = "reading" /\ log' = log /\ UNCHANGED <<aborts, overlaps>>
        /\ g \in bridge[b].todo
    BY <1>16 DEF ReadExport, logVars, NextFile
  <2>2. PICK x \in Seq(Signals), y \in Seq(Signals) : x = bridge[b].buffer /\ y = Files[g]
    BY FilesTypes, RunTypes
  <2>3. /\ bridge'[b].pc = "reading" /\ bridge'[b].todo = bridge[b].todo \ {g}
        /\ bridge'[b].known = bridge[b].known \cup {g} /\ bridge'[b].buffer = x \o y
    BY <1>16, <2>1, <2>2, ReadFields
  <2>4. linesN = lines
    BY <1>6, <2>1
  <2>5. CASE f = g
    <3>1. adds = 1 /\ ~Forgets(b, f, s)'
      BY <1>3, <2>1, <2>3, <2>5 DEF Adds, Forgets, Bit
    <3>2. linesN + addsN <= lines + adds
      BY <1>1, <1>4, <2>4, <3>1
    <3> QED BY <1>13, <2>1, <2>3, <3>1, <3>2
  <2>6. CASE f # g
    <3>1. \A m \in 1..Len(y) : y[m] # s
      BY <1>0, <2>2, <2>6 DEF ExportsDistinct
    <3>2. Buffered(b, s)' <=> Buffered(b, s)
      <4>1. ASSUME Buffered(b, s)' PROVE Buffered(b, s)
        <5>1. PICK n \in 1..Len(x \o y) : (x \o y)[n] = s
          BY <2>3, <4>1 DEF Buffered
        <5>2. n \in 1..Len(x) /\ x[n] = s
          BY <3>1, <5>1, ConcatFacts
        <5> QED BY <2>2, <5>2 DEF Buffered
      <4>2. ASSUME Buffered(b, s) PROVE Buffered(b, s)'
        <5>1. PICK n \in 1..Len(x) : x[n] = s
          BY <2>2, <4>2 DEF Buffered
        <5>2. n \in 1..Len(x \o y) /\ (x \o y)[n] = s
          BY <5>1, ConcatFacts
        <5> QED BY <2>3, <5>2 DEF Buffered
      <4> QED BY <4>1, <4>2
    <3>3. Adds(b, f, s)' <=> Adds(b, f, s)
      BY <2>1, <2>3, <2>6, <3>2 DEF Adds
    <3>4. Forgets(b, f, s)' => Forgets(b, f, s)
      BY <2>1, <2>3, <3>3 DEF Forgets
    <3>5. linesN + addsN <= lines + adds
      BY <1>3, <1>1, <1>4, <2>4, <3>3 DEF Bit
    <3> QED BY <1>13, <2>1, <2>3, <3>4, <3>5
  <2> QED BY <2>5, <2>6
<1>17. CASE FlushBridge(b) \/ CloseBridge(b)
  <2>1. /\ bridge[b].pc = "reading" /\ UNCHANGED <<aborts, overlaps>>
        /\ Room(Len(bridge[b].buffer)) /\ Write(bridge[b].buffer)
    BY <1>17 DEF FlushBridge, CloseBridge
  <2>2. /\ bridge'[b].pc \in {"reading", "closed"} /\ bridge'[b].todo = bridge[b].todo
        /\ bridge'[b].known = bridge[b].known /\ bridge'[b].buffer = <<>>
    BY <1>17, <2>1, WriteFields
  <2>3. Adds(b, f, s)' <=> f \in bridge[b].todo
    BY <1>11, <2>2 DEF Adds
  <2>4. Adds(b, f, s) <=> f \in bridge[b].todo \/ Buffered(b, s)
    BY <2>1 DEF Adds
  <2>5. linesN + addsN <= lines + adds
    <3>1. CASE Buffered(b, s)
      <4>1. adds = 1 /\ addsN = 0 /\ linesN <= lines + 1
        BY <1>3, <1>7, <1>8, <1>9, <2>1, <2>3, <2>4, <3>1 DEF Bit
      <4> QED BY <1>1, <1>2, <4>1
    <3>2. CASE ~Buffered(b, s)
      <4>1. addsN = adds /\ linesN <= lines + 0
        BY <1>3, <1>7, <2>1, <2>3, <2>4, <3>2 DEF Bit
      <4> QED BY <1>1, <1>2, <1>4, <4>1
    <3> QED BY <3>1, <3>2
  <2>6. Forgets(b, f, s)' => Forgets(b, f, s)
    BY <1>8, <2>1, <2>2, <2>3, <2>4 DEF Forgets
  <2>7. bridge[b].pc # "idle" /\ bridge'[b].pc # "idle"
    BY <2>1, <2>2
  <2> QED BY <1>13, <2>1, <2>5, <2>6, <2>7
<1>18. CASE OpenBridgeState(b)
  <2>1. bridge[b].pc = "closed" /\ log' = log /\ UNCHANGED <<aborts, overlaps>>
    BY <1>18 DEF OpenBridgeState, logVars
  <2>2. /\ bridge'[b].pc = "saving" /\ bridge'[b].todo = bridge[b].todo
        /\ bridge'[b].known = bridge[b].known /\ bridge'[b].buffer = bridge[b].buffer
    BY <1>18, OpenFields
  <2>3. Adds(b, f, s)' <=> Adds(b, f, s)
    BY <2>1, <2>2 DEF Adds, Buffered
  <2>4. Forgets(b, f, s)' => Forgets(b, f, s)
    BY <2>1, <2>2, <2>3 DEF Forgets
  <2>5. linesN + addsN <= lines + adds
    BY <1>3, <1>1, <1>4, <1>6, <2>1, <2>3 DEF Bit
  <2>6. bridge[b].pc # "idle" /\ bridge'[b].pc # "idle"
    BY <2>1, <2>2
  <2> QED BY <1>13, <2>1, <2>4, <2>5, <2>6
\* A run ends: its part of the count goes with it.
<1>19. ASSUME EndsRun(b), bridge[b].pc # "idle"
       PROVE  /\ addsN = 0 /\ ~Forgets(b, f, s)'
              /\ (\E c \in Bridges : Forgets(c, f, s)') => \E c \in Bridges : Forgets(c, f, s)
  <2>1. /\ bridge'[b].pc = "idle" /\ bridge'[b].todo = {} /\ bridge'[b].buffer = <<>>
    BY <1>19, EndFields
  <2>2. ~Adds(b, f, s)' /\ ~Forgets(b, f, s)'
    BY <1>11, <2>1 DEF Adds, Forgets
  <2>3. addsN = 0
    BY <1>3, <2>2 DEF Bit
  <2> QED BY <1>3, <2>2, <2>3
<1>20. CASE SaveBridge(b)
  <2>1. /\ bridge[b].pc = "saving" /\ log' = log /\ UNCHANGED <<aborts, overlaps>>
        /\ processed' = bridge[b].known
    BY <1>20 DEF SaveBridge, logVars
  <2>2. ~Adds(b, f, s) /\ UnderWay
    BY <1>10, <1>12, <2>1 DEF Adds
  <2>3. linesN = lines /\ addingN = adding /\ priceN = price
    <3>1. adds = 0 /\ addsN = 0
      BY <1>3, <1>19, <1>20, <2>1, <2>2 DEF Bit, EndsRun
    <3> QED BY <1>3, <1>4, <1>6, <2>1, <3>1
  <2>4. lines + adding <= 1 + price
    BY <1>5, <2>2
  <2>5. lines + adding <= price + Bit(f \in processed')
    <3>1. CASE f \in bridge[b].known
      <4>1. Bit(f \in processed') = 1
        BY <2>1, <3>1 DEF Bit
      <4> QED BY <1>1, <1>3, <2>4, <4>1
    <3>2. CASE f \notin bridge[b].known
      <4>1. Forgets(b, f, s) /\ Bit(f \in processed') = 0
        BY <2>1, <2>2, <3>2 DEF Forgets, Bit
      <4>2. lines + adding <= price
        BY <1>5, <4>1
      <4> QED BY <1>1, <1>3, <4>1, <4>2
    <3> QED BY <3>1, <3>2
  <2>6. (\E c \in Bridges : Forgets(c, f, s)') => lines + adding <= price
    BY <1>5, <1>19, <1>20, <2>1 DEF EndsRun
  <2> QED BY <2>3, <2>4, <2>5, <2>6
<1>21. CASE KillBridge(b) \/ \E g \in FileNumbers : ReadExportRaises(b, g)
  <2>1. /\ bridge[b].pc # "idle" /\ aborts' = aborts + 1 /\ overlaps' = overlaps
        /\ log' = log \/ (Room(Len(bridge[b].buffer)) /\ Write(bridge[b].buffer))
    BY <1>21 DEF KillBridge, ReadExportRaises, logVars
  <2>2. UnderWay /\ addsN = 0 /\ EndsRun(b)
    BY <1>12, <1>19, <1>21, <2>1 DEF EndsRun
  <2>3. Bit(Buffered(b, s)) <= adds /\ Bit(Buffered(b, s)) \in {0, 1}
    BY <1>3 DEF Bit, Adds
  <2>4. linesN <= lines + adds
    BY <1>1, <1>2, <1>4, <1>6, <1>7, <2>1, <2>3
  <2>5. linesN + addingN <= lines + adding
    BY <1>1, <1>2, <1>3, <1>4, <2>2, <2>4
  <2>6. lines + adding <= 1 + price /\ priceN = price + 1
    BY <1>1, <1>4, <1>5, <2>1, <2>2
  <2>7. Bit(f \in processed') \in {0, 1}
    BY DEF Bit
  <2>8. linesN + addingN <= priceN
    BY <1>1, <1>2, <1>3, <2>5, <2>6
  <2>9. linesN + addingN <= 1 + priceN /\ linesN + addingN <= priceN + Bit(f \in processed')
    BY <2>7, <2>8
  <2> QED BY <2>8, <2>9
<1> QED BY <1>14, <1>15, <1>16, <1>17, <1>18, <1>20, <1>21 DEF BridgeStep

LEMMA CountedStep ==
  ASSUME ExportsDistinct, BusTypes, ImportsCounted, [BusNext]_busVars
  PROVE  LinesCounted'
<1> USE DEF BusTypes
<1> SUFFICES ASSUME NEW f \in FileNumbers, NEW k \in 1..Len(Files[f])
             PROVE  Counted(f, Files[f][k])'
  BY DEF LinesCounted
<1>0. PICK s \in Signals : s = Files[f][k]
  BY FilesTypes
<1> SUFFICES Counted(f, s)'
  BY <1>0
<1>1. Counted(f, s) /\ aborts \in Nat /\ overlaps \in Nat
  BY <1>0 DEF ImportsCounted, LinesCounted, BridgeTypes
<1>2. Cardinality(LinesOf(s)) \in Nat /\ Cardinality(Adding(f, s)) \in Nat
  BY LinesCard, AddingCard
\* Steps that leave the bridge alone and write other signals.
<1>3. ASSUME UNCHANGED <<bridge, processed, aborts, overlaps>>,
             Cardinality(LinesOf(s)') <= Cardinality(LinesOf(s)), Cardinality(LinesOf(s)') \in Nat
      PROVE  Counted(f, s)'
  <2>1. \A b \in Bridges : Adds(b, f, s)' = Adds(b, f, s) /\ Forgets(b, f, s)' = Forgets(b, f, s)
    <3> TAKE b \in Bridges
    <3>1. Adds(b, f, s)' = Adds(b, f, s)
      BY <1>3 DEF Adds, Buffered
    <3> QED BY <1>3, <3>1 DEF Forgets
  <2>2. Adding(f, s)' = Adding(f, s) /\ UnderWay' = UnderWay
    BY <1>3, <2>1 DEF Adding, UnderWay
  <2>3. Lines(f, s)' <= Lines(f, s) /\ Lines(f, s) \in Nat /\ Lines(f, s)' \in Nat
    BY <1>2, <1>3, <2>2 DEF Lines
  <2>4. PICK was \in Nat, lines \in Nat : was = Lines(f, s) /\ lines = Lines(f, s)' /\ lines <= was
    BY <2>3
  <2>5. Bit(f \in processed) \in {0, 1}
    BY DEF Bit
  <2>6. /\ UnderWay' => lines <= 1 + aborts + overlaps
        /\ ~UnderWay' => lines <= aborts + overlaps + Bit(f \in processed)
        /\ (\E b \in Bridges : Forgets(b, f, s)') => lines <= aborts + overlaps
    BY <1>1, <2>1, <2>2, <2>4, <2>5 DEF Counted
  <2>7. aborts' = aborts /\ overlaps' = overlaps /\ processed' = processed
    BY <1>3
  <2> QED BY <2>4, <2>6, <2>7 DEF Counted, Bit
<1>4. ASSUME UNCHANGED <<log, bridge, processed, aborts, overlaps>> PROVE Counted(f, s)'
  <2>1. LinesOf(s)' = LinesOf(s)
    BY <1>4 DEF LinesOf
  <2> QED BY <1>2, <1>3, <1>4, <2>1
<1>5. ASSUME NEW t \in Direct, Carried(<<t>>), UNCHANGED <<bridge, processed, aborts, overlaps>>
      PROVE  Counted(f, s)'
  <2>1. t \in Signals /\ t # s /\ Len(<<t>>) = 1 /\ <<t>>[1] = t
    BY <1>0, SignalBusAssumption DEF ExportsDistinct
  <2>2. \A n \in 1..Len(<<t>>) : <<t>>[n] # s
    BY <2>1
  <2>3. /\ Cardinality(LinesOf(s)') \in Nat
        /\ Cardinality(LinesOf(s)') <= Cardinality(LinesOf(s))
    BY <1>5, <2>2, LinesSame
  <2> QED BY <1>3, <1>5, <2>3
<1>6. CASE WriterNext
  <2>1. ASSUME NEW t \in Direct, EmitDirect(t) PROVE Counted(f, s)'
    <3>1. Room(1) /\ Write(<<t>>) /\ UNCHANGED <<bridge, processed, aborts, overlaps>>
      BY <2>1 DEF EmitDirect, Emit, bridgeVars
    <3>2. <<t>> \in Seq(Signals) /\ Len(<<t>>) = 1
      BY SignalBusAssumption
    <3> QED BY <1>5, <3>1, <3>2, WriteFacts
  <2>2. ASSUME NEW t \in Direct, NEW parses \in BOOLEAN, EmitDirectCutShort(t, parses)
        PROVE  Counted(f, s)'
    <3>1. EmitCutShort(t, parses) /\ UNCHANGED <<bridge, processed, aborts, overlaps>>
      BY <2>2 DEF EmitDirectCutShort, bridgeVars
    <3>2. t \in Signals
      BY SignalBusAssumption
    <3> QED BY <1>5, <3>1, <3>2, CutShortFacts
  <2>3. ASSUME NEW g \in FileNumbers, ExportAdvances(g) PROVE Counted(f, s)'
    BY <1>4, <2>3 DEF ExportAdvances, logVars
  <2>4. CASE \E t \in Direct : EmitDirect(t)
    BY <2>1, <2>4
  <2>5. CASE \E t \in Direct : \E parses \in BOOLEAN : EmitDirectCutShort(t, parses)
    BY <2>2, <2>5
  <2>6. CASE \E g \in FileNumbers : ExportAdvances(g)
    BY <2>3, <2>6
  <2> QED BY <1>6, <2>4, <2>5, <2>6 DEF WriterNext
<1>7. ASSUME NEW b \in Bridges, BridgeStep(b) PROVE Counted(f, s)'
  BY <1>0, <1>1, <1>7, RunCounted DEF ImportsCounted
<1>8. CASE \E r \in Readers : PassStep(r) \/ KillReader(r)
  <2>1. UNCHANGED <<log, bridge, processed, aborts, overlaps>>
    BY <1>8, Frames DEF bridgeVars, logVars
  <2> QED BY <1>4, <2>1
<1>9. CASE UNCHANGED busVars
  <2>1. UNCHANGED <<log, bridge, processed, aborts, overlaps>>
    BY <1>9 DEF busVars, bridgeVars, logVars
  <2> QED BY <1>4, <2>1
<1> QED BY <1>0, <1>6, <1>7, <1>8, <1>9 DEF BusNext

\* A record of an export is imported again only because a run did not save its state or was
\* started while another was under way, once for each (bridge_signals).
THEOREM ImportsBounded == ExportsDistinct => (BusSpec => []ImportedAgain)
<1> SUFFICES ASSUME ExportsDistinct PROVE BusSpec => []ImportedAgain
  OBVIOUS
<1>1. BusInit => ImportsCounted
  <2> SUFFICES ASSUME BusInit PROVE ImportsCounted
    OBVIOUS
  <2>1. /\ \A b \in Bridges : bridge[b] = NoBridge
        /\ processed = {} /\ aborts = 0 /\ overlaps = 0 /\ log = <<>>
    BY DEF BusInit, LogInit
  <2>2. \A b \in Bridges : 1..Len(bridge[b].buffer) = {}
    BY <2>1, NoBridgeTypes
  <2>3. 1..Len(log) = {}
    BY <2>1
  <2>4. BridgeShape
    BY <2>1, <2>2, NoBridgeTypes DEF BridgeShape, RunShape
  <2>5. ASSUME NEW f, NEW s PROVE Lines(f, s) = 0
    <3>1. LinesOf(s) = {}
      BY <2>3 DEF LinesOf
    <3>2. Adding(f, s) = {}
      BY <2>1, <2>2, NoBridgeTypes DEF Adding, Adds, Buffered
    <3> QED BY <3>1, <3>2, FS_EmptySet DEF Lines
  <2>6. ASSUME NEW f, NEW s PROVE Counted(f, s)
    <3>1. Bit(f \in processed) \in {0, 1} /\ ~UnderWay
      BY <2>1, NoBridgeTypes DEF Bit, UnderWay
    <3>2. \A b \in Bridges : ~Forgets(b, f, s)
      BY <2>1, NoBridgeTypes DEF Forgets
    <3>3. 0 <= aborts + overlaps + Bit(f \in processed)
      BY <2>1, <3>1
    <3> QED BY <2>5, <3>1, <3>2, <3>3 DEF Counted
  <2>7. LinesCounted
    BY <2>6 DEF LinesCounted
  <2> QED BY <2>4, <2>7 DEF ImportsCounted
<1>2. BusTypes /\ ImportsCounted /\ [BusNext]_busVars => ImportsCounted'
  BY ShapeStep, CountedStep DEF ImportsCounted
<1>3. BusTypes /\ ImportsCounted => ImportedAgain
  <2> SUFFICES ASSUME BusTypes, ImportsCounted, NEW f \in FileNumbers, NEW k \in 1..Len(Files[f])
               PROVE  Cardinality(LinesOf(Files[f][k])) <= 1 + aborts + overlaps
    BY DEF ImportedAgain
  <2>1. /\ Cardinality(LinesOf(Files[f][k])) \in Nat
        /\ Cardinality(Adding(f, Files[f][k])) \in Nat
        /\ aborts \in Nat /\ overlaps \in Nat
    BY LinesCard, AddingCard DEF BusTypes, BridgeTypes
  <2>2. Counted(f, Files[f][k])
    BY DEF ImportsCounted, LinesCounted
  <2>3. PICK n \in Nat : n = Lines(f, Files[f][k]) /\ Cardinality(LinesOf(Files[f][k])) <= n
    BY <2>1 DEF Lines
  <2>4. Bit(f \in processed) \in {0, 1}
    BY DEF Bit
  <2>5. n <= 1 + aborts + overlaps
    BY <2>1, <2>2, <2>3, <2>4 DEF Counted
  <2> QED BY <2>1, <2>3, <2>5
<1> QED BY <1>1, <1>2, <1>3, BusTypeSafety, PTL DEF BusSpec

=============================================================================
