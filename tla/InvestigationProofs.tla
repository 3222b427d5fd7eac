------------------------ MODULE InvestigationProofs ------------------------
(***************************************************************************)
(* Theorems about Investigation, for any log, any window, any endpoints    *)
(* and wherever passes are cut off.                                        *)
(***************************************************************************)
EXTENDS Investigation, FiniteSetTheorems, TLAPS

-----------------------------------------------------------------------------
(* The order of the signals *)

\* The places of the signals are 1, 2, ..., each taken once.
LEMMA Places ==
  ASSUME NEW ss \in Seq(Signals)
  PROVE  \A k \in DOMAIN ss : \E i \in DOMAIN ss : Place(ss, i) = k
<1> DEFINE D          == DOMAIN ss
           level(i)   == Severity[ss[i]]
           upto(j, i) == level(j) > level(i) \/ (level(j) = level(i) /\ j <= i)
           S(i)       == {j \in D : upto(j, i)}
           f          == [i \in D |-> Place(ss, i)]
<1>1. D = 1..Len(ss) /\ Len(ss) \in Nat
  OBVIOUS
<1>2. IsFiniteSet(D) /\ Cardinality(D) = Len(ss)
  BY <1>1, FS_Interval
<1>3. \A i \in D : level(i) \in Int
  BY InvestigationAssumption
<1>4. \A i \in D : Place(ss, i) = Cardinality(S(i)) /\ S(i) \in SUBSET D
  BY DEF Place
<1>5. \A i \in D : i \in S(i)
  BY <1>1, <1>3
<1>6. ASSUME NEW i \in D, NEW j \in D, i # j PROVE upto(i, j) \/ upto(j, i)
  <2>1. i \in Int /\ j \in Int /\ level(i) \in Int /\ level(j) \in Int
    BY <1>1, <1>3
  <2> HIDE DEF level, D
  <2>2. upto(i, j) \/ upto(j, i)
    BY <1>6, <2>1
  <2> QED BY <2>2
<1>7. ASSUME NEW i \in D, NEW j \in D, i # j, upto(i, j) PROVE Place(ss, i) # Place(ss, j)
  <2>1. S(i) \subseteq S(j)
    <3> SUFFICES ASSUME NEW k \in D, upto(k, i) PROVE upto(k, j)
      OBVIOUS
    <3>1. /\ i \in Int /\ j \in Int /\ k \in Int
          /\ level(i) \in Int /\ level(j) \in Int /\ level(k) \in Int
      BY <1>1, <1>3
    <3> HIDE DEF level, D
    <3> QED BY <1>7, <3>1
  <2>2. j \notin S(i)
    <3>1. i \in Int /\ j \in Int /\ level(i) \in Int /\ level(j) \in Int
      BY <1>1, <1>3
    <3> HIDE DEF level, D
    <3> QED BY <1>7, <3>1
  <2>3. j \in S(j) /\ S(i) \in SUBSET S(j) /\ S(j) \in SUBSET D
    BY <1>4, <1>5, <2>1
  <2> HIDE DEF S
  <2>4. IsFiniteSet(S(j))
    BY <1>2, <2>3, FS_Subset
  <2>5. Cardinality(S(j)) # Cardinality(S(i))
    BY <2>2, <2>3, <2>4, FS_Subset
  <2> QED BY <1>4, <2>5
<1> HIDE DEF S, upto, level
<1>8. \A i \in D : Place(ss, i) \in D
  <2> SUFFICES ASSUME NEW i \in D PROVE Place(ss, i) \in D
    OBVIOUS
  <2>1. S(i) \in SUBSET D /\ S(i) # {}
    BY <1>4, <1>5
  <2>2. IsFiniteSet(S(i)) /\ Cardinality(S(i)) <= Len(ss)
    BY <1>2, <2>1, FS_Subset
  <2>3. Cardinality(S(i)) \in Nat /\ Cardinality(S(i)) # 0
    BY <2>1, <2>2, FS_CardinalityType, FS_EmptySet
  <2> QED BY <1>1, <1>4, <2>2, <2>3
<1> HIDE DEF D
<1>9. f \in Injection(D, D)
  BY <1>6, <1>7, <1>8 DEF Injection, IsInjective
<1>10. f \in Surjection(D, D)
  BY <1>2, <1>9, FS_Injection
<1> QED BY <1>10 DEF Surjection, D

LEMMA PrioritizedType ==
  ASSUME NEW ss \in Seq(Signals)
  PROVE  Prioritized(ss) \in Seq(Signals)
<1> DEFINE at(k) == CHOOSE i \in DOMAIN ss : Place(ss, i) = k
<1>1. \A k \in DOMAIN ss : at(k) \in DOMAIN ss
  BY Places
<1> HIDE DEF at
<1>2. \A k \in DOMAIN ss : ss[at(k)] \in Signals
  BY <1>1
<1>3. [k \in 1..Len(ss) |-> ss[at(k)]] \in Seq(Signals)
  BY <1>2
<1> QED BY <1>3 DEF Prioritized, at

-----------------------------------------------------------------------------
(* The log and the window *)

\* A line that parses holds one signal.
Single(lines) ==
  \A i \in 1..Len(lines) : lines[i].ok => \E s \in Signals : lines[i].holds = {s}

LogInv ==
  /\ log \in Seq(Line)
  /\ Single(log)
  /\ cut \in BOOLEAN
  /\ cut => Len(log) > 0

\* An append keeps that.
LEMMA AppendedInv ==
  ASSUME LogInv, NEW s \in Signals
  PROVE  /\ Appended(<<s>>) \in Seq(Line)
         /\ Len(Appended(<<s>>)) > 0
         /\ Single(Appended(<<s>>))
<1> DEFINE kept == IF cut THEN Len(log) - 1 ELSE Len(log)
           n    == kept + 1
           line(i) == IF i <= kept THEN log[i]
                      ELSE IF i = kept + 1 /\ cut
                           THEN [log[i] EXCEPT !.holds = @ \cup {s}, !.ok = FALSE]
                           ELSE [holds |-> {s}, told |-> {s}, ok |-> TRUE]
<1>1. Len(log) \in Nat /\ kept \in Nat /\ kept <= Len(log) /\ (cut => kept + 1 = Len(log))
  BY DEF LogInv
<1>2. n \in Nat /\ n > 0
  BY <1>1
<1>3. Appended(<<s>>) = [i \in 1..n |-> line(i)]
  <2>1. Len(<<s>>) = 1 /\ <<s>>[1] = s
    OBVIOUS
  <2>2. \A i \in 1..n : i > kept => i - kept = 1
    BY <1>1
  <2>3. Appended(<<s>>) =
          [i \in 1..(kept + 1) |->
             IF i <= kept THEN log[i]
             ELSE IF i = kept + 1 /\ cut
                  THEN [log[i] EXCEPT !.holds = @ \cup {s}, !.ok = FALSE]
                  ELSE [holds |-> {<<s>>[i - kept]}, told |-> {<<s>>[i - kept]}, ok |-> TRUE]]
    BY <2>1 DEF Appended
  <2>4. \A i \in 1..n : i <= kept \/ i > kept
    BY <1>1
  <2> HIDE DEF kept
  <2> QED BY <2>1, <2>2, <2>3, <2>4
<1>4. ASSUME NEW i \in 1..n
      PROVE  line(i) \in Line /\ (line(i).ok => \E u \in Signals : line(i).holds = {u})
  <2>1. CASE i <= kept
    <3>1. i \in 1..Len(log)
      BY <1>1, <2>1
    <3>2. log[i] \in Line /\ line(i) = log[i]
      BY <2>1, <3>1 DEF LogInv
    <3> QED BY <3>1, <3>2 DEF LogInv, Single
  <2>2. CASE ~(i <= kept) /\ cut
    <3>1. i = kept + 1 /\ i \in 1..Len(log)
      <4>1. i \in 1..(kept + 1)
        OBVIOUS
      <4> HIDE DEF kept
      <4> QED BY <1>1, <2>2, <4>1
    <3>2. PICK x \in Line : x = log[i]
      BY <3>1 DEF LogInv
    <3>3. PICK y : y = [x EXCEPT !.holds = @ \cup {s}, !.ok = FALSE]
      OBVIOUS
    <3>4. y \in Line /\ y.ok = FALSE
      <4>1. x.holds \cup {s} \in SUBSET Signals
        BY <3>2 DEF Line
      <4> QED BY <3>2, <3>3, <4>1 DEF Line
    <3>5. line(i) = y
      BY <2>2, <3>1, <3>2, <3>3
    <3> QED BY <3>4, <3>5
  <2>3. CASE ~(i <= kept) /\ ~cut
    <3>1. line(i) = [holds |-> {s}, told |-> {s}, ok |-> TRUE]
      BY <2>3
    <3> HIDE DEF line
    <3> QED BY <3>1 DEF Line
  <2> QED BY <2>1, <2>2, <2>3
<1> HIDE DEF line, n
<1>5. Appended(<<s>>) \in Seq(Line) /\ Len(Appended(<<s>>)) = n
  BY <1>2, <1>3, <1>4
<1>6. \A i \in 1..n : Appended(<<s>>)[i] = line(i)
  BY <1>3
<1> QED BY <1>2, <1>4, <1>5, <1>6 DEF Single

LEMMA LogStep ==
  ASSUME LogInv, NEW s \in Signals, Emit(s) \/ \E parses \in BOOLEAN : EmitCutShort(s, parses)
  PROVE  LogInv'
<1>1. PICK new \in Seq(Line) : new = Appended(<<s>>) /\ Len(new) > 0 /\ Single(new)
  BY AppendedInv
<1>2. CASE log' = new /\ cut' \in BOOLEAN
  BY <1>1, <1>2 DEF LogInv, Single
<1>3. CASE Emit(s)
  BY <1>1, <1>2, <1>3 DEF Emit, Write
<1>4. ASSUME NEW parses \in BOOLEAN, EmitCutShort(s, parses) PROVE LogInv'
  <2>1. cut' = TRUE
    BY <1>4 DEF EmitCutShort
  <2>2. CASE parses \/ cut
    BY <1>1, <1>2, <1>4, <2>1, <2>2 DEF EmitCutShort
  <2>3. CASE ~(parses \/ cut)
    <3>1. PICK stump : stump = [holds |-> {s}, told |-> {}, ok |-> FALSE]
      OBVIOUS
    <3>2. stump \in Line /\ stump.ok = FALSE
      BY <3>1 DEF Line
    <3>3. log' = Append(log, stump) /\ log \in Seq(Line)
      BY <1>4, <2>3, <3>1 DEF EmitCutShort, LogInv
    <3>4. /\ log' \in Seq(Line) /\ Len(log') = Len(log) + 1 /\ Len(log) \in Nat
          /\ log'[Len(log) + 1] = stump
          /\ \A i \in 1..Len(log) : log'[i] = log[i]
      BY <3>2, <3>3
    <3>5. Single(log)'
      <4> SUFFICES ASSUME NEW i \in 1..Len(log'), log'[i].ok
                   PROVE  \E u \in Signals : log'[i].holds = {u}
        BY DEF Single
      <4>1. i # Len(log) + 1
        BY <3>2, <3>4
      <4>2. i \in 1..Len(log)
        BY <3>4, <4>1
      <4> QED BY <3>4, <4>2 DEF LogInv, Single
    <3>6. Len(log') > 0
      BY <3>4
    <3> QED BY <2>1, <3>4, <3>5, <3>6 DEF LogInv
  <2> QED BY <2>2, <2>3
<1> QED BY <1>3, <1>4

\* A window whose lines parse is read as a sequence of signals.
LEMMA RecentType ==
  ASSUME LogInv, ~Unparsable
  PROVE  Recent \in Seq(Signals)
<1> DEFINE n == Len(log)
           a == IF n > Window THEN n - Window + 1 ELSE 1
<1>1. n \in Nat /\ Window \in Nat /\ a \in Nat /\ a >= 1 /\ a <= n + 1
  BY InvestigationAssumption DEF LogInv
<1>2. LastLines = a..n
  BY <1>1 DEF LastLines
<1>3. Cardinality(LastLines) = n - a + 1 /\ n - a + 1 \in Nat
  <2> HIDE DEF a, n
  <2>1. Cardinality(a..n) = IF a > n THEN 0 ELSE n - a + 1
    BY <1>1, FS_Interval
  <2> QED BY <1>1, <1>2, <2>1
<1>4. ASSUME NEW k \in 1..(n - a + 1)
      PROVE  \E s \in Signals : log[n - (n - a + 1) + k].holds = {s}
  <2>1. n - (n - a + 1) + k \in a..n /\ n - (n - a + 1) + k \in 1..n
    BY <1>1
  <2>2. log[n - (n - a + 1) + k].ok
    BY <1>2, <2>1 DEF Unparsable
  <2> QED BY <2>1, <2>2 DEF LogInv, Single
<1> HIDE DEF a
<1>5. Recent = [k \in 1..(n - a + 1) |->
                  CHOOSE s \in Signals : log[n - (n - a + 1) + k].holds = {s}]
  BY <1>3 DEF Recent
<1> DEFINE m == n - a + 1
           signal(k) == CHOOSE s \in Signals : log[n - (n - a + 1) + k].holds = {s}
<1>6. \A k \in 1..m : signal(k) \in Signals
  BY <1>4
<1> HIDE DEF signal, n
<1>7. m \in Nat
  BY <1>3
<1> HIDE DEF m
<1>8. [k \in 1..m |-> signal(k)] \in Seq(Signals)
  BY <1>6, <1>7
<1> QED BY <1>5, <1>8 DEF signal, m

-----------------------------------------------------------------------------
(* What a step of a pass does *)

Passes == [pc    : {"idle", "cleared", "loaded", "working", "answered", "written", "saving"},
           known : SUBSET Signals,
           todo  : Seq(Signals),
           tries : Nat,
           late  : BOOLEAN]

Types ==
  /\ LogInv
  /\ service \in BOOLEAN
  /\ disturbances \in Nat /\ disturbances <= CountCap - 1
  /\ pass \in [Runners -> Passes]
  /\ processed \in SUBSET Signals
  /\ evidence \in [Signals -> Nat]
  /\ \A s \in Signals : evidence[s] <= CountCap
  /\ \A p \in Runners :
       pass[p].pc = "answered" => pass[p].todo # <<>> /\ Head(pass[p].todo) \notin pass[p].known

\* The pass before and after the step.
Asks(p, new)    == /\ pass[p].pc = "idle" /\ new.pc = "cleared" /\ new.known = {}
                   /\ UNCHANGED <<processed, evidence, disturbances>>
Loads(p, new)   == /\ MayBegin(p)
                   /\ new.pc = "loaded" /\ new.known = processed /\ new.late = pass[p].late
                   /\ Disturbed(Beside(p))
                   /\ UNCHANGED <<processed, evidence>>
Ends(p, new)    == /\ pass[p].pc \in {"loaded", "working"}
                   /\ new = NoPass
                   /\ UNCHANGED <<processed, evidence, disturbances>>
Dies(p, new)    == /\ new = NoPass
                   /\ Disturbed(UnderWay(p))
                   /\ UNCHANGED <<processed, evidence>>
Works(p, new)   == /\ pass[p].pc \in {"loaded", "working"}
                   /\ new.pc \in {"working", "answered"}
                   /\ new.known = pass[p].known /\ new.late = pass[p].late
                   /\ new.pc = "answered" => new.todo # <<>> /\ Head(new.todo) \notin new.known
                   /\ UNCHANGED <<processed, evidence, disturbances>>
Writes(p, new)  == /\ pass[p].pc = "answered"
                   /\ \/ Current(p) \in WithoutId /\ new.pc = "working" /\ new.known = pass[p].known
                      \/ new.pc = "written" /\ new.known = pass[p].known \cup {Current(p)}
                   /\ new.late = pass[p].late
                   /\ OneMore(Current(p))
                   /\ UNCHANGED <<processed, disturbances>>
Turns(p, new)   == /\ pass[p].pc \in {"working", "written"}
                   /\ new.pc \in {"written", "saving"}
                   /\ new.known = pass[p].known /\ new.late = pass[p].late
                   /\ UNCHANGED <<processed, evidence, disturbances>>
Saves(p, new)   == /\ pass[p].pc = "saving"
                   /\ new.pc = "working"
                   /\ new.known = pass[p].known /\ new.late = pass[p].late
                   /\ processed' = pass[p].known
                   /\ UNCHANGED <<evidence, disturbances>>

GoesOn(p, new) ==
  \/ Loads(p, new) \/ Ends(p, new) \/ Works(p, new)
  \/ Writes(p, new) \/ Turns(p, new) \/ Saves(p, new)

PassMove(p, new) ==
  /\ pass' = [pass EXCEPT ![p] = new]
  /\ UNCHANGED logVars
  /\ GoesOn(p, new) \/ Asks(p, new) \/ Dies(p, new)

LEMMA NoPassFact ==
  NoPass \in Passes /\ NoPass.pc = "idle" /\ NoPass.known = {} /\ NoPass.late = FALSE
BY DEF NoPass, Passes

\* The signal a pass is at is one.
LEMMA CurrentFact ==
  ASSUME Types, NEW p \in Runners, pass[p].todo # <<>>
  PROVE  /\ Current(p) \in Signals /\ pass[p] \in Passes
         /\ NextSignal(p) \in Passes
         /\ NextSignal(p).pc = "working" /\ NextSignal(p).known = pass[p].known
         /\ NextSignal(p).late = pass[p].late
<1>1. pass[p] \in Passes
  BY DEF Types
<1>2. pass[p].todo \in Seq(Signals)
  BY <1>1 DEF Passes
<1>3. Head(pass[p].todo) \in Signals /\ Tail(pass[p].todo) \in Seq(Signals)
  BY <1>2
<1> QED BY <1>1, <1>3 DEF Current, NextSignal, Passes

LEMMA PassMoves ==
  ASSUME Types, NEW p \in Runners, PassStep(p)
  PROVE  \E new \in Passes : /\ pass' = [pass EXCEPT ![p] = new]
                             /\ UNCHANGED <<logVars, service>>
                             /\ GoesOn(p, new)
<1> DEFINE Moved(new) == /\ pass' = [pass EXCEPT ![p] = new]
                         /\ UNCHANGED <<logVars, service>>
                         /\ GoesOn(p, new)
<1>1. PICK old \in Passes : old = pass[p]
  BY DEF Types
<1>2. CASE LoadProcessed(p)
  <2>1. PICK new : new = [old EXCEPT !.pc = "loaded", !.known = processed]
    OBVIOUS
  <2>2. new \in Passes /\ new.pc = "loaded" /\ new.known = processed /\ new.late = old.late
    BY <1>1, <2>1 DEF Types, Passes
  <2>3. /\ pass' = [pass EXCEPT ![p] = new] /\ UNCHANGED <<logVars, service>>
        /\ Loads(p, new)
    BY <1>1, <1>2, <2>1, <2>2 DEF LoadProcessed, Step, Loads, fileVars
  <2> QED BY <2>2, <2>3 DEF GoesOn
<1>3. CASE ReadWindow(p)
  <2>1. PICK todo \in Seq(Signals) : todo = Prioritized(Recent)
    BY <1>3, RecentType, PrioritizedType DEF ReadWindow, Types
  <2>2. PICK new : new = [old EXCEPT !.pc = "working", !.todo = todo]
    OBVIOUS
  <2>3. new \in Passes /\ new.pc = "working" /\ new.known = old.known /\ new.late = old.late
    BY <1>1, <2>2 DEF Passes
  <2>4. /\ pass' = [pass EXCEPT ![p] = new] /\ UNCHANGED <<logVars, service>>
        /\ Works(p, new)
    BY <1>1, <1>3, <2>1, <2>2, <2>3 DEF ReadWindow, Step, Works, fileVars
  <2> QED BY <2>3, <2>4 DEF GoesOn
<1>4. CASE ReadWindowRaises(p) \/ EndPass(p)
  <2>1. Moved(NoPass)
    BY <1>4 DEF ReadWindowRaises, EndPass, Finished, Step, GoesOn, Ends, fileVars
  <2> QED BY <2>1, NoPassFact
<1>5. CASE SkipProcessed(p) \/ GiveUp(p)
  <2>1. /\ old.pc = "working" /\ old.todo # <<>> /\ pass' = [pass EXCEPT ![p] = NextSignal(p)]
        /\ UNCHANGED <<logVars, service, processed, evidence, disturbances>>
    BY <1>1, <1>5 DEF SkipProcessed, GiveUp, Ask, Working, Step, fileVars
  <2>2. /\ NextSignal(p) \in Passes /\ NextSignal(p).pc = "working"
        /\ NextSignal(p).known = old.known /\ NextSignal(p).late = old.late
    BY <1>1, <2>1, CurrentFact
  <2>3. Moved(NextSignal(p))
    BY <1>1, <2>1, <2>2 DEF GoesOn, Works
  <2> QED BY <2>2, <2>3
<1>6. CASE Answer(p)
  <2>1. PICK new : new = [old EXCEPT !.pc = "answered", !.tries = 0]
    OBVIOUS
  <2>2. /\ new \in Passes /\ new.pc = "answered" /\ new.known = old.known
        /\ new.todo = old.todo /\ new.late = old.late
    BY <1>1, <2>1 DEF Passes
  <2>3. /\ pass' = [pass EXCEPT ![p] = new] /\ old.pc = "working" /\ old.todo # <<>>
        /\ Head(old.todo) \notin old.known
        /\ UNCHANGED <<logVars, service, processed, evidence, disturbances>>
    BY <1>1, <1>6, <2>1 DEF Answer, Ask, Working, SkipsKnown, Current, Step, fileVars
  <2>4. Moved(new)
    BY <1>1, <2>2, <2>3 DEF GoesOn, Works
  <2> QED BY <2>2, <2>4
<1>7. CASE Retry(p)
  <2>1. PICK new : new = [old EXCEPT !.tries = @ + 1]
    OBVIOUS
  <2>2. /\ old.pc = "working" /\ pass' = [pass EXCEPT ![p] = new]
        /\ UNCHANGED <<logVars, service, processed, evidence, disturbances>>
    BY <1>1, <1>7, <2>1 DEF Retry, Ask, Working, Step, fileVars
  <2>3. new \in Passes /\ new.pc = old.pc /\ new.known = old.known /\ new.late = old.late
    BY <1>1, <2>1 DEF Passes
  <2>4. Moved(new)
    BY <1>1, <2>2, <2>3 DEF GoesOn, Works
  <2> QED BY <2>3, <2>4
<1>8. CASE WriteEvidence(p)
  <2>1. old.pc = "answered" /\ old.todo # <<>>
    BY <1>1, <1>8 DEF WriteEvidence, Types
  <2>2. PICK next \in Passes : /\ next = NextSignal(p) /\ next.pc = "working"
                               /\ next.known = old.known /\ next.late = old.late
    BY <1>1, <2>1, CurrentFact
  <2>3. PICK s \in Signals : s = Current(p)
    BY <1>1, <2>1, CurrentFact
  <2>4. PICK new : new = IF s \in WithoutId THEN next
                         ELSE [next EXCEPT !.pc = "written", !.known = @ \cup {s}]
    OBVIOUS
  <2>5. /\ pass' = [pass EXCEPT ![p] = new] /\ OneMore(Current(p))
        /\ UNCHANGED <<logVars, service, processed, disturbances>>
    BY <1>8, <2>2, <2>3, <2>4 DEF WriteEvidence, Step, fileVars
  <2>6. CASE s \in WithoutId
    <3>1. new = next
      BY <2>4, <2>6
    <3>2. Moved(new)
      BY <1>1, <2>1, <2>2, <2>3, <2>5, <2>6, <3>1 DEF GoesOn, Writes
    <3> QED BY <2>2, <3>1, <3>2
  <2>7. CASE s \notin WithoutId
    <3>1. next.known \cup {s} \in SUBSET Signals
      BY <2>2, <2>3 DEF Passes
    <3>2. new = [next EXCEPT !.pc = "written", !.known = @ \cup {s}]
      BY <2>4, <2>7
    <3>3. /\ new \in Passes /\ new.pc = "written" /\ new.known = next.known \cup {s}
          /\ new.late = next.late
      BY <2>2, <3>1, <3>2 DEF Passes
    <3>4. Moved(new)
      BY <1>1, <2>1, <2>2, <2>3, <2>5, <3>3 DEF GoesOn, Writes
    <3> QED BY <3>3, <3>4
  <2> QED BY <2>6, <2>7
<1>9. CASE OpenProcessed(p)
  <2>1. PICK new : new = [old EXCEPT !.pc = "saving"]
    OBVIOUS
  <2>2. new \in Passes /\ new.pc = "saving" /\ new.known = old.known /\ new.late = old.late
    BY <1>1, <2>1 DEF Passes
  <2>3. Moved(new)
    BY <1>1, <1>9, <2>1, <2>2 DEF OpenProcessed, Step, GoesOn, Turns
  <2> QED BY <2>2, <2>3
<1>10. CASE CreateProcessed(p)
  <2>1. PICK new : new = [old EXCEPT !.pc = "written"]
    OBVIOUS
  <2>2. new \in Passes /\ new.pc = "written" /\ new.known = old.known /\ new.late = old.late
    BY <1>1, <2>1 DEF Passes
  <2>3. Moved(new)
    BY <1>1, <1>10, <2>1, <2>2 DEF CreateProcessed, Finished, Step, GoesOn, Turns, fileVars
  <2> QED BY <2>2, <2>3
<1>11. CASE SaveProcessed(p)
  <2>1. PICK new : new = [old EXCEPT !.pc = "working"]
    OBVIOUS
  <2>2. new \in Passes /\ new.pc = "working" /\ new.known = old.known /\ new.late = old.late
    BY <1>1, <2>1 DEF Passes
  <2>3. Moved(new)
    BY <1>1, <1>11, <2>1, <2>2 DEF SaveProcessed, Step, GoesOn, Saves
  <2> QED BY <2>2, <2>3
<1> QED
  BY <1>2, <1>3, <1>4, <1>5, <1>6, <1>7, <1>8, <1>9, <1>10, <1>11 DEF PassStep

-----------------------------------------------------------------------------
(* The invariants *)

\* Evidence is counted up, once for each record.
LEMMA OneMoreFact ==
  ASSUME Types, NEW s \in Signals, OneMore(s)
  PROVE  /\ evidence' \in [Signals -> Nat]
         /\ \A u \in Signals : evidence'[u] <= CountCap
         /\ evidence'[s] >= 1 /\ evidence'[s] <= evidence[s] + 1
         /\ \A u \in Signals : evidence'[u] >= evidence[u] /\ (u # s => evidence'[u] = evidence[u])
<1>1. CountCap \in Nat /\ CountCap >= 2
  BY InvestigationAssumption
<1>2. evidence' = [evidence EXCEPT ![s] = IF @ < CountCap THEN @ + 1 ELSE @]
  BY DEF OneMore
<1>3. \A u \in Signals : evidence[u] \in Nat /\ evidence[u] <= CountCap
  BY DEF Types
<1>4. evidence'[s] = IF evidence[s] < CountCap THEN evidence[s] + 1 ELSE evidence[s]
  BY <1>2 DEF Types
<1>5. \A u \in Signals : u # s => evidence'[u] = evidence[u]
  BY <1>2 DEF Types
<1>6. /\ evidence[s] \in Nat /\ evidence'[s] \in Nat /\ evidence'[s] >= evidence[s]
      /\ evidence'[s] <= CountCap /\ evidence'[s] >= 1 /\ evidence'[s] <= evidence[s] + 1
  BY <1>1, <1>3, <1>4
<1>7. evidence' \in [Signals -> Nat]
  BY <1>2, <1>3, <1>5, <1>6 DEF Types
<1> QED BY <1>3, <1>5, <1>6, <1>7

\* Disturbances are counted up to one less than the evidence.
LEMMA DisturbedFact ==
  ASSUME Types, NEW b \in BOOLEAN, Disturbed(b)
  PROVE  /\ disturbances' \in Nat /\ disturbances' <= CountCap - 1
         /\ disturbances' >= disturbances
         /\ b /\ disturbances # CountCap - 1 => disturbances' = disturbances + 1
         /\ ~b => disturbances' = disturbances
BY InvestigationAssumption DEF Disturbed, Types

\* What is recorded as processed, in the file or by a pass that is going on, has evidence.
Evidenced ==
  /\ \A s \in processed : evidence[s] >= 1
  /\ \A p \in Runners : \A s \in pass[p].known : evidence[s] >= 1

\* A mission's pass and the daemon's go on at once only if the service was started after
\* the mission asked.
Apart ==
  /\ pass["daemon"].pc # "idle" => service
  /\ \A m \in Missions : pass[m].pc # "idle" /\ service => pass[m].late

\* The passes that may still add evidence for a signal, and those that answer for it.
Adding(s) == {p \in Runners : UnderWay(p) /\ s \notin pass[p].known}

AnswersFor(p, s) ==
  UnderWay(p) /\ (s \notin pass[p].known \/ pass[p].pc \in {"written", "saving"})

\* Some pass or the file accounts for one evidence of the signal.
Accounted(s) == s \in processed \/ \E p \in Runners : AnswersFor(p, s)

Bit(b) == IF b THEN 1 ELSE 0

\* The evidence of a signal, with what passes may still add, is due to disturbances but for
\* the one that is accounted for.
Counted(s) ==
  \/ disturbances = CountCap - 1
  \/ evidence[s] + Cardinality(Adding(s)) <= disturbances + Bit(Accounted(s))

AllCounted == \A s \in Emitted \ WithoutId : Counted(s)

PassInv == Types /\ Evidenced /\ Apart /\ AllCounted

LEMMA RunnersFinite == IsFiniteSet(Runners) /\ "daemon" \in Runners
<1>1. IsFiniteSet({"daemon"})
  BY FS_Singleton
<1> QED BY <1>1, FS_Union, InvestigationAssumption DEF Runners

LEMMA AddingCard ==
  ASSUME NEW s
  PROVE  Cardinality(Adding(s)) \in Nat /\ Cardinality(Adding(s)') \in Nat
<1> DEFINE A == Adding(s)
           B == Adding(s)'
<1>1. A \subseteq Runners /\ B \subseteq Runners
  BY DEF Adding
<1> HIDE DEF A, B
<1>2. Cardinality(A) \in Nat /\ Cardinality(B) \in Nat
  BY <1>1, RunnersFinite, FS_Subset, FS_CardinalityType
<1> QED BY <1>2 DEF A, B

\* A step of one pass changes its own part of the count.
LEMMA AddingStep ==
  ASSUME NEW s, NEW p \in Runners, \A q \in Runners \ {p} : pass'[q] = pass[q]
  PROVE  Cardinality(Adding(s)') + Bit(p \in Adding(s))
           = Cardinality(Adding(s)) + Bit(p \in Adding(s)')
<1> DEFINE A == Adding(s)
           B == Adding(s)'
<1>1. A \subseteq Runners /\ B \subseteq Runners /\ A \ {p} = B \ {p}
  BY DEF Adding, UnderWay
<1> HIDE DEF A, B
<1>2. IsFiniteSet(A) /\ IsFiniteSet(B)
  BY <1>1, RunnersFinite, FS_Subset
<1>3. /\ Cardinality(A \ {p}) = IF p \in A THEN Cardinality(A) - 1 ELSE Cardinality(A)
      /\ Cardinality(B \ {p}) = IF p \in B THEN Cardinality(B) - 1 ELSE Cardinality(B)
  BY <1>2, FS_RemoveElement
<1>4. Cardinality(A) \in Nat /\ Cardinality(B) \in Nat
  BY <1>2, FS_CardinalityType
<1>5. PICK a \in Nat, b \in Nat : a = Cardinality(A) /\ b = Cardinality(B)
  BY <1>4
<1>6. (IF p \in A THEN a - 1 ELSE a) = (IF p \in B THEN b - 1 ELSE b)
  BY <1>1, <1>3, <1>5
<1>7. b + Bit(p \in A) = a + Bit(p \in B)
  BY <1>6 DEF Bit
<1> QED BY <1>5, <1>7 DEF A, B

\* The passes that a pass is not kept apart from are all that go on.
LEMMA BesideFact ==
  ASSUME Types, Apart, NEW p \in Runners, MayBegin(p)
  PROVE  /\ ~UnderWay(p)
         /\ ~Beside(p) => \A q \in Runners : ~UnderWay(q)
<1>1. ~UnderWay(p)
  BY DEF MayBegin, UnderWay
<1>2. ASSUME NEW q \in Runners, UnderWay(q) PROVE ~KeptApart(p, q)
  <2>1. pass[q].pc # "idle"
    BY <1>2 DEF UnderWay
  <2>2. CASE p = "daemon"
    <3>1. service
      BY <2>2, InvestigationAssumption DEF MayBegin
    <3> QED BY <2>1, <2>2, <3>1, InvestigationAssumption DEF Apart, KeptApart
  <2>3. CASE q = "daemon"
    <3>1. service
      BY <2>1, <2>3 DEF Apart
    <3>2. p \in Missions => pass[p].pc = "cleared"
      BY DEF MayBegin
    <3> QED BY <2>3, <3>1, <3>2, InvestigationAssumption DEF Apart, KeptApart
  <2> QED BY <2>2, <2>3 DEF KeptApart
<1>3. ASSUME ~Beside(p), NEW q \in Runners PROVE ~UnderWay(q)
  BY <1>1, <1>2, <1>3 DEF Beside
<1> QED BY <1>1, <1>3

LEMMA BesideBool == ASSUME NEW p PROVE Beside(p) \in BOOLEAN /\ UnderWay(p) \in BOOLEAN
BY DEF Beside, UnderWay

\* A step of a pass keeps the count.
LEMMA CountedMove ==
  ASSUME PassInv, NEW p \in Runners, NEW new \in Passes, PassMove(p, new),
         NEW s \in Emitted \ WithoutId
  PROVE  Counted(s)'
<1>1. Types /\ Apart /\ Counted(s) /\ s \in Signals /\ s \notin WithoutId
  BY InvestigationAssumption DEF PassInv, AllCounted
<1>2. /\ \A q \in Runners : pass'[q] = IF q = p THEN new ELSE pass[q]
      /\ \A q \in Runners \ {p} : pass'[q] = pass[q]
  BY <1>1 DEF PassMove, Types
<1>3. PICK e \in Nat, d \in Nat, cap \in Nat :
        e = evidence[s] /\ d = disturbances /\ cap = CountCap - 1 /\ d <= cap
  BY <1>1, InvestigationAssumption DEF Types
<1>4. /\ Loads(p, new) => Disturbed(Beside(p))
      /\ Dies(p, new) => Disturbed(UnderWay(p))
      /\ ~Loads(p, new) /\ ~Dies(p, new) => disturbances' = disturbances
  BY DEF PassMove, GoesOn, Loads, Dies, Asks, Ends, Works, Writes, Turns, Saves
<1>5. PICK d1 \in Nat : /\ d1 = disturbances' /\ d1 <= cap /\ d1 >= d
                        /\ Loads(p, new) /\ Beside(p) /\ d # cap => d1 = d + 1
                        /\ Dies(p, new) /\ UnderWay(p) /\ d # cap => d1 = d + 1
  <2>1. CASE Loads(p, new) /\ ~Dies(p, new)
    BY <1>1, <1>3, <1>4, <2>1, BesideBool, DisturbedFact
  <2>2. CASE Dies(p, new) /\ ~Loads(p, new)
    BY <1>1, <1>3, <1>4, <2>2, BesideBool, DisturbedFact
  <2>3. ~(Loads(p, new) /\ Dies(p, new))
    BY NoPassFact DEF Loads, Dies
  <2>4. CASE ~Loads(p, new) /\ ~Dies(p, new)
    BY <1>3, <1>4, <2>4
  <2> QED BY <2>1, <2>2, <2>3, <2>4
<1>24. PICK more \in Nat : d1 = d + more
  <2>0. d1 >= d
    BY <1>5
  <2>1. d1 - d \in Nat /\ d1 = d + (d1 - d)
    BY <2>0
  <2> QED BY <2>1
<1>6. PICK e1 \in Nat : /\ e1 = evidence'[s] /\ e1 <= e + 1
                        /\ ~(Writes(p, new) /\ Current(p) = s) => e1 = e
  <2>1. CASE Writes(p, new)
    <3>1. pass[p].todo # <<>> /\ OneMore(Current(p))
      BY <1>1, <2>1 DEF Writes, Types
    <3>2. PICK c \in Signals : c = Current(p)
      BY <1>1, <3>1, CurrentFact
    <3>3. /\ evidence' \in [Signals -> Nat] /\ evidence'[c] <= evidence[c] + 1
          /\ \A u \in Signals : u # c => evidence'[u] = evidence[u]
      BY <1>1, <3>1, <3>2, OneMoreFact
    <3>4. evidence'[s] \in Nat /\ evidence'[s] <= e + 1 /\ (s # c => evidence'[s] = e)
      BY <1>1, <1>3, <3>3
    <3> QED BY <2>1, <3>2, <3>4
  <2>2. CASE ~Writes(p, new)
    <3>1. evidence' = evidence
      BY <2>2 DEF PassMove, GoesOn, Loads, Dies, Asks, Ends, Works, Turns, Saves
    <3> QED BY <1>3, <2>2, <3>1
  <2> QED BY <2>1, <2>2
<1>7. PICK a \in Nat, a1 \in Nat, x \in {0, 1}, x1 \in {0, 1} :
        /\ a = Cardinality(Adding(s)) /\ a1 = Cardinality(Adding(s)')
        /\ x = Bit(p \in Adding(s)) /\ x1 = Bit(p \in Adding(s)')
        /\ a1 + x = a + x1
  <2>1. Bit(p \in Adding(s)) \in {0, 1} /\ Bit(p \in Adding(s)') \in {0, 1}
    BY DEF Bit
  <2> QED BY <1>2, <2>1, AddingCard, AddingStep
<1>0. x \in Nat /\ x <= 1 /\ x1 \in Nat /\ x1 <= 1
  OBVIOUS
<1>8. PICK b \in {0, 1}, b1 \in {0, 1} : b = Bit(Accounted(s)) /\ b1 = Bit(Accounted(s)')
  BY DEF Bit
<1>9. d = cap \/ e + a <= d + b
  BY <1>1, <1>3, <1>7, <1>8 DEF Counted
<1> SUFFICES d1 = cap \/ e1 + a1 <= d1 + b1
  BY <1>3, <1>5, <1>6, <1>7, <1>8 DEF Counted, Bit
<1> SUFFICES ASSUME d # cap PROVE e1 + a1 <= d1 + b1
  <2>1. d1 >= d /\ d1 <= cap
    BY <1>5
  <2>2. d = cap => d1 = cap
    BY <2>1
  <2> QED BY <2>2
\* It keeps the count if it answers for what it adds.
<1>10. ASSUME e1 + x1 <= e + x + more, b1 >= b \/ e1 + x1 + 1 <= e + x + more
       PROVE  e1 + a1 <= d1 + b1
  BY <1>3, <1>5, <1>24, <1>6, <1>7, <1>8, <1>9, <1>10
<1>11. /\ x = Bit(UnderWay(p) /\ s \notin pass[p].known)
       /\ x1 = Bit(new.pc \notin {"idle", "cleared"} /\ s \notin new.known)
  <2>1. p \in Adding(s) <=> UnderWay(p) /\ s \notin pass[p].known
    BY DEF Adding
  <2>2. p \in Adding(s)' <=> new.pc \notin {"idle", "cleared"} /\ s \notin new.known
    BY <1>2 DEF Adding, UnderWay
  <2> QED BY <1>7, <2>1, <2>2 DEF Bit
\* The others answer as they did.
<1>12. \A q \in Runners \ {p} : AnswersFor(q, s)' = AnswersFor(q, s)
  BY <1>2 DEF AnswersFor, UnderWay
<1>13. AnswersFor(p, s)' <=> /\ new.pc \notin {"idle", "cleared"}
                             /\ s \notin new.known \/ new.pc \in {"written", "saving"}
  BY <1>2 DEF AnswersFor, UnderWay
<1>14. ASSUME s \in processed => s \in processed' \/ AnswersFor(p, s)',
              AnswersFor(p, s) => s \in processed' \/ AnswersFor(p, s)'
       PROVE  b1 >= b
  <2>1. Accounted(s) => Accounted(s)'
    BY <1>12, <1>14 DEF Accounted
  <2> QED BY <1>8, <2>1 DEF Bit
<1>15. CASE Loads(p, new)
  <2>1. ~UnderWay(p) /\ (~Beside(p) => \A q \in Runners : ~UnderWay(q))
    BY <1>1, <1>15, BesideFact DEF Loads
  <2>2. e1 = e /\ x = 0 /\ x1 = Bit(s \notin processed)
    BY <1>6, <1>11, <1>15, <2>1 DEF Loads, Writes, Bit, MayBegin
  <2>3. processed' = processed /\ (s \notin processed => AnswersFor(p, s)')
    BY <1>13, <1>15 DEF Loads
  <2>4. b1 >= b
    BY <1>14, <2>1, <2>3 DEF AnswersFor
  <2>5. CASE s \in processed
    <3>1. x1 = 0
      BY <2>2, <2>5 DEF Bit
    <3>2. e1 + x1 <= e + x + more
      BY <1>0, <1>5, <1>24, <2>2, <3>1
    <3> QED BY <1>10, <2>4, <3>2
  <2>6. CASE s \notin processed /\ Beside(p)
    <3>1. d1 = d + 1
      BY <1>0, <1>5, <1>24, <1>15, <2>6
    <3>2. e1 + x1 <= e + x + more
      BY <1>24, <2>2, <3>1
    <3> QED BY <1>10, <2>4, <3>2
  <2>7. CASE s \notin processed /\ ~Beside(p)
    <3>1. ~Accounted(s)
      BY <2>1, <2>7 DEF Accounted, AnswersFor
    <3>2. Accounted(s)'
      BY <2>3, <2>7 DEF Accounted
    <3>3. b = 0 /\ b1 = 1
      BY <1>8, <3>1, <3>2 DEF Bit
    <3> QED BY <1>0, <1>5, <1>24, <1>7, <1>9, <2>2, <3>3
  <2> QED BY <2>5, <2>6, <2>7
<1>16. CASE Ends(p, new)
  <2>1. UnderWay(p) /\ new.pc = "idle" /\ processed' = processed
    BY <1>16, NoPassFact DEF Ends, UnderWay
  <2>2. e1 = e /\ x1 = 0 /\ x = Bit(s \notin pass[p].known)
    BY <1>6, <1>11, <1>16, <2>1 DEF Ends, Writes, Bit
  <2>3. CASE s \in pass[p].known
    <3>1. ~AnswersFor(p, s)
      BY <1>16, <2>3 DEF AnswersFor, Ends
    <3>2. x = 0 /\ b1 >= b
      BY <1>14, <2>1, <2>2, <2>3, <3>1 DEF Bit
    <3>3. e1 + x1 <= e + x + more
      BY <1>0, <1>5, <1>24, <2>2, <3>2
    <3> QED BY <1>10, <3>2, <3>3
  <2>4. CASE s \notin pass[p].known
    <3>1. x = 1
      BY <2>2, <2>4 DEF Bit
    <3>2. e1 + x1 + 1 <= e + x + more /\ e1 + x1 <= e + x + more
      BY <1>0, <1>5, <1>24, <2>2, <3>1
    <3> QED BY <1>10, <3>2
  <2> QED BY <2>3, <2>4
<1>17. CASE Dies(p, new)
  <2>1. new.pc = "idle" /\ processed' = processed
    BY <1>17, NoPassFact DEF Dies
  <2>2. e1 = e /\ x1 = 0
    <3>1. ~Writes(p, new)
      BY <2>1 DEF Writes
    <3> QED BY <1>6, <1>11, <2>1, <3>1 DEF Bit
  <2>3. CASE UnderWay(p)
    <3>1. d1 = d + 1
      BY <1>0, <1>5, <1>24, <1>17, <2>3
    <3>2. e1 + x1 + 1 <= e + x + more /\ e1 + x1 <= e + x + more
      BY <1>24, <2>2, <3>1
    <3> QED BY <1>10, <3>2
  <2>4. CASE ~UnderWay(p)
    <3>1. b1 >= b
      BY <1>14, <2>1, <2>4 DEF AnswersFor
    <3>2. e1 + x1 <= e + x + more
      BY <1>0, <1>5, <2>2
    <3> QED BY <1>10, <3>1, <3>2
  <2> QED BY <2>3, <2>4
<1>18. CASE Asks(p, new)
  <2>1. ~UnderWay(p) /\ new.pc = "cleared" /\ processed' = processed /\ ~Writes(p, new)
    BY <1>18 DEF Asks, UnderWay, Writes
  <2>2. e1 = e /\ x1 = 0
    BY <1>6, <1>11, <2>1 DEF Bit
  <2>3. b1 >= b
    BY <1>14, <2>1 DEF AnswersFor
  <2>4. e1 + x1 <= e + x + more
    BY <1>0, <1>5, <2>2
  <2> QED BY <1>10, <2>3, <2>4
\* Steps of a pass that goes on and knows what it knew.
<1>19. ASSUME UnderWay(p), new.pc \notin {"idle", "cleared"}, new.known = pass[p].known, e1 = e,
              b1 >= b
       PROVE  e1 + a1 <= d1 + b1
  <2>1. x1 = x
    BY <1>11, <1>19
  <2>2. e1 + x1 <= e + x + more
    BY <1>0, <1>5, <1>24, <1>19, <2>1
  <2> QED BY <1>10, <1>19, <2>2
<1>20. CASE Works(p, new)
  <2>1. /\ UnderWay(p) /\ new.pc \notin {"idle", "cleared"} /\ new.known = pass[p].known
        /\ processed' = processed /\ ~Writes(p, new) /\ pass[p].pc \notin {"written", "saving"}
    BY <1>20 DEF Works, UnderWay, Writes
  <2>2. b1 >= b
    BY <1>13, <1>14, <2>1 DEF AnswersFor
  <2> QED BY <1>6, <1>19, <2>1, <2>2
<1>21. CASE Turns(p, new)
  <2>1. /\ UnderWay(p) /\ new.pc \in {"written", "saving"} /\ new.known = pass[p].known
        /\ ~Writes(p, new)
    BY <1>21 DEF Turns, UnderWay, Writes
  <2>2. b1 >= b
    BY <1>13, <1>14, <2>1
  <2> QED BY <1>6, <1>19, <2>1, <2>2
<1>22. CASE Saves(p, new)
  <2>1. /\ UnderWay(p) /\ new.pc = "working" /\ new.known = pass[p].known
        /\ ~Writes(p, new) /\ processed' = pass[p].known
    BY <1>22 DEF Saves, UnderWay, Writes
  <2>2. b1 >= b
    BY <1>13, <1>14, <2>1
  <2> QED BY <1>6, <1>19, <2>1, <2>2
<1>23. CASE Writes(p, new)
  <2>1. /\ UnderWay(p) /\ new.pc \in {"working", "written"} /\ processed' = processed
        /\ pass[p].pc \notin {"written", "saving"} /\ Current(p) \notin pass[p].known
    BY <1>1, <1>23 DEF Writes, UnderWay, Types, Current
  <2>2. CASE s = Current(p)
    <3>1. new.pc = "written" /\ new.known = pass[p].known \cup {s}
      BY <1>1, <1>23, <2>2 DEF Writes
    <3>2. x = 1 /\ x1 = 0
      BY <1>11, <2>1, <2>2, <3>1 DEF Bit
    <3>3. b1 >= b
      BY <1>13, <1>14, <3>1
    <3>4. e1 + x1 <= e + x + more
      BY <1>0, <1>5, <1>24, <1>6, <3>2
    <3> QED BY <1>10, <3>3, <3>4
  <2>3. CASE s # Current(p)
    <3>1. s \in new.known <=> s \in pass[p].known
      BY <1>23, <2>3 DEF Writes
    <3>2. x1 = x /\ e1 = e
      BY <1>6, <1>11, <2>1, <2>3, <3>1 DEF Bit
    <3>3. b1 >= b
      BY <1>13, <1>14, <2>1, <3>1 DEF AnswersFor
    <3>4. e1 + x1 <= e + x + more
      BY <1>0, <1>5, <3>2
    <3> QED BY <1>10, <3>3, <3>4
  <2> QED BY <2>2, <2>3
<1> QED
  BY <1>15, <1>16, <1>17, <1>18, <1>20, <1>21, <1>22, <1>23 DEF PassMove, GoesOn

\* A step of a pass keeps the types and what has evidence.
LEMMA MoveTypes ==
  ASSUME Types, Evidenced, NEW p \in Runners, NEW new \in Passes, PassMove(p, new),
         service' \in BOOLEAN
  PROVE  Types' /\ Evidenced'
<1>1. /\ pass' \in [Runners -> Passes]
      /\ \A q \in Runners : pass'[q] = IF q = p THEN new ELSE pass[q]
  BY DEF PassMove, Types
<1>2. LogInv'
  BY DEF PassMove, Types, LogInv, Single, logVars
<1>3. disturbances' \in Nat /\ disturbances' <= CountCap - 1
  <2>1. CASE Loads(p, new) \/ Dies(p, new)
    BY <2>1, BesideBool, DisturbedFact DEF Loads, Dies
  <2>2. CASE disturbances' = disturbances
    BY <2>2 DEF Types
  <2> QED BY <2>1, <2>2 DEF PassMove, GoesOn, Asks, Ends, Works, Writes, Turns, Saves
<1>4. pass[p] \in Passes /\ pass[p].known \subseteq Signals /\ processed \subseteq Signals
  BY DEF Types, Passes
<1>5. /\ evidence' \in [Signals -> Nat]
      /\ \A u \in Signals : evidence'[u] <= CountCap /\ (evidence[u] >= 1 => evidence'[u] >= 1)
      /\ Writes(p, new) => Current(p) \in Signals /\ evidence'[Current(p)] >= 1
  <2>1. CASE Writes(p, new)
    <3>1. PICK c \in Signals : c = Current(p) /\ OneMore(c)
      BY <2>1, CurrentFact DEF Writes, Types
    <3>2. /\ evidence' \in [Signals -> Nat] /\ evidence'[c] >= 1
          /\ \A u \in Signals : evidence'[u] <= CountCap /\ evidence'[u] >= evidence[u]
      BY <3>1, OneMoreFact
    <3>3. ASSUME NEW u \in Signals, evidence[u] >= 1 PROVE evidence'[u] >= 1
      <4>1. evidence[u] \in Nat /\ evidence'[u] \in Nat /\ evidence'[u] >= evidence[u]
        BY <3>2 DEF Types
      <4> QED BY <3>3, <4>1
    <3> QED BY <3>1, <3>2, <3>3
  <2>2. CASE ~Writes(p, new)
    <3>1. evidence' = evidence
      BY <2>2 DEF PassMove, GoesOn, Loads, Dies, Asks, Ends, Works, Turns, Saves
    <3> QED BY <2>2, <3>1 DEF Types
  <2> QED BY <2>1, <2>2
<1>6. processed' \in SUBSET Signals /\ \A s \in processed' : evidence'[s] >= 1
  <2>1. CASE Saves(p, new)
    BY <1>4, <1>5, <2>1 DEF Saves, Evidenced
  <2>2. CASE processed' = processed
    BY <1>4, <1>5, <2>2 DEF Evidenced
  <2> QED BY <2>1, <2>2 DEF PassMove, GoesOn, Loads, Dies, Asks, Ends, Works, Writes, Turns
<1>7. \A s \in new.known : evidence'[s] >= 1
  <2>1. CASE Writes(p, new)
    BY <1>4, <1>5, <2>1 DEF Writes, Evidenced
  <2>2. CASE new.known = {}
    BY <2>2
  <2>3. CASE new.known = processed \/ new.known = pass[p].known
    BY <1>4, <1>5, <2>3 DEF Evidenced
  <2> QED BY <2>1, <2>2, <2>3, NoPassFact
          DEF PassMove, GoesOn, Loads, Dies, Asks, Ends, Works, Turns, Saves
<1>8. new.pc = "answered" => new.todo # <<>> /\ Head(new.todo) \notin new.known
  BY NoPassFact DEF PassMove, GoesOn, Loads, Dies, Asks, Ends, Works, Writes, Turns, Saves
<1>9. Types'
  <2>1. \A q \in Runners :
          pass'[q].pc = "answered"
            => pass'[q].todo # <<>> /\ Head(pass'[q].todo) \notin pass'[q].known
    BY <1>1, <1>8 DEF Types
  <2> QED BY <1>1, <1>2, <1>3, <1>5, <1>6, <2>1 DEF Types
<1>10. Evidenced'
  <2>1. ASSUME NEW q \in Runners, NEW s \in pass'[q].known PROVE evidence'[s] >= 1
    <3>1. CASE q = p
      BY <1>1, <1>7, <2>1, <3>1
    <3>2. CASE q # p
      <4>1. s \in pass[q].known /\ pass[q].known \subseteq Signals
        BY <1>1, <2>1, <3>2 DEF Types, Passes
      <4> QED BY <1>5, <4>1 DEF Evidenced
    <3> QED BY <3>1, <3>2
  <2> QED BY <1>6, <2>1 DEF Evidenced
<1> QED BY <1>9, <1>10

LEMMA MoveInv ==
  ASSUME PassInv, NEW p \in Runners, NEW new \in Passes, PassMove(p, new),
         service' \in BOOLEAN, Apart'
  PROVE  PassInv'
<1>1. Types' /\ Evidenced'
  BY MoveTypes DEF PassInv
<1>2. AllCounted'
  <2> SUFFICES ASSUME NEW s \in Emitted \ WithoutId PROVE Counted(s)'
    BY DEF AllCounted
  <2> QED BY CountedMove
<1> QED BY <1>1, <1>2 DEF PassInv

\* A pass that goes on stays as far apart from others as it was.
LEMMA GoesOnInv ==
  ASSUME PassInv, NEW p \in Runners, PassStep(p)
  PROVE  PassInv'
<1>1. Types /\ Apart
  BY DEF PassInv
<1>2. PICK new \in Passes : /\ pass' = [pass EXCEPT ![p] = new]
                            /\ UNCHANGED <<logVars, service>>
                            /\ GoesOn(p, new)
  BY <1>1, PassMoves
<1>3. \A q \in Runners : pass'[q] = IF q = p THEN new ELSE pass[q]
  BY <1>1, <1>2 DEF Types
<1>4. /\ new.pc # "idle" => pass[p].pc # "idle" \/ (p \notin Missions /\ (p = "daemon" => service))
      /\ new.pc # "idle" => new.late = pass[p].late
  BY <1>2, NoPassFact DEF GoesOn, Loads, Ends, Works, Writes, Turns, Saves, MayBegin
<1>5. Apart'
  <2>1. pass'["daemon"].pc # "idle" => service'
    BY <1>1, <1>2, <1>3, <1>4, RunnersFinite DEF Apart
  <2>2. ASSUME NEW m \in Missions, pass'[m].pc # "idle", service' PROVE pass'[m].late
    <3>1. m \in Runners
      BY DEF Runners
    <3> QED BY <1>1, <1>2, <1>3, <1>4, <2>2, <3>1 DEF Apart
  <2> QED BY <2>1, <2>2 DEF Apart
<1>6. PassMove(p, new) /\ service' \in BOOLEAN
  BY <1>1, <1>2 DEF PassMove, Types
<1> QED BY <1>5, <1>6, MoveInv

\* The service stops, a pass is killed, a mission asks.
LEMMA MishapInv ==
  ASSUME PassInv,
         \/ StopService
         \/ \E m \in Missions : CheckService(m)
         \/ \E p \in Missions \cup Manual : KillPass(p)
  PROVE  PassInv'
<1>1. Types /\ Apart
  BY DEF PassInv
<1>2. CASE StopService
  <2>1. /\ service' = FALSE /\ "daemon" \in Runners
        /\ pass' = [pass EXCEPT !["daemon"] = NoPass]
        /\ PassMove("daemon", NoPass)
    BY <1>2, RunnersFinite DEF StopService, PassMove, Dies, fileVars
  <2>2. pass'["daemon"].pc = "idle"
    BY <1>1, <2>1, NoPassFact DEF Types
  <2>3. Apart'
    BY <2>1, <2>2 DEF Apart
  <2> QED BY <2>1, <2>3, NoPassFact, MoveInv
<1>3. ASSUME NEW p \in Missions \cup Manual, KillPass(p) PROVE PassInv'
  <2>1. /\ service' = service /\ p \in Runners /\ PassMove(p, NoPass)
        /\ pass' = [pass EXCEPT ![p] = NoPass]
    BY <1>3 DEF KillPass, PassMove, Dies, fileVars, Runners
  <2>2. \A q \in Runners : pass'[q] = IF q = p THEN NoPass ELSE pass[q]
    BY <1>1, <2>1 DEF Types
  <2>3. Apart'
    <3>1. \A m \in Missions : m \in Runners
      BY DEF Runners
    <3> QED BY <1>1, <2>1, <2>2, <3>1, NoPassFact, RunnersFinite DEF Apart
  <2>4. service' \in BOOLEAN
    BY <1>1, <2>1 DEF Types
  <2> QED BY <2>1, <2>3, <2>4, NoPassFact, MoveInv
<1>4. ASSUME NEW m \in Missions, CheckService(m) PROVE PassInv'
  <2>1. PICK new : new = [NoPass EXCEPT !.pc = "cleared"]
    OBVIOUS
  <2>2. new \in Passes /\ new.pc = "cleared" /\ new.known = {}
    <3>1. PICK x \in Passes : x = NoPass /\ x.known = {}
      BY NoPassFact
    <3>2. new = [x EXCEPT !.pc = "cleared"]
      BY <2>1, <3>1
    <3> QED BY <3>1, <3>2 DEF Passes
  <2>3. /\ service' = service /\ ~service /\ m \in Runners
        /\ pass' = [pass EXCEPT ![m] = new] /\ pass[m].pc = "idle"
        /\ UNCHANGED <<logVars, processed, evidence, disturbances>>
    BY <1>4, <2>1 DEF CheckService, Step, fileVars, Runners
  <2>4. PassMove(m, new)
    BY <2>2, <2>3 DEF PassMove, Asks
  <2>5. Apart'
    <3>1. pass'["daemon"] = pass["daemon"]
      BY <1>1, <2>3, RunnersFinite, InvestigationAssumption DEF Types
    <3> QED BY <1>1, <2>3, <3>1 DEF Apart
  <2>6. service' \in BOOLEAN
    BY <1>1, <2>3 DEF Types
  <2> QED BY <2>2, <2>3, <2>4, <2>5, <2>6, MoveInv
<1> QED BY <1>2, <1>3, <1>4

\* What a pass goes by stays; evidence may grow, but not that of an emitted signal.
LEMMA SteadyInv ==
  ASSUME PassInv, LogInv', service' \in BOOLEAN, Apart', UNCHANGED <<processed, disturbances>>,
         pass' \in [Runners -> Passes],
         \A p \in Runners : /\ pass'[p].pc = pass[p].pc /\ pass'[p].known = pass[p].known
                            /\ pass'[p].todo = pass[p].todo,
         evidence' \in [Signals -> Nat], \A s \in Signals : evidence'[s] <= CountCap,
         \A s \in Signals : evidence[s] >= 1 => evidence'[s] >= 1,
         \A s \in Emitted : evidence'[s] = evidence[s]
  PROVE  PassInv'
<1>1. Types'
  BY DEF PassInv, Types
<1>2. Evidenced'
  <2>1. \A s \in processed : evidence'[s] >= 1
    BY DEF PassInv, Types, Evidenced
  <2>2. ASSUME NEW p \in Runners, NEW s \in pass[p].known PROVE evidence'[s] >= 1
    <3>1. pass[p].known \subseteq Signals
      BY DEF PassInv, Types, Passes
    <3> QED BY <2>2, <3>1 DEF PassInv, Evidenced
  <2> QED BY <2>1, <2>2 DEF Evidenced
<1>3. AllCounted'
  <2> SUFFICES ASSUME NEW s \in Emitted \ WithoutId PROVE Counted(s)'
    BY DEF AllCounted
  <2>1. Adding(s)' = Adding(s)
    BY DEF Adding, UnderWay
  <2>2. Accounted(s)' <=> Accounted(s)
    BY DEF Accounted, AnswersFor, UnderWay
  <2>3. Bit(Accounted(s)') = Bit(Accounted(s))
    BY <2>2 DEF Bit
  <2>4. Counted(s) /\ evidence'[s] = evidence[s]
    BY DEF PassInv, AllCounted
  <2> QED BY <2>1, <2>3, <2>4 DEF Counted, Bit
<1> QED BY <1>1, <1>2, <1>3 DEF PassInv

\* What other processes do to the log, the burn-in's evidence for its own signal, and the
\* start of the service.
LEMMA OthersInv ==
  ASSUME PassInv, TrainerStep \/ StartService \/ \E s \in Emitted : Arrive(s)
  PROVE  PassInv'
<1>0. /\ Cycle \in Signals /\ Outcome \in Signals /\ Emitted \subseteq Signals /\ Cycle \notin Emitted
      /\ Types /\ Apart
  BY InvestigationAssumption DEF PassInv
<1>1. CASE LogInv' /\ UNCHANGED <<service, pass, processed, disturbances, evidence>>
  <2>1. Apart'
    BY <1>0, <1>1 DEF Apart
  <2> QED BY <1>0, <1>1, <2>1, SteadyInv DEF Types
<1>2. ASSUME NEW s \in Signals, Emit(s) \/ \E parses \in BOOLEAN : EmitCutShort(s, parses)
      PROVE  LogInv'
  BY <1>0, <1>2, LogStep DEF Types
<1>3. CASE \E s \in Emitted : Arrive(s)
  BY <1>0, <1>1, <1>2, <1>3 DEF Arrive, invVars, fileVars
<1>4. CASE BeginCycle \/ EndCycle
  BY <1>0, <1>1, <1>2, <1>4 DEF BeginCycle, EndCycle, fileVars
<1>5. CASE CycleEvidence
  <2>1. OneMore(Cycle) /\ UNCHANGED logVars /\ UNCHANGED <<service, pass, processed, disturbances>>
    BY <1>5 DEF CycleEvidence, fileVars
  <2>2. /\ evidence' \in [Signals -> Nat]
        /\ \A u \in Signals : /\ evidence'[u] >= evidence[u] /\ evidence'[u] <= CountCap
                              /\ u # Cycle => evidence'[u] = evidence[u]
    BY <1>0, <2>1, OneMoreFact
  <2>3. LogInv' /\ Apart'
    BY <1>0, <2>1 DEF Types, LogInv, Single, logVars, Apart
  <2>4. ASSUME NEW s \in Signals, evidence[s] >= 1 PROVE evidence'[s] >= 1
    <3>1. evidence[s] \in Nat /\ evidence'[s] \in Nat /\ evidence'[s] >= evidence[s]
      BY <1>0, <2>2 DEF Types
    <3> QED BY <2>4, <3>1
  <2> QED BY <1>0, <2>1, <2>2, <2>3, <2>4, SteadyInv DEF Types
<1>6. CASE StartService
  <2>1. /\ service' = TRUE /\ UNCHANGED logVars /\ UNCHANGED <<processed, evidence, disturbances>>
        /\ pass' = [p \in Runners |->
                      [pass[p] EXCEPT !.late = p \in Missions /\ pass[p].pc # "idle"]]
    BY <1>6 DEF StartService, fileVars
  <2>2. ASSUME NEW p \in Runners
        PROVE  /\ pass'[p] \in Passes /\ pass'[p].pc = pass[p].pc
               /\ pass'[p].known = pass[p].known /\ pass'[p].todo = pass[p].todo
               /\ pass'[p].late = (p \in Missions /\ pass[p].pc # "idle")
    <3>1. PICK x \in Passes : x = pass[p]
      BY <1>0 DEF Types
    <3>2. PICK late \in BOOLEAN : late = (p \in Missions /\ pass[p].pc # "idle")
      OBVIOUS
    <3>3. pass'[p] = [x EXCEPT !.late = late]
      BY <2>1, <3>1, <3>2
    <3> QED BY <3>1, <3>2, <3>3 DEF Passes
  <2>3. Apart'
    <3>1. \A m \in Missions : m \in Runners
      BY DEF Runners
    <3> QED BY <2>1, <2>2, <3>1 DEF Apart
  <2>4. pass' \in [Runners -> Passes] /\ LogInv'
    BY <1>0, <2>1, <2>2 DEF Types, LogInv, Single, logVars
  <2> QED BY <1>0, <2>1, <2>2, <2>3, <2>4, SteadyInv DEF Types
<1> QED BY <1>3, <1>4, <1>5, <1>6 DEF TrainerStep

LEMMA NextPassInv == PassInv /\ [Next]_vars => PassInv'
<1> SUFFICES ASSUME PassInv, [Next]_vars PROVE PassInv'
  OBVIOUS
<1>1. CASE UNCHANGED vars
  <2>1. LogInv' /\ Apart' /\ UNCHANGED <<service, pass, processed, evidence, disturbances>>
    BY <1>1 DEF vars, logVars, invVars, fileVars, PassInv, Types, LogInv, Single, Apart
  <2> QED BY <2>1, SteadyInv, InvestigationAssumption DEF PassInv, Types
<1> QED
  BY <1>1, GoesOnInv, OthersInv, MishapInv DEF Next

\* At the first start there is no pass and no evidence.
LEMMA InitPassInv == Init => PassInv
<1> SUFFICES ASSUME Init PROVE PassInv
  OBVIOUS
<1>1. /\ log = <<>> /\ cut = FALSE /\ service = FALSE /\ disturbances = 0 /\ processed = {}
      /\ \A p \in Runners : pass[p] = NoPass
      /\ pass = [p \in Runners |-> NoPass]
      /\ evidence = [s \in Signals |-> 0]
  BY DEF Init, LogInit
<1>2. LogInv
  <2>1. log \in Seq(Line) /\ Len(log) = 0
    BY <1>1
  <2>2. 1..Len(log) = {}
    BY <2>1
  <2> QED BY <1>1, <2>1, <2>2 DEF LogInv, Single
<1>3. Types
  <2>1. CountCap \in Nat /\ 0 <= CountCap - 1 /\ 0 <= CountCap
    BY InvestigationAssumption
  <2>2. pass \in [Runners -> Passes] /\ evidence \in [Signals -> Nat]
    BY <1>1, NoPassFact
  <2> QED BY <1>1, <1>2, <2>1, <2>2, NoPassFact DEF Types
<1>4. Evidenced /\ Apart
  BY <1>1, NoPassFact, RunnersFinite DEF Evidenced, Apart, Runners
<1>5. ASSUME NEW s \in Signals PROVE Counted(s)
  <2>1. Adding(s) = {}
    BY <1>1, NoPassFact DEF Adding, UnderWay
  <2>2. Cardinality(Adding(s)) = 0
    BY <2>1, FS_EmptySet
  <2>3. Bit(Accounted(s)) \in {0, 1}
    BY DEF Bit
  <2>4. evidence[s] + Cardinality(Adding(s)) <= disturbances + Bit(Accounted(s))
    BY <1>1, <2>2, <2>3
  <2> QED BY <2>4 DEF Counted
<1> QED BY <1>3, <1>4, <1>5, InvestigationAssumption DEF PassInv, AllCounted

LEMMA PassesInvariant == Spec => []PassInv
BY InitPassInv, NextPassInv, PTL DEF Spec

-----------------------------------------------------------------------------
(* Theorems *)

\* A signal recorded as processed has evidence, wherever the service or another pass is cut
\* off, however passes overlap and whatever the endpoints do: run_investigation writes the
\* evidence before the set of ids, and no pass believes more processed than has evidence.
THEOREM ProcessedEvidenced == Spec => []ProcessedHasEvidence
<1>1. PassInv => ProcessedHasEvidence
  BY DEF PassInv, Evidenced, ProcessedHasEvidence
<1> QED BY <1>1, PassesInvariant, PTL

\* For any number of missions and passes by hand: a signal with an id is investigated again
\* only because a pass was cut off or begun beside another, once for each.  A record that
\* one pass overwrites with what it had loaded is part of that price, and the question
\* run_mission asks is enough for it not to be paid for a mission and the daemon.
THEOREM PassesDoNotRepeat == Spec => []InvestigatedOnce
<1>1. PassInv => InvestigatedOnce
  <2> SUFFICES ASSUME PassInv, NEW s \in Emitted \ WithoutId
               PROVE  evidence[s] <= 1 + disturbances
    BY DEF InvestigatedOnce
  <2>1. /\ Counted(s) /\ s \in Signals /\ evidence[s] \in Nat /\ disturbances \in Nat
        /\ evidence[s] <= CountCap /\ CountCap \in Nat
    BY InvestigationAssumption DEF PassInv, Types, AllCounted
  <2>2. PICK a \in Nat, b \in {0, 1} : a = Cardinality(Adding(s)) /\ b = Bit(Accounted(s))
    BY AddingCard DEF Bit
  <2>3. CASE disturbances = CountCap - 1
    BY <2>1, <2>3
  <2>4. CASE evidence[s] + a <= disturbances + b
    BY <2>1, <2>4
  <2> QED BY <2>1, <2>2, <2>3, <2>4 DEF Counted
<1> QED BY <1>1, PassesInvariant, PTL

=============================================================================
