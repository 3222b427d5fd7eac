-------------------------- MODULE PiSessionsProofs --------------------------
(***************************************************************************)
(* Theorems about PiSessions, for any number of calls, sessions, threads   *)
(* and manifests: what a closed or undisturbed session keeps of what it    *)
(* answered, and what the gate of skills rests on.                         *)
(***************************************************************************)
EXTENDS PiSessions, TLAPS

-----------------------------------------------------------------------------
(* Where a call is *)

Asking   == {"ask", "opening", "fetching", "matching", "running", "logging", "dumping", "writing"}
Shutting == {"close", "summing", "noting"}
Early    == {"waiting", "making", "made", "finding"}
Over     == {"answered", "failed"}

\* A call that has a session.
Sessioned == {"matching", "running", "logging", "dumping", "writing", "summing"}

\* A call that has its engine.
Holding == Asking \cup Shutting \cup {"reload", "reloading"}

CallRecords ==
  [pc      : Early \cup Holding \cup Over,
   engine  : Calls \cup {None},
   session : Calls \cup {None},
   skill   : Skills \cup {None},
   tier    : {"local_free", "free", "paid", None},
   held    : SUBSET Calls,
   version : Nat,
   since   : Nat]

Types ==
  /\ manifest \in 1..Len(Manifests)
  /\ engine \in Calls \cup {None}
  /\ loaded \in [Calls -> Nat]
  /\ sessions \in [Calls -> [Sids -> Calls \cup {None}]]
  /\ entries \in [Calls -> SUBSET Calls]
  /\ file \in [Sids -> SUBSET Calls]
  /\ summary \in [Sids -> SUBSET Calls]
  /\ changelog \subseteq Calls
  /\ call \in [Calls -> CallRecords]
  /\ restarts \in Nat /\ raced \in BOOLEAN /\ reloaded \in 0..manifest
  /\ overlapped \subseteq Sids

\* A call goes the way of its kind, has a skill only while it runs it, and knows no reload
\* later than the last.
Ways ==
  \A c \in Calls :
    /\ call[c].pc \in Asking => Kind[c] = "ask"
    /\ call[c].pc \in Shutting => Kind[c] = "close"
    /\ call[c].pc \in {"reload", "reloading"} => Kind[c] = "reload"
    /\ call[c].pc \in Holding => call[c].engine \in Calls
    /\ call[c].pc \in Sessioned => call[c].session \in Calls
    /\ call[c].skill # None => call[c].pc = "running"
    /\ call[c].since <= reloaded

\* As long as no engine replaced another, a call has the gateway's, and that one is no
\* older than the last reload that ended alone; nor is one that is made and would be the
\* first, and nor is what a reload has read and not put into place.
Engines ==
  /\ \A c \in Calls : call[c].pc \in Holding \cup {"finding"} => engine # None
  /\ ~raced => \A c \in Calls : call[c].pc \in Holding => call[c].engine = engine
  /\ engine # None => loaded[engine] \in 1..manifest
  /\ \A c \in Calls : At(c, "made") => loaded[c] \in 1..manifest
  /\ ~raced /\ engine # None => reloaded <= loaded[engine]
  /\ ~raced /\ engine = None => \A c \in Calls : At(c, "made") => reloaded <= loaded[c]
  /\ \A c \in Calls : At(c, "reloading") =>
       call[c].version \in 1..manifest /\ reloaded <= call[c].version

\* A session with two calls under way is among the overlapped.
Overlaps ==
  \A c, d \in Calls : c # d /\ UnderWay(c) /\ UnderWay(d) /\ Sid[c] = Sid[d] => Sid[c] \in overlapped

\* Calls of the session follow one another and one engine serves them.
Steady(s) == s \notin overlapped /\ restarts = 0 /\ ~raced

\* And no call has closed it yet.
Open(s) ==
  /\ Steady(s)
  /\ \A c \in Calls : Sid[c] = s /\ Kind[c] = "close" => call[c].pc \in Early \cup {"close"}

\* An answered request is in the engine's session and in its file.
Lasts(c) ==
  /\ engine # None
  /\ sessions[engine][Sid[c]] # None
  /\ c \in entries[sessions[engine][Sid[c]]]
  /\ c \in file[Sid[c]]

\* A call on its way holds the engine's session, and writes what all calls before it left.
OnItsWay(c) ==
  /\ At(c, "opening") => sessions[engine][Sid[c]] = None
  /\ call[c].pc \in {"matching", "running", "logging", "dumping", "writing"} =>
       call[c].session = sessions[engine][Sid[c]]
  /\ call[c].pc \in {"dumping", "writing"} => c \in entries[call[c].session]
  /\ At(c, "writing") =>
       /\ c \in call[c].held
       /\ \A d \in Calls : Answered(d) /\ Sid[d] = Sid[c] => d \in call[c].held

Kept(c) == Open(Sid[c]) => (Answered(c) => Lasts(c)) /\ OnItsWay(c)

\* What the summary of a closed session takes up: if this is the only closure.
OnlyClosure(c) ==
  /\ Steady(Sid[c])
  /\ \A d \in Calls \ {c} : Sid[d] = Sid[c] /\ Kind[d] = "close" => At(d, "waiting")

Closed(c) ==
  OnlyClosure(c) =>
    \A d \in Calls : Answered(d) /\ Sid[d] = Sid[c] =>
      /\ At(c, "summing") => d \in entries[call[c].session]
      /\ At(c, "noting") => d \in summary[Sid[c]]

\* The gate: what runs was beta or better in a manifest that is recent enough.
Gated(c) ==
  ~raced /\ call[c].skill \in Mutating =>
    \E v \in 1..manifest :
      v >= call[c].since /\ Manifests[v][call[c].skill] \in {"beta", "production"}

PiInv ==
  /\ Types /\ Ways /\ Engines /\ Overlaps
  /\ \A c \in Calls : Kept(c) /\ Closed(c) /\ Gated(c)

\* At the start there is no call.
LEMMA InitPi == Init => PiInv
<1> SUFFICES ASSUME Init PROVE PiInv
  OBVIOUS
<1>1. /\ manifest = 1 /\ engine = None /\ restarts = 0 /\ raced = FALSE /\ reloaded = 0
      /\ overlapped = {} /\ changelog = {}
      /\ call = [c \in Calls |-> NewCall]
      /\ \A c \in Calls : call[c] = NewCall
  BY DEF Init
<1>2. NewCall \in CallRecords /\ NewCall.pc = "waiting" /\ NewCall.skill = None /\ NewCall.since = 0
  BY DEF NewCall, CallRecords, Early
<1>3. 1 \in 1..Len(Manifests)
  <2>1. Manifests \in Seq([Skills -> Statuses]) /\ Manifests # <<>>
    BY PiAssumption
  <2> QED BY <2>1
<1>4. Types
  <2>1. /\ loaded \in [Calls -> Nat] /\ call \in [Calls -> CallRecords]
        /\ sessions \in [Calls -> [Sids -> Calls \cup {None}]]
        /\ entries \in [Calls -> SUBSET Calls]
        /\ file \in [Sids -> SUBSET Calls] /\ summary \in [Sids -> SUBSET Calls]
    BY <1>2 DEF Init
  <2>2. manifest \in 1..Len(Manifests) /\ reloaded \in 0..manifest /\ restarts \in Nat
    BY <1>1, <1>3
  <2> QED BY <1>1, <2>1, <2>2 DEF Types
<1>5. Ways /\ Engines /\ Overlaps
  BY <1>1, <1>2
     DEF Ways, Engines, Overlaps, UnderWay, At, Holding, Asking, Shutting, Sessioned
<1>6. ASSUME NEW c \in Calls PROVE Kept(c) /\ Closed(c) /\ Gated(c)
  <2>1. call[c].pc = "waiting" /\ \A d \in Calls : ~Answered(d)
    BY <1>1, <1>2 DEF Answered, At
  <2>2. call[c].skill \notin Mutating
    BY <1>1, <1>2, PiAssumption
  <2> QED BY <2>1, <2>2 DEF Kept, OnItsWay, At, Closed, Gated
<1> QED BY <1>4, <1>5, <1>6 DEF PiInv

-----------------------------------------------------------------------------
(* What a step of a call does to the others *)

\* The record the call has after the step.
Proper(c, new) ==
  /\ new.pc # "waiting"
  /\ new.pc \in Asking => Kind[c] = "ask"
  /\ new.pc \in Shutting => Kind[c] = "close"
  /\ new.pc \in {"reload", "reloading"} => Kind[c] = "reload"
  /\ new.pc = "reloading" => new.version = manifest
  /\ new.pc \in Holding => /\ new.engine \in Calls /\ engine' # None
                           /\ ~raced' => new.engine = engine'
  /\ new.pc \in Sessioned => new.session \in Calls
  /\ new.pc = "finding" => engine' # None
  /\ new.pc = "made" => call[c].pc = "making" /\ loaded'[c] = manifest
  /\ new.skill # None => new.pc = "running"
  /\ new.since <= reloaded'
  /\ new.pc \in Early \cup {"close"} => call[c].pc \in Early
  /\ Kind[c] = "ask" /\ new.pc = "answered" => call[c].pc = "writing"
  /\ call[c].pc \notin Over
  /\ call[c].pc = "close" => new.pc \in {"summing", "answered"}

Touches(c, new) ==
  /\ call' = [call EXCEPT ![c] = new]
  /\ Proper(c, new)
  /\ UNCHANGED <<manifest, restarts>>
  /\ raced => raced'
  /\ engine' = engine \/ (At(c, "made") /\ engine' = c /\ (~raced' => engine = None))
  /\ overlapped \subseteq overlapped'
  /\ At(c, "waiting") => \A d \in Calls : UnderWay(d) /\ Sid[d] = Sid[c] => Sid[c] \in overlapped'
  /\ \A e \in Calls, s \in Sids :
       sessions'[e][s] = sessions[e][s] \/ (s = Sid[c] /\ call[c].pc \in {"opening", "close"})
  /\ \A o \in Calls : entries[o] \subseteq entries'[o]
  /\ \A s \in Sids : \/ file'[s] = file[s]
                     \/ s = Sid[c] /\ At(c, "writing") /\ file'[s] = call[c].held
  /\ \A s \in Sids : summary'[s] = summary[s] \/ (s = Sid[c] /\ At(c, "summing"))
  /\ \/ UNCHANGED <<loaded, reloaded>>
     \/ At(c, "making") /\ loaded' = [loaded EXCEPT ![c] = manifest] /\ UNCHANGED reloaded
     \/ /\ At(c, "reloading")
        /\ loaded' = [loaded EXCEPT ![call[c].engine] = call[c].version]
        /\ reloaded' = IF \E d \in Calls \ {c} : At(d, "reloading")
                       THEN reloaded ELSE call[c].version

\* What holds of a session after the step held before.
LEMMA OpenBefore ==
  ASSUME PiInv, NEW c \in Calls, NEW new \in CallRecords, Touches(c, new)
  PROVE  /\ \A d \in Calls : call'[d] = IF d = c THEN new ELSE call[d]
         /\ \A s \in Sids : Steady(s)' => Steady(s)
         /\ \A s \in Sids : Open(s)' => Open(s)
         /\ \A d \in Calls : OnlyClosure(d)' => OnlyClosure(d)
         /\ \A d \in Calls : Answered(d)' => Answered(d) \/ (d = c /\ At(c, "writing"))
<1>1. \A d \in Calls : call'[d] = IF d = c THEN new ELSE call[d]
  BY DEF Touches, PiInv, Types
<1>2. \A s : Steady(s)' => Steady(s)
  BY DEF Steady, Touches
<1>3. \A s \in Sids : Open(s)' => Open(s)
  BY <1>1, <1>2 DEF Open, Touches, Proper
<1>4. \A d \in Calls : OnlyClosure(d)' => OnlyClosure(d)
  <2> SUFFICES ASSUME NEW d \in Calls, OnlyClosure(d)' PROVE OnlyClosure(d)
    OBVIOUS
  <2>1. Steady(Sid[d])
    BY DEF OnlyClosure, Steady, Touches
  <2> QED BY <1>1, <2>1 DEF OnlyClosure, At, Touches, Proper
<1>5. \A d \in Calls : Answered(d)' => Answered(d) \/ (d = c /\ At(c, "writing"))
  BY <1>1 DEF Answered, At, Touches, Proper
<1> QED BY <1>1, <1>2, <1>3, <1>4, <1>5

\* Two calls of one steady session are not under way at once.
LEMMA OneAtATime ==
  ASSUME PiInv, NEW c \in Calls, NEW d \in Calls, c # d, Steady(Sid[d]),
         call[c].pc \in Holding, call[d].pc \in Holding
  PROVE  Sid[c] # Sid[d]
<1>1. UnderWay(c) /\ UnderWay(d)
  BY DEF UnderWay, Holding, Asking, Shutting
<1> QED BY <1>1 DEF PiInv, Overlaps, Steady

\* The other calls lose nothing by the step.
LEMMA OthersKept ==
  ASSUME PiInv, NEW c \in Calls, NEW new \in CallRecords, Touches(c, new),
         NEW d \in Calls, d # c
  PROVE  Kept(d)' /\ Closed(d)' /\ Gated(d)'
<1>0. Sid[d] \in Sids /\ Sid[c] \in Sids
  BY DEF Sids
<1>1. /\ call'[d] = call[d] /\ Types
      /\ Kept(c) /\ Kept(d) /\ Closed(d) /\ Gated(d) /\ Ways /\ Engines
  BY OpenBefore DEF PiInv
<1>2. call[d].session \in Calls \cup {None}
  BY <1>1 DEF Types, CallRecords
<1>3. Kept(d)'
  <2> SUFFICES ASSUME Open(Sid[d])' PROVE (Answered(d)' => Lasts(d)') /\ OnItsWay(d)'
    BY DEF Kept
  <2>1. Open(Sid[d]) /\ Steady(Sid[d])
    BY <1>0, OpenBefore DEF Open
  <2>2. (Answered(d) => Lasts(d)) /\ OnItsWay(d)
    BY <1>1, <2>1 DEF Kept
  <2>3. Sid[c] = Sid[d] => OnItsWay(c)
    BY <1>1, <2>1 DEF Kept
  <2>4. ~raced' /\ ~raced
    BY DEF Open, Steady, Touches
  <2>5. ~(Sid[c] = Sid[d] /\ At(c, "close"))
    <3> SUFFICES ASSUME Sid[c] = Sid[d], At(c, "close") PROVE FALSE
      OBVIOUS
    <3>1. Kind[c] = "close" /\ call'[c].pc \in {"summing", "answered"}
      <4>1. call'[c] = new /\ call[c].pc = "close"
        BY OpenBefore DEF At
      <4>2. Kind[c] = "close"
        BY <1>1, <4>1 DEF Ways, Shutting
      <4> QED BY <4>1, <4>2 DEF Touches, Proper
    <3> QED BY <3>1 DEF Open, Early
  <2>6. ASSUME Answered(d)' PROVE Lasts(d)'
    <3>1. Answered(d) /\ Lasts(d)
      BY <1>1, <2>2, <2>6 DEF Answered, At
    <3>2. engine' = engine /\ engine \in Calls
      BY <1>1, <2>4, <3>1 DEF Lasts, Touches, Types
    <3>3. sessions'[engine][Sid[d]] = sessions[engine][Sid[d]]
      BY <1>0, <2>3, <2>5, <3>1, <3>2 DEF Touches, OnItsWay, At, Lasts
    <3>4. sessions[engine][Sid[d]] \in Calls
      BY <1>0, <1>1, <3>1, <3>2 DEF Lasts, Types
    <3>5. d \in file'[Sid[d]]
      <4>1. CASE file'[Sid[d]] = file[Sid[d]]
        BY <3>1, <4>1 DEF Lasts
      <4>2. CASE Sid[d] = Sid[c] /\ At(c, "writing") /\ file'[Sid[d]] = call[c].held
        BY <2>3, <3>1, <4>2 DEF OnItsWay
      <4> QED BY <1>0, <4>1, <4>2 DEF Touches
    <3> QED BY <3>1, <3>2, <3>3, <3>4, <3>5 DEF Lasts, Touches
  <2>7. ASSUME call[d].pc \in Asking PROVE OnItsWay(d)'
    <3>1. call[d].pc \in Holding /\ engine # None /\ engine \in Calls
      BY <1>1, <2>7 DEF Holding, Engines, Types
    <3>2. engine' = engine
      BY <2>4, <3>1 DEF Touches
    <3>3. call[c].pc \in Holding => Sid[c] # Sid[d]
      BY <2>1, <3>1, OneAtATime
    <3>4. sessions'[engine][Sid[d]] = sessions[engine][Sid[d]]
      BY <1>0, <3>1, <3>3 DEF Touches, Holding, Asking, Shutting
    <3>5. \A e \in Calls : Answered(e)' /\ Sid[e] = Sid[d] => Answered(e)
      BY <3>3, OpenBefore DEF At, Holding, Asking
    <3>6. call[d].pc \in {"dumping", "writing"} => d \in entries'[call[d].session]
      BY <1>1, <2>2 DEF OnItsWay, Touches, Ways, Sessioned
    <3> QED BY <1>1, <2>2, <3>2, <3>4, <3>5, <3>6 DEF OnItsWay, At
  <2>8. ASSUME call[d].pc \notin Asking PROVE OnItsWay(d)'
    <3>1. call'[d].pc \notin Asking
      BY <1>1, <2>8
    <3> QED BY <3>1 DEF OnItsWay, At, Asking
  <2> QED BY <2>6, <2>7, <2>8
<1>4. Closed(d)'
  <2> SUFFICES ASSUME OnlyClosure(d)', NEW e \in Calls, Answered(e)', Sid[e] = Sid[d]
               PROVE  /\ At(d, "summing")' => e \in entries'[call[d].session]
                      /\ At(d, "noting")' => e \in summary'[Sid[d]]
    BY <1>1 DEF Closed
  <2>1. OnlyClosure(d) /\ Steady(Sid[d])
    BY OpenBefore DEF OnlyClosure
  <2>2. CASE call[d].pc \in {"summing", "noting"}
    <3>1. call[c].pc \in Holding => Sid[c] # Sid[d]
      BY <2>1, <2>2, OneAtATime DEF Holding, Shutting
    <3>2. Answered(e)
      BY <3>1, OpenBefore DEF At, Holding, Asking
    <3>3. /\ At(d, "summing") => e \in entries[call[d].session]
          /\ At(d, "noting") => e \in summary[Sid[d]]
      BY <1>1, <2>1, <3>2 DEF Closed
    <3>4. summary'[Sid[d]] = summary[Sid[d]]
      BY <1>0, <3>1 DEF Touches, At, Holding, Shutting
    <3>5. At(d, "summing") => call[d].session \in Calls
      BY <1>1 DEF Ways, At, Sessioned
    <3> QED BY <1>1, <3>3, <3>4, <3>5 DEF At, Touches
  <2>3. CASE call[d].pc \notin {"summing", "noting"}
    BY <1>1, <2>3 DEF At
  <2> QED BY <2>2, <2>3
<1>5. Gated(d)'
  BY <1>1 DEF Gated, Touches
<1> QED BY <1>3, <1>4, <1>5

\* So what a step must be shown to do is about its own call.
LEMMA StepKeeps ==
  ASSUME PiInv, NEW c \in Calls, NEW new \in CallRecords, Touches(c, new),
         Types', Kept(c)', Closed(c)', Gated(c)'
  PROVE  PiInv'
<1>1. \A d \in Calls : call'[d] = IF d = c THEN new ELSE call[d]
  BY OpenBefore
<1>2. Types /\ Ways /\ Engines /\ Overlaps
  BY DEF PiInv
<1>3. reloaded \in Int /\ reloaded' \in Int /\ manifest \in Int /\ manifest' = manifest
  BY <1>2 DEF Types, Touches
<1>4. reloaded <= reloaded'
  BY <1>2, <1>3 DEF Touches, Types, Engines
<1>5. Ways'
  <2>1. ASSUME NEW d \in Calls
        PROVE  /\ call'[d].pc \in Asking => Kind[d] = "ask"
               /\ call'[d].pc \in Shutting => Kind[d] = "close"
               /\ call'[d].pc \in {"reload", "reloading"} => Kind[d] = "reload"
               /\ call'[d].pc \in Holding => call'[d].engine \in Calls
               /\ call'[d].pc \in Sessioned => call'[d].session \in Calls
               /\ call'[d].skill # None => call'[d].pc = "running"
               /\ call'[d].since <= reloaded'
    <3>1. CASE d = c
      BY <1>1, <3>1 DEF Touches, Proper
    <3>2. CASE d # c
      <4>1. call'[d] = call[d] /\ call[d].since \in Nat /\ call[d].since <= reloaded
        BY <1>1, <1>2, <3>2 DEF Ways, Types, CallRecords
      <4>2. call[d].since <= reloaded'
        BY <1>3, <1>4, <4>1
      <4> QED BY <1>2, <4>1, <4>2 DEF Ways, At
    <3> QED BY <3>1, <3>2
  <2> QED BY <2>1 DEF Ways, At
<1>6. Overlaps'
  <2> SUFFICES ASSUME NEW d \in Calls, NEW e \in Calls, d # e, UnderWay(d)', UnderWay(e)',
                      Sid[d] = Sid[e]
               PROVE  Sid[d] \in overlapped'
    BY DEF Overlaps
  <2>1. \A b \in Calls : UnderWay(b)' => UnderWay(b) \/ (b = c /\ At(c, "waiting"))
    BY <1>1 DEF UnderWay, At, Touches, Proper, Over
  <2> QED BY <1>2, <2>1 DEF Overlaps, Touches
<1>7. Engines'
  <2>1. \A d \in Calls : call'[d].pc \in Holding \cup {"finding"} => engine' # None
    <3>1. engine # None => engine' # None
      BY PiAssumption DEF Touches
    <3> QED BY <1>1, <1>2, <3>1 DEF Engines, Touches, Proper
  <2>2. ~raced' => \A d \in Calls : call'[d].pc \in Holding => call'[d].engine = engine'
    BY <1>1, <1>2 DEF Engines, Touches, Proper
  <2>3. \A e \in Calls : \/ loaded'[e] = loaded[e] \/ loaded'[e] = manifest
                         \/ loaded'[e] = call[c].version /\ At(c, "reloading")
    <3>1. \/ loaded' = loaded
          \/ loaded' = [loaded EXCEPT ![c] = manifest]
          \/ At(c, "reloading") /\ loaded' = [loaded EXCEPT ![call[c].engine] = call[c].version]
      BY DEF Touches
    <3>2. loaded \in [Calls -> Nat]
      BY <1>2 DEF Types
    <3> QED BY <3>1, <3>2
  <2>4. /\ manifest \in 1..manifest /\ reloaded' <= manifest
        /\ At(c, "reloading") => call[c].version \in 1..manifest
    BY <1>2, <1>3 DEF Types, Touches, Engines
  <2>5. engine' # None => loaded'[engine'] \in 1..manifest'
    <3>1. CASE engine' = engine
      BY <1>2, <1>3, <2>3, <2>4, <3>1 DEF Engines, Types
    <3>2. CASE At(c, "made") /\ engine' = c
      BY <1>2, <1>3, <2>3, <2>4, <3>2 DEF Engines
    <3> QED BY <3>1, <3>2 DEF Touches
  <2>6. \A d \in Calls : At(d, "made")' => loaded'[d] \in 1..manifest'
    <3> SUFFICES ASSUME NEW d \in Calls, At(d, "made")' PROVE loaded'[d] \in 1..manifest'
      OBVIOUS
    <3>1. CASE d = c
      <4>1. loaded'[c] = manifest
        BY <1>1, <3>1 DEF At, Touches, Proper
      <4> QED BY <1>3, <2>4, <3>1, <4>1
    <3>2. CASE d # c
      BY <1>1, <1>2, <1>3, <2>3, <2>4, <3>2 DEF Engines, At
    <3> QED BY <3>1, <3>2
  <2>7. \A e \in Calls : loaded[e] \in Nat /\ loaded'[e] \in Nat
    BY <1>2, <1>3, <2>3, <2>4 DEF Types
  <2>8. ASSUME ~raced', engine' # None PROVE reloaded' <= loaded'[engine']
    <3>1. CASE engine' = engine
      <4>1. engine \in Calls /\ reloaded <= loaded[engine]
        BY <1>2, <2>8, <3>1 DEF Types, Engines, Touches
      <4>2. CASE At(c, "reloading")
        <5>1. call[c].engine = engine
          BY <1>2, <2>8, <4>2 DEF Engines, Touches, At, Holding
        <5>2. CASE UNCHANGED <<loaded, reloaded>>
          BY <3>1, <4>1, <5>2
        <5>3. CASE /\ loaded' = [loaded EXCEPT ![call[c].engine] = call[c].version]
                   /\ reloaded' \in {reloaded, call[c].version}
          <6>1. loaded'[engine] = call[c].version
            BY <1>2, <4>1, <5>1, <5>3 DEF Types
          <6>2. call[c].version \in Int /\ reloaded <= call[c].version
            BY <1>2, <2>4, <4>2 DEF Engines
          <6> QED BY <3>1, <5>3, <6>1, <6>2
        <5> QED BY <4>2, <5>2, <5>3 DEF Touches, At
      <4>3. CASE ~At(c, "reloading")
        <5>1. reloaded' = reloaded
          BY <4>3 DEF Touches
        <5>2. loaded'[engine] = loaded[engine] \/ loaded'[engine] = manifest
          BY <2>3, <4>1, <4>3
        <5> QED BY <1>3, <2>4, <3>1, <4>1, <5>1, <5>2
      <4> QED BY <4>2, <4>3
    <3>2. CASE At(c, "made") /\ engine' = c /\ engine = None
      <4>1. UNCHANGED <<loaded, reloaded>>
        BY <3>2 DEF Touches, At
      <4>2. reloaded <= loaded[c]
        BY <1>2, <2>8, <3>2 DEF Engines, Touches
      <4> QED BY <3>2, <4>1, <4>2
    <3> QED BY <2>8, <3>1, <3>2 DEF Touches
  <2>9. ASSUME ~raced', engine' = None, NEW d \in Calls, At(d, "made")'
        PROVE  reloaded' <= loaded'[d]
    <3>1. engine = None /\ ~raced
      BY <2>9, PiAssumption DEF Touches
    <3>2. CASE d = c
      <4>1. loaded'[c] = manifest
        BY <1>1, <2>9, <3>2 DEF At, Touches, Proper
      <4> QED BY <2>4, <3>2, <4>1
    <3>3. CASE d # c
      <4>1. reloaded <= loaded[d]
        BY <1>1, <1>2, <2>9, <3>1, <3>3 DEF Engines, At
      <4>2. reloaded' = reloaded
        BY <1>2, <3>1 DEF Engines, Touches, At, Holding
      <4>3. loaded'[d] = loaded[d] \/ loaded'[d] = manifest
        BY <1>2, <2>3, <3>1 DEF Engines, At, Holding
      <4> QED BY <2>4, <4>1, <4>2, <4>3
    <3> QED BY <3>2, <3>3
  <2>10. ASSUME NEW d \in Calls, At(d, "reloading")'
         PROVE  call'[d].version \in 1..manifest' /\ reloaded' <= call'[d].version
    <3>1. CASE d = c
      <4>1. call'[d].version = manifest
        BY <1>1, <2>10, <3>1 DEF At, Touches, Proper
      <4> QED BY <1>3, <2>4, <4>1
    <3>2. CASE d # c
      <4>1. call'[d] = call[d] /\ At(d, "reloading")
        BY <1>1, <2>10, <3>2 DEF At
      <4>2. reloaded' = reloaded
        BY <3>2, <4>1 DEF Touches
      <4> QED BY <1>2, <1>3, <4>1, <4>2 DEF Engines
    <3> QED BY <3>1, <3>2
  <2> QED BY <2>1, <2>2, <2>5, <2>6, <2>8, <2>9, <2>10 DEF Engines
<1> QED
  BY <1>2, <1>5, <1>6, <1>7, OthersKept DEF PiInv

-----------------------------------------------------------------------------
(* The steps of a call *)

\* A call that is neither at work on a session nor answers a request.
LEMMA Idle ==
  ASSUME PiInv, NEW c \in Calls, NEW new \in CallRecords, Touches(c, new),
         new.pc \notin {"opening", "noting"} \cup Sessioned,
         new.skill = None, new.pc = "answered" => Kind[c] # "ask"
  PROVE  Kept(c)' /\ Closed(c)' /\ Gated(c)'
<1>1. call'[c] = new
  BY OpenBefore
<1>2. new.skill \notin Mutating
  BY PiAssumption
<1> QED
  BY <1>1, <1>2 DEF Kept, Answered, OnItsWay, Closed, Gated, At, Sessioned

\* A step that changes the call's record only.
LEMMA RecordOnly ==
  ASSUME PiInv, NEW c \in Calls, NEW new \in CallRecords, ~At(c, "waiting"),
         call' = [call EXCEPT ![c] = new], UNCHANGED <<diskVars, engineVars, history>>,
         Proper(c, new)
  PROVE  Touches(c, new) /\ Types' /\ call'[c] = new
<1>1. UNCHANGED <<manifest, file, summary, changelog, engine, loaded, sessions, entries,
                  restarts, raced, reloaded, overlapped>>
  BY DEF diskVars, engineVars, history
<1>2. Touches(c, new)
  BY <1>1 DEF Touches
<1>3. Types' /\ call'[c] = new
  BY <1>1 DEF PiInv, Types
<1> QED BY <1>2, <1>3

\* What is known of a call before its step.
LEMMA Before1 ==
  ASSUME PiInv, NEW c \in Calls
  PROVE  /\ call[c] \in CallRecords /\ Sid[c] \in Sids
         /\ call[c].pc # "running" => call[c].skill = None
         /\ call[c].since <= reloaded /\ reloaded \in Nat /\ call[c].since \in Nat
         /\ call[c].pc \in Holding => /\ call[c].engine \in Calls /\ engine # None
                                      /\ ~raced => call[c].engine = engine
         /\ call[c].pc \in Sessioned => call[c].session \in Calls
<1>1. call[c] \in CallRecords
  BY DEF PiInv, Types
<1>2. call[c].since \in Nat /\ reloaded \in Nat
  BY <1>1 DEF CallRecords, PiInv, Types
<1> QED BY <1>1, <1>2 DEF PiInv, Ways, Engines, Sids

LEMMA BeginKeeps == ASSUME PiInv, NEW c \in Calls, Begin(c) PROVE PiInv'
<1> DEFINE new == [call[c] EXCEPT !.pc = IF engine = None THEN "making" ELSE "finding",
                                  !.since = IF Kind[c] = "ask" THEN reloaded ELSE 0]
<1>1. call' = [call EXCEPT ![c] = new] /\ At(c, "waiting")
  BY DEF Begin, Goto
<1>2. /\ UNCHANGED <<manifest, file, summary, changelog, engine, loaded, sessions, entries,
                     restarts, raced, reloaded>>
      /\ overlapped' = IF \E d \in Calls : UnderWay(d) /\ Sid[d] = Sid[c]
                       THEN overlapped \cup {Sid[c]} ELSE overlapped
  BY DEF Begin, diskVars, engineVars
<1>3. /\ new \in CallRecords /\ new.pc = IF engine = None THEN "making" ELSE "finding"
      /\ new.skill = None /\ new.since <= reloaded
  <2>1. (IF Kind[c] = "ask" THEN reloaded ELSE 0) \in Nat
        /\ (IF Kind[c] = "ask" THEN reloaded ELSE 0) <= reloaded
    BY Before1
  <2>2. PICK since \in Nat, pc \in {"making", "finding"} :
          /\ since = IF Kind[c] = "ask" THEN reloaded ELSE 0
          /\ pc = IF engine = None THEN "making" ELSE "finding"
    BY <2>1
  <2>3. call[c] \in CallRecords /\ call[c].skill = None
    BY <1>1, Before1 DEF At
  <2>4. new = [call[c] EXCEPT !.pc = pc, !.since = since]
    BY <2>2
  <2>5. new \in CallRecords /\ new.pc = pc /\ new.since = since /\ new.skill = None
    BY <2>3, <2>4 DEF CallRecords, Early
  <2> HIDE DEF new
  <2> QED BY <2>1, <2>2, <2>5
<1> HIDE DEF new
<1>4. Proper(c, new)
  BY <1>1, <1>2, <1>3, PiAssumption
     DEF Proper, Asking, Shutting, Holding, Sessioned, Early, Over, At
<1>5. Touches(c, new)
  BY <1>1, <1>2, <1>4 DEF Touches
<1>6. Types'
  BY <1>1, <1>2, <1>3, Before1 DEF PiInv, Types
<1>7. Kept(c)' /\ Closed(c)' /\ Gated(c)'
  BY <1>3, <1>5, Idle DEF Sessioned
<1> QED BY <1>3, <1>5, <1>6, <1>7, StepKeeps

LEMMA MakeEngineKeeps == ASSUME PiInv, NEW c \in Calls, MakeEngine(c) PROVE PiInv'
<1> DEFINE new == [call[c] EXCEPT !.pc = "made"]
<1>1. /\ call' = [call EXCEPT ![c] = new] /\ At(c, "making")
      /\ loaded' = [loaded EXCEPT ![c] = manifest]
  BY DEF MakeEngine, Goto
<1>2. UNCHANGED <<manifest, file, summary, changelog, engine, sessions, entries,
                  restarts, raced, reloaded, overlapped>>
  BY DEF MakeEngine, diskVars, history
<1>3. /\ new \in CallRecords /\ new.pc = "made" /\ new.skill = None /\ new.since = call[c].since
  BY <1>1, Before1 DEF CallRecords, Early, At
<1> HIDE DEF new
<1>4. loaded'[c] = manifest /\ loaded' \in [Calls -> Nat]
  BY <1>1 DEF PiInv, Types
<1>5. Proper(c, new)
  BY <1>1, <1>2, <1>3, <1>4, Before1
     DEF Proper, Asking, Shutting, Holding, Sessioned, Early, Over, At
<1>6. Touches(c, new)
  BY <1>1, <1>2, <1>5 DEF Touches, At
<1>7. Types'
  BY <1>1, <1>2, <1>3, <1>4 DEF PiInv, Types
<1>8. Kept(c)' /\ Closed(c)' /\ Gated(c)'
  BY <1>3, <1>6, Idle DEF Sessioned
<1> QED BY <1>3, <1>6, <1>7, <1>8, StepKeeps

LEMMA PublishEngineKeeps == ASSUME PiInv, NEW c \in Calls, PublishEngine(c) PROVE PiInv'
<1> DEFINE new == [call[c] EXCEPT !.pc = "finding"]
<1>1. /\ call' = [call EXCEPT ![c] = new] /\ At(c, "made")
      /\ engine' = c /\ raced' = (raced \/ engine # None)
  BY DEF PublishEngine, Goto
<1>2. UNCHANGED <<manifest, file, summary, changelog, loaded, sessions, entries,
                  restarts, reloaded, overlapped>>
  BY DEF PublishEngine, diskVars
<1>3. /\ new \in CallRecords /\ new.pc = "finding" /\ new.skill = None
      /\ new.since = call[c].since
  BY <1>1, Before1 DEF CallRecords, Early, At
<1> HIDE DEF new
<1>4. Proper(c, new)
  BY <1>1, <1>2, <1>3, Before1, PiAssumption
     DEF Proper, Asking, Shutting, Holding, Sessioned, Early, Over, At
<1>5. Touches(c, new)
  BY <1>1, <1>2, <1>4 DEF Touches, At
<1>6. Types'
  BY <1>1, <1>2, <1>3 DEF PiInv, Types
<1>7. Kept(c)' /\ Closed(c)' /\ Gated(c)'
  BY <1>3, <1>5, Idle DEF Sessioned
<1> QED BY <1>3, <1>5, <1>6, <1>7, StepKeeps

LEMMA TakeEngineKeeps == ASSUME PiInv, NEW c \in Calls, TakeEngine(c) PROVE PiInv'
<1> DEFINE new == [call[c] EXCEPT !.pc = Kind[c], !.engine = engine]
<1>1. /\ call' = [call EXCEPT ![c] = new] /\ At(c, "finding")
      /\ UNCHANGED <<diskVars, engineVars, history>>
  BY DEF TakeEngine, Goto
<1>2. Kind[c] \in {"ask", "close", "reload"} /\ engine \in Calls /\ engine # None
  BY <1>1, PiAssumption DEF At, PiInv, Types, Engines
<1>3. /\ new \in CallRecords /\ new.pc = Kind[c] /\ new.skill = None
      /\ new.since = call[c].since /\ new.engine = engine
  <2>1. call[c] \in CallRecords /\ call[c].skill = None
    BY <1>1, Before1 DEF At
  <2>2. PICK kind \in {"ask", "close", "reload"} : kind = Kind[c]
    BY <1>2
  <2> QED BY <1>2, <2>1, <2>2 DEF CallRecords, Holding, Asking, Shutting
<1> HIDE DEF new
<1>4. engine' = engine /\ reloaded' = reloaded
  BY <1>1 DEF engineVars, history
<1>5. Proper(c, new)
  BY <1>1, <1>2, <1>3, <1>4, Before1
     DEF Proper, Asking, Shutting, Holding, Sessioned, Early, Over, At
<1>6. Touches(c, new) /\ Types' /\ call'[c] = new
  BY <1>1, <1>3, <1>5, RecordOnly DEF At
<1>7. Kept(c)' /\ Closed(c)' /\ Gated(c)'
  BY <1>2, <1>3, <1>6, Idle DEF Sessioned
<1> QED BY <1>3, <1>6, <1>7, StepKeeps

\* A call that goes on with its request.
LEMMA Onward ==
  ASSUME PiInv, NEW c \in Calls, NEW new \in CallRecords, Touches(c, new),
         new.pc \in {"opening", "matching", "running", "logging", "dumping", "writing"},
         Open(Sid[c])' => OnItsWay(c)',
         new.skill = None \/ Gated(c)'
  PROVE  Kept(c)' /\ Closed(c)' /\ Gated(c)'
<1>1. call'[c] = new
  BY OpenBefore
<1>2. new.skill = None => Gated(c)'
  BY <1>1, PiAssumption DEF Gated
<1> QED BY <1>1, <1>2 DEF Kept, Answered, Closed, At

\* The session a call on its way holds, when it is not disturbed.
LEMMA HeldSession ==
  ASSUME PiInv, NEW c \in Calls, NEW new \in CallRecords, Touches(c, new), Open(Sid[c])'
  PROVE  /\ Open(Sid[c]) /\ OnItsWay(c) /\ (Answered(c) => Lasts(c))
         /\ call[c].pc \in Holding => call[c].engine = engine /\ engine \in Calls /\ engine' = engine
<1>1. Open(Sid[c])
  BY OpenBefore DEF Sids
<1>2. OnItsWay(c) /\ (Answered(c) => Lasts(c))
  BY <1>1 DEF PiInv, Kept
<1>3. call[c].pc \in Holding => call[c].engine = engine /\ engine \in Calls
  BY <1>1, Before1 DEF Open, Steady
<1>4. call[c].pc \in Holding => engine' = engine
  BY DEF Touches, At, Holding, Asking, Shutting
<1> QED BY <1>1, <1>2, <1>3, <1>4

LEMMA LookUpKeeps == ASSUME PiInv, NEW c \in Calls, LookUpSession(c) PROVE PiInv'
<1>1. PICK pc \in {"opening", "fetching"} :
        /\ pc = "opening" => sessions[call[c].engine][Sid[c]] = None
        /\ call' = [call EXCEPT ![c] = [@ EXCEPT !.pc = pc]]
        /\ At(c, "ask") /\ UNCHANGED <<diskVars, engineVars, history>>
  BY DEF LookUpSession, Goto
<1>2. PICK new : new = [call[c] EXCEPT !.pc = pc]
  OBVIOUS
<1>3. /\ new \in CallRecords /\ new.pc = pc /\ new.skill = None
      /\ new.since = call[c].since /\ new.engine = call[c].engine
  BY <1>1, <1>2, Before1 DEF CallRecords, Holding, Asking, At
<1>4. Kind[c] = "ask" /\ engine' = engine /\ reloaded' = reloaded /\ raced' = raced /\ sessions' = sessions
  BY <1>1 DEF engineVars, history, PiInv, Ways, Asking, At
<1>5. Proper(c, new)
  BY <1>1, <1>3, <1>4, Before1
     DEF Proper, Asking, Shutting, Holding, Sessioned, Early, Over, At
<1>6. Touches(c, new) /\ Types' /\ call'[c] = new
  BY <1>1, <1>2, <1>3, <1>5, RecordOnly DEF At
<1>7. CASE pc = "fetching"
  <2>1. Kept(c)' /\ Closed(c)' /\ Gated(c)'
    BY <1>3, <1>6, <1>7, Idle DEF Sessioned
  <2> QED BY <1>3, <1>6, <2>1, StepKeeps
<1>8. CASE pc = "opening"
  <2>1. Open(Sid[c])' => OnItsWay(c)'
    <3> SUFFICES ASSUME Open(Sid[c])' PROVE OnItsWay(c)'
      OBVIOUS
    <3>1. call[c].engine = engine
      BY <1>1, <1>3, <1>6, HeldSession DEF At, Holding, Asking
    <3> QED BY <1>1, <1>3, <1>4, <1>6, <1>8, <3>1 DEF OnItsWay, At
  <2>2. Kept(c)' /\ Closed(c)' /\ Gated(c)'
    BY <1>3, <1>6, <1>8, <2>1, Onward
  <2> QED BY <1>3, <1>6, <2>2, StepKeeps
<1> QED BY <1>7, <1>8

LEMMA FetchKeeps == ASSUME PiInv, NEW c \in Calls, FetchSession(c) PROVE PiInv'
<1>1. PICK o : o = sessions[call[c].engine][Sid[c]]
  OBVIOUS
<1>2. PICK new : new = [call[c] EXCEPT !.pc = "matching", !.session = o]
  OBVIOUS
<1>3. /\ call' = [call EXCEPT ![c] = new] /\ o # None
      /\ At(c, "fetching") /\ UNCHANGED <<diskVars, engineVars, history>>
  BY <1>1, <1>2 DEF FetchSession, Goto
<1>4. o \in Calls
  BY <1>1, <1>3, Before1 DEF PiInv, Types, At, Holding, Asking
<1>5. /\ new \in CallRecords /\ new.pc = "matching" /\ new.skill = None /\ new.session = o
      /\ new.since = call[c].since /\ new.engine = call[c].engine
  <2>1. call[c] \in CallRecords /\ call[c].skill = None
    BY <1>3, Before1 DEF At
  <2> QED BY <1>2, <1>4, <2>1 DEF CallRecords, Holding, Asking
<1>6. /\ Kind[c] = "ask" /\ engine' = engine /\ reloaded' = reloaded /\ raced' = raced
      /\ sessions' = sessions
  BY <1>3 DEF engineVars, history, PiInv, Ways, Asking, At
<1>7. Proper(c, new)
  BY <1>3, <1>4, <1>5, <1>6, Before1
     DEF Proper, Asking, Shutting, Holding, Sessioned, Early, Over, At
<1>8. Touches(c, new) /\ Types' /\ call'[c] = new
  BY <1>3, <1>5, <1>7, RecordOnly DEF At
<1>9. Open(Sid[c])' => OnItsWay(c)'
  <2> SUFFICES ASSUME Open(Sid[c])' PROVE OnItsWay(c)'
    OBVIOUS
  <2>1. call[c].engine = engine
    BY <1>3, <1>5, <1>8, HeldSession DEF At, Holding, Asking
  <2> QED BY <1>1, <1>5, <1>6, <1>8, <2>1 DEF OnItsWay, At
<1>10. Kept(c)' /\ Closed(c)' /\ Gated(c)'
  BY <1>5, <1>8, <1>9, Onward
<1> QED BY <1>5, <1>8, <1>10, StepKeeps

LEMMA FetchRaisesKeeps == ASSUME PiInv, NEW c \in Calls, FetchSessionRaises(c) PROVE PiInv'
<1>1. PICK new : new = [NewCall EXCEPT !.pc = "failed"]
  OBVIOUS
<1>2. /\ call' = [call EXCEPT ![c] = new]
      /\ At(c, "fetching") /\ UNCHANGED <<diskVars, engineVars, history>>
  BY <1>1 DEF FetchSessionRaises, Goto
<1>3. new \in CallRecords /\ new.pc = "failed" /\ new.skill = None /\ new.since = 0
  BY <1>1 DEF NewCall, CallRecords, Over
<1>4. reloaded' = reloaded /\ reloaded \in Nat
  BY <1>2, Before1 DEF history
<1>5. Proper(c, new)
  BY <1>2, <1>3, <1>4
     DEF Proper, Asking, Shutting, Holding, Sessioned, Early, Over, At
<1>6. Touches(c, new) /\ Types'
  BY <1>2, <1>3, <1>5, RecordOnly DEF At
<1>7. Kept(c)' /\ Closed(c)' /\ Gated(c)'
  BY <1>3, <1>6, Idle DEF Sessioned
<1> QED BY <1>3, <1>6, <1>7, StepKeeps

LEMMA OpenKeeps == ASSUME PiInv, NEW c \in Calls, OpenSession(c) PROVE PiInv'
<1>1. PICK new : new = [call[c] EXCEPT !.pc = "matching", !.session = c]
  OBVIOUS
<1>2. /\ call' = [call EXCEPT ![c] = new] /\ At(c, "opening")
      /\ sessions' = [sessions EXCEPT ![call[c].engine][Sid[c]] = c]
      /\ UNCHANGED <<manifest, file, summary, changelog, engine, loaded, entries,
                     restarts, raced, reloaded, overlapped>>
  BY <1>1 DEF OpenSession, Goto, diskVars, history
<1>3. /\ new \in CallRecords /\ new.pc = "matching" /\ new.skill = None /\ new.session = c
      /\ new.since = call[c].since /\ new.engine = call[c].engine
  <2>1. call[c] \in CallRecords /\ call[c].skill = None
    BY <1>2, Before1 DEF At
  <2> QED BY <1>1, <2>1 DEF CallRecords, Holding, Asking
<1>4. Kind[c] = "ask" /\ call[c].engine \in Calls /\ engine # None
  BY <1>2, Before1 DEF PiInv, Ways, Asking, Holding, At
<1>5. Proper(c, new)
  BY <1>2, <1>3, <1>4, Before1
     DEF Proper, Asking, Shutting, Holding, Sessioned, Early, Over, At
<1>6. /\ sessions' \in [Calls -> [Sids -> Calls \cup {None}]]
      /\ sessions'[call[c].engine][Sid[c]] = c
      /\ \A e \in Calls, s \in Sids : s # Sid[c] => sessions'[e][s] = sessions[e][s]
  BY <1>2, <1>4, Before1 DEF PiInv, Types
<1>7. Touches(c, new)
  BY <1>2, <1>5, <1>6 DEF Touches, At
<1>8. Types' /\ call'[c] = new
  BY <1>2, <1>3, <1>6 DEF PiInv, Types
<1>9. Open(Sid[c])' => OnItsWay(c)'
  <2> SUFFICES ASSUME Open(Sid[c])' PROVE OnItsWay(c)'
    OBVIOUS
  <2>1. call[c].engine = engine
    BY <1>2, <1>3, <1>7, HeldSession DEF At, Holding, Asking
  <2> QED BY <1>2, <1>3, <1>6, <1>8, <2>1 DEF OnItsWay, At
<1>10. Kept(c)' /\ Closed(c)' /\ Gated(c)'
  BY <1>3, <1>7, <1>9, Onward
<1> QED BY <1>3, <1>7, <1>8, <1>10, StepKeeps

\* What passes the gate of a mutating skill is beta or better in the engine's manifest.
LEMMA Passed ==
  ASSUME NEW c \in Calls, NEW v \in 1..Len(Manifests), NEW s \in Matched(c, Manifests[v]),
         s \in Mutating, Allowed(s, Manifests[v])
  PROVE  Manifests[v][s] \in {"beta", "production"}
<1>1. s \in Skills
  BY PiAssumption
<1>2. Manifests[v] \in [Skills -> Statuses]
  BY PiAssumption
<1>3. Manifests[v][s] \in Statuses
  BY <1>1, <1>2
<1> QED BY <1>3 DEF Matched, Allowed, Statuses

LEMMA MatchKeeps == ASSUME PiInv, NEW c \in Calls, Match(c) PROVE PiInv'
<1>1. PICK v : v = loaded[call[c].engine]
  OBVIOUS
<1>2. /\ At(c, "matching") /\ UNCHANGED <<diskVars, engineVars, history>>
      /\ \/ \E s \in Matched(c, Manifests[v]) :
              /\ Allowed(s, Manifests[v])
              /\ call' = [call EXCEPT ![c] = [@ EXCEPT !.pc = "running", !.skill = s,
                                                       !.tier = Tier(c)]]
         \/ call' = [call EXCEPT ![c] = [@ EXCEPT !.pc = "logging", !.tier = Tier(c)]]
  BY <1>1 DEF Match, Goto
<1>3. PICK tier \in {"local_free", "free", "paid"} : tier = Tier(c)
  BY DEF Tier
<1>4. \A s \in Matched(c, Manifests[v]) : s \in Skills /\ s # None
  BY PiAssumption DEF Matched
<1>5. call[c] \in CallRecords /\ call[c].skill = None
  BY <1>2, Before1 DEF At
<1>6. /\ Kind[c] = "ask" /\ UNCHANGED <<engine, reloaded, raced, sessions, manifest>>
      /\ call[c].engine \in Calls /\ engine # None /\ call[c].session \in Calls
  BY <1>2, Before1
     DEF engineVars, history, diskVars, PiInv, Ways, Asking, Holding, Sessioned, At
<1>7. ASSUME NEW new \in CallRecords, call' = [call EXCEPT ![c] = new],
             new.pc \in {"running", "logging"}, new.skill # None => new.pc = "running",
             new.since = call[c].since, new.engine = call[c].engine,
             new.session = call[c].session,
             new.skill = None \/ (new.skill \in Matched(c, Manifests[v])
                                  /\ Allowed(new.skill, Manifests[v]))
      PROVE  PiInv'
  <2>1. Proper(c, new)
    BY <1>2, <1>6, <1>7, Before1
       DEF Proper, Asking, Shutting, Holding, Sessioned, Early, Over, At
  <2>2. Touches(c, new) /\ Types' /\ call'[c] = new
    BY <1>2, <1>7, <2>1, RecordOnly DEF At
  <2>3. Open(Sid[c])' => OnItsWay(c)'
    <3> SUFFICES ASSUME Open(Sid[c])' PROVE OnItsWay(c)'
      OBVIOUS
    <3>1. OnItsWay(c)
      BY <1>7, <2>2, HeldSession
    <3> QED BY <1>2, <1>6, <1>7, <2>2, <3>1 DEF OnItsWay, At
  <2>4. new.skill # None => Gated(c)'
    <3> SUFFICES ASSUME new.skill # None, ~raced, new.skill \in Mutating
                 PROVE  \E w \in 1..manifest :
                          /\ w >= new.since
                          /\ Manifests[w][new.skill] \in {"beta", "production"}
      BY <1>6, <2>2 DEF Gated
    <3>1. v \in 1..manifest /\ reloaded <= v
      BY <1>1, <1>2, <1>6, Before1 DEF PiInv, Engines, At, Holding, Asking
    <3>2. manifest \in 1..Len(Manifests)
      BY DEF PiInv, Types
    <3>3. Len(Manifests) \in Nat
      BY PiAssumption
    <3>4. v \in 1..Len(Manifests)
      BY <3>1, <3>2, <3>3
    <3>5. Manifests[v][new.skill] \in {"beta", "production"}
      BY <1>7, <3>4, Passed
    <3>6. v >= new.since
      <4>1. call[c].since <= reloaded /\ reloaded \in Nat /\ call[c].since \in Nat
        BY Before1
      <4>2. v \in Int
        BY <3>1
      <4> QED BY <1>7, <3>1, <4>1, <4>2
    <3> QED BY <3>1, <3>5, <3>6
  <2>5. Kept(c)' /\ Closed(c)' /\ Gated(c)'
    BY <1>7, <2>2, <2>3, <2>4, Onward
  <2> QED BY <1>7, <2>2, <2>5, StepKeeps
<1>8. ASSUME NEW s \in Matched(c, Manifests[v]), Allowed(s, Manifests[v]),
             call' = [call EXCEPT ![c] = [@ EXCEPT !.pc = "running", !.skill = s,
                                                   !.tier = Tier(c)]]
      PROVE  PiInv'
  <2>1. PICK new : new = [call[c] EXCEPT !.pc = "running", !.skill = s, !.tier = tier]
    OBVIOUS
  <2>2. s \in Skills
    BY <1>4
  <2>3. /\ new \in CallRecords /\ new.pc = "running" /\ new.skill = s
        /\ new.since = call[c].since /\ new.engine = call[c].engine
        /\ new.session = call[c].session
    BY <1>3, <1>5, <2>1, <2>2 DEF CallRecords, Holding, Asking
  <2>4. call' = [call EXCEPT ![c] = new]
    BY <1>3, <1>8, <2>1
  <2> QED BY <1>7, <1>8, <2>3, <2>4
<1>9. ASSUME call' = [call EXCEPT ![c] = [@ EXCEPT !.pc = "logging", !.tier = Tier(c)]]
      PROVE  PiInv'
  <2>1. PICK new : new = [call[c] EXCEPT !.pc = "logging", !.tier = tier]
    OBVIOUS
  <2>2. /\ new \in CallRecords /\ new.pc = "logging" /\ new.skill = None
        /\ new.since = call[c].since /\ new.engine = call[c].engine
        /\ new.session = call[c].session
    BY <1>3, <1>5, <2>1 DEF CallRecords, Holding, Asking
  <2>3. call' = [call EXCEPT ![c] = new]
    BY <1>3, <1>9, <2>1
  <2> QED BY <1>7, <2>2, <2>3
<1> QED BY <1>2, <1>8, <1>9

LEMMA ExecuteKeeps == ASSUME PiInv, NEW c \in Calls, Execute(c) PROVE PiInv'
<1>1. PICK new : new = [call[c] EXCEPT !.pc = "logging", !.skill = None]
  OBVIOUS
<1>2. /\ call' = [call EXCEPT ![c] = new]
      /\ At(c, "running") /\ UNCHANGED <<diskVars, engineVars, history>>
  BY <1>1 DEF Execute, Goto
<1>3. /\ new \in CallRecords /\ new.pc = "logging" /\ new.skill = None
      /\ new.since = call[c].since /\ new.engine = call[c].engine
      /\ new.session = call[c].session
  <2>1. call[c] \in CallRecords
    BY Before1
  <2> QED BY <1>1, <2>1 DEF CallRecords, Holding, Asking
<1>4. /\ Kind[c] = "ask" /\ UNCHANGED <<engine, reloaded, raced, sessions, manifest>>
      /\ call[c].engine \in Calls /\ engine # None /\ call[c].session \in Calls
  BY <1>2, Before1
     DEF engineVars, history, diskVars, PiInv, Ways, Asking, Holding, Sessioned, At
<1>5. Proper(c, new)
  BY <1>2, <1>3, <1>4, Before1
     DEF Proper, Asking, Shutting, Holding, Sessioned, Early, Over, At
<1>6. Touches(c, new) /\ Types' /\ call'[c] = new
  BY <1>2, <1>3, <1>5, RecordOnly DEF At
<1>7. Open(Sid[c])' => OnItsWay(c)'
  <2> SUFFICES ASSUME Open(Sid[c])' PROVE OnItsWay(c)'
    OBVIOUS
  <2>1. OnItsWay(c)
    BY <1>3, <1>6, HeldSession
  <2> QED BY <1>2, <1>3, <1>4, <1>6, <2>1 DEF OnItsWay, At
<1>8. Kept(c)' /\ Closed(c)' /\ Gated(c)'
  BY <1>3, <1>6, <1>7, Onward
<1> QED BY <1>3, <1>6, <1>8, StepKeeps

LEMMA LogEntryKeeps == ASSUME PiInv, NEW c \in Calls, LogEntry(c) PROVE PiInv'
<1>1. PICK new : new = [call[c] EXCEPT !.pc = "dumping"]
  OBVIOUS
<1>2. /\ call' = [call EXCEPT ![c] = new] /\ At(c, "logging")
      /\ entries' = [entries EXCEPT ![call[c].session] = @ \cup {c}]
      /\ UNCHANGED <<manifest, file, summary, changelog, engine, loaded, sessions,
                     restarts, raced, reloaded, overlapped>>
  BY <1>1 DEF LogEntry, Goto, diskVars, history
<1>3. call[c] \in CallRecords /\ call[c].skill = None
  BY <1>2, Before1 DEF At
<1>4. /\ new \in CallRecords /\ new.pc = "dumping" /\ new.skill = None
      /\ new.since = call[c].since /\ new.engine = call[c].engine
      /\ new.session = call[c].session
  BY <1>1, <1>3 DEF CallRecords, Holding, Asking
<1>5. /\ Kind[c] = "ask" /\ call[c].engine \in Calls /\ engine # None
      /\ call[c].session \in Calls
  BY <1>2, Before1 DEF PiInv, Ways, Asking, Holding, Sessioned, At
<1>6. Proper(c, new)
  BY <1>2, <1>4, <1>5, Before1
     DEF Proper, Asking, Shutting, Holding, Sessioned, Early, Over, At
<1>7. /\ entries' \in [Calls -> SUBSET Calls]
      /\ c \in entries'[call[c].session]
      /\ \A o \in Calls : entries[o] \subseteq entries'[o]
  BY <1>2, <1>5 DEF PiInv, Types
<1>8. Touches(c, new)
  BY <1>2, <1>6, <1>7 DEF Touches, At
<1>9. Types' /\ call'[c] = new
  BY <1>2, <1>4, <1>7 DEF PiInv, Types
<1>10. Open(Sid[c])' => OnItsWay(c)'
  <2> SUFFICES ASSUME Open(Sid[c])' PROVE OnItsWay(c)'
    OBVIOUS
  <2>1. OnItsWay(c)
    BY <1>4, <1>8, HeldSession
  <2> QED BY <1>2, <1>4, <1>7, <1>9, <2>1 DEF OnItsWay, At
<1>11. Kept(c)' /\ Closed(c)' /\ Gated(c)'
  BY <1>4, <1>8, <1>10, Onward
<1> QED BY <1>4, <1>8, <1>9, <1>11, StepKeeps

\* The requests answered before are among the entries that are dumped.
LEMMA DumpKeeps == ASSUME PiInv, NEW c \in Calls, DumpSession(c) PROVE PiInv'
<1>1. PICK held : held = entries[call[c].session]
  OBVIOUS
<1>2. PICK new : new = [call[c] EXCEPT !.pc = "writing", !.held = held]
  OBVIOUS
<1>3. /\ call' = [call EXCEPT ![c] = new]
      /\ At(c, "dumping") /\ UNCHANGED <<diskVars, engineVars, history>>
  BY <1>1, <1>2 DEF DumpSession, Goto
<1>4. /\ Kind[c] = "ask" /\ UNCHANGED <<engine, reloaded, raced, sessions, entries, manifest>>
      /\ call[c].engine \in Calls /\ engine # None /\ call[c].session \in Calls
  BY <1>3, Before1
     DEF engineVars, history, diskVars, PiInv, Ways, Asking, Holding, Sessioned, At
<1>5. call[c] \in CallRecords /\ call[c].skill = None /\ held \in SUBSET Calls
  BY <1>1, <1>3, <1>4, Before1 DEF At, PiInv, Types
<1>6. /\ new \in CallRecords /\ new.pc = "writing" /\ new.skill = None
      /\ new.since = call[c].since /\ new.engine = call[c].engine
      /\ new.session = call[c].session /\ new.held = held
  BY <1>2, <1>5 DEF CallRecords, Holding, Asking
<1>7. Proper(c, new)
  BY <1>3, <1>4, <1>6, Before1
     DEF Proper, Asking, Shutting, Holding, Sessioned, Early, Over, At
<1>8. Touches(c, new) /\ Types' /\ call'[c] = new
  BY <1>3, <1>6, <1>7, RecordOnly DEF At
<1>9. Open(Sid[c])' => OnItsWay(c)'
  <2> SUFFICES ASSUME Open(Sid[c])' PROVE OnItsWay(c)'
    OBVIOUS
  <2>1. Open(Sid[c]) /\ OnItsWay(c)
    BY <1>6, <1>8, HeldSession
  <2>2. c \in held /\ call[c].session = sessions[engine][Sid[c]]
    BY <1>1, <1>3, <2>1 DEF OnItsWay, At
  <2>3. ASSUME NEW d \in Calls, Answered(d)', Sid[d] = Sid[c] PROVE d \in held
    <3>1. Answered(d)
      BY <1>3, <1>6, <1>8, <2>3, OpenBefore DEF At
    <3>2. Lasts(d)
      BY <2>1, <2>3, <3>1 DEF PiInv, Kept
    <3> QED BY <1>1, <2>2, <2>3, <3>2 DEF Lasts
  <2>4. c \in entries'[call[c].session]
    BY <1>1, <1>4, <2>2
  <2> QED BY <1>4, <1>6, <1>8, <2>2, <2>3, <2>4 DEF OnItsWay, At
<1>10. Kept(c)' /\ Closed(c)' /\ Gated(c)'
  BY <1>6, <1>8, <1>9, Onward
<1> QED BY <1>6, <1>8, <1>10, StepKeeps

LEMMA NewCallFacts ==
  ASSUME NEW pc \in Over
  PROVE  /\ [NewCall EXCEPT !.pc = pc] \in CallRecords
         /\ [NewCall EXCEPT !.pc = pc].pc = pc
         /\ [NewCall EXCEPT !.pc = pc].skill = None
         /\ [NewCall EXCEPT !.pc = pc].since = 0
BY DEF NewCall, CallRecords

\* The file takes what is held, and the request is answered.
LEMMA WriteSessionKeeps == ASSUME PiInv, NEW c \in Calls, WriteSession(c) PROVE PiInv'
<1>1. PICK new : new = [NewCall EXCEPT !.pc = "answered"]
  OBVIOUS
<1>2. /\ call' = [call EXCEPT ![c] = new] /\ At(c, "writing")
      /\ file' = [file EXCEPT ![Sid[c]] = call[c].held]
      /\ UNCHANGED <<manifest, summary, changelog, engine, loaded, sessions, entries,
                     restarts, raced, reloaded, overlapped>>
  BY <1>1 DEF WriteSession, Answer, Goto, engineVars, history
<1>3. new \in CallRecords /\ new.pc = "answered" /\ new.skill = None /\ new.since = 0
  BY <1>1, NewCallFacts DEF Over
<1>4. /\ call[c].held \subseteq Calls /\ Sid[c] \in Sids /\ reloaded \in Nat
      /\ call[c].session \in Calls /\ engine # None
  BY <1>2, Before1 DEF CallRecords, At, Sessioned, Holding, Asking
<1>5. Proper(c, new)
  BY <1>2, <1>3, <1>4
     DEF Proper, Asking, Shutting, Holding, Sessioned, Early, Over, At
<1>6. /\ file' \in [Sids -> SUBSET Calls] /\ file'[Sid[c]] = call[c].held
      /\ \A s \in Sids : s # Sid[c] => file'[s] = file[s]
  BY <1>2, <1>4 DEF PiInv, Types
<1>7. Touches(c, new)
  BY <1>2, <1>5, <1>6 DEF Touches, At
<1>8. Types' /\ call'[c] = new
  BY <1>2, <1>3, <1>6 DEF PiInv, Types
<1>9. ASSUME Open(Sid[c])' PROVE Lasts(c)'
  <2>1. OnItsWay(c)
    BY <1>3, <1>7, <1>9, HeldSession
  <2>2. /\ call[c].session = sessions[engine][Sid[c]]
        /\ c \in entries[call[c].session] /\ c \in call[c].held
    BY <1>2, <2>1 DEF OnItsWay, At
  <2> QED BY <1>2, <1>4, <1>6, <2>2, PiAssumption DEF Lasts
<1>10. Kept(c)' /\ Closed(c)' /\ Gated(c)'
  <2>1. Kept(c)'
    BY <1>3, <1>8, <1>9 DEF Kept, OnItsWay, At
  <2>2. Closed(c)' /\ Gated(c)'
    BY <1>3, <1>8, PiAssumption DEF Closed, Gated, At
  <2> QED BY <2>1, <2>2
<1> QED BY <1>3, <1>7, <1>8, <1>10, StepKeeps

\* The session of the only closure holds every request that was answered.
LEMMA CloseKeeps == ASSUME PiInv, NEW c \in Calls, CloseSession(c) PROVE PiInv'
<1>1. PICK o : o = sessions[call[c].engine][Sid[c]]
  OBVIOUS
<1>2. PICK new : new = IF o # None /\ entries[o] # {}
                       THEN [call[c] EXCEPT !.pc = "summing", !.session = o]
                       ELSE [NewCall EXCEPT !.pc = "answered"]
  OBVIOUS
<1>3. /\ call' = [call EXCEPT ![c] = new] /\ At(c, "close")
      /\ sessions' = [sessions EXCEPT ![call[c].engine][Sid[c]] = None]
      /\ UNCHANGED <<manifest, file, summary, changelog, engine, loaded, entries,
                     restarts, raced, reloaded, overlapped>>
  BY <1>1, <1>2 DEF CloseSession, Answer, Goto, diskVars, history
<1>4. /\ Kind[c] = "close" /\ call[c].engine \in Calls /\ engine # None
      /\ call[c] \in CallRecords /\ call[c].skill = None
      /\ Sid[c] \in Sids /\ o \in Calls \cup {None}
      /\ reloaded \in Nat /\ call[c].since <= reloaded
      /\ ~raced => call[c].engine = engine
  BY <1>1, <1>3, Before1 DEF PiInv, Ways, Types, Shutting, Holding, At
<1>5. /\ new \in CallRecords /\ new.pc \in {"summing", "answered"} /\ new.skill = None
      /\ new.since <= reloaded
      /\ new.pc = "summing" =>
           new.session = o /\ o \in Calls /\ new.engine = call[c].engine
  <2>1. CASE o # None /\ entries[o] # {}
    <3>1. o \in Calls
      BY <1>4, <2>1
    <3> QED BY <1>2, <1>4, <2>1, <3>1 DEF CallRecords, Holding, Shutting
  <2>2. CASE ~(o # None /\ entries[o] # {})
    <3>1. new = [NewCall EXCEPT !.pc = "answered"]
      BY <1>2, <2>2
    <3> QED BY <1>4, <3>1, NewCallFacts DEF Over
  <2> QED BY <2>1, <2>2
<1>6. Proper(c, new)
  BY <1>3, <1>4, <1>5
     DEF Proper, Asking, Shutting, Holding, Sessioned, Early, Over, At
<1>7. /\ sessions' \in [Calls -> [Sids -> Calls \cup {None}]]
      /\ \A e \in Calls, s \in Sids : s # Sid[c] => sessions'[e][s] = sessions[e][s]
  BY <1>3, <1>4 DEF PiInv, Types
<1>8. Touches(c, new)
  BY <1>3, <1>6, <1>7 DEF Touches, At
<1>9. Types' /\ call'[c] = new
  BY <1>3, <1>5, <1>7 DEF PiInv, Types
<1>10. Kept(c)' /\ Gated(c)'
  BY <1>4, <1>5, <1>9, PiAssumption DEF Kept, Answered, OnItsWay, At, Gated
<1>11. Closed(c)'
  <2> SUFFICES ASSUME OnlyClosure(c)', NEW d \in Calls, Answered(d)', Sid[d] = Sid[c],
                      new.pc = "summing"
               PROVE  d \in entries'[new.session]
    BY <1>5, <1>9 DEF Closed, At
  <2>1. OnlyClosure(c) /\ Answered(d)
    BY <1>3, <1>5, <1>8, OpenBefore DEF At
  <2>2. Open(Sid[c])
    BY <1>3, <2>1 DEF OnlyClosure, Open, At, Early
  <2>3. Lasts(d)
    BY <2>1, <2>2 DEF PiInv, Kept
  <2>4. call[c].engine = engine
    BY <1>4, <2>2 DEF Open, Steady
  <2> QED BY <1>1, <1>3, <1>5, <2>3, <2>4 DEF Lasts
<1> QED BY <1>5, <1>8, <1>9, <1>10, <1>11, StepKeeps

LEMMA WriteSummaryKeeps == ASSUME PiInv, NEW c \in Calls, WriteSummary(c) PROVE PiInv'
<1>1. PICK new : new = [call[c] EXCEPT !.pc = "noting", !.held = changelog]
  OBVIOUS
<1>2. /\ call' = [call EXCEPT ![c] = new] /\ At(c, "summing")
      /\ summary' = [summary EXCEPT ![Sid[c]] = entries[call[c].session]]
      /\ UNCHANGED <<manifest, file, changelog, engine, loaded, sessions, entries,
                     restarts, raced, reloaded, overlapped>>
  BY <1>1 DEF WriteSummary, Goto, engineVars, history
<1>3. /\ Kind[c] = "close" /\ call[c].engine \in Calls /\ engine # None
      /\ call[c] \in CallRecords /\ call[c].skill = None /\ call[c].session \in Calls
      /\ Sid[c] \in Sids /\ changelog \subseteq Calls
  BY <1>2, Before1 DEF PiInv, Ways, Types, Shutting, Holding, Sessioned, At
<1>4. /\ new \in CallRecords /\ new.pc = "noting" /\ new.skill = None
      /\ new.since = call[c].since /\ new.engine = call[c].engine
  BY <1>1, <1>3 DEF CallRecords, Holding, Shutting
<1>5. Proper(c, new)
  BY <1>2, <1>3, <1>4, Before1
     DEF Proper, Asking, Shutting, Holding, Sessioned, Early, Over, At
<1>6. /\ summary' \in [Sids -> SUBSET Calls] /\ summary'[Sid[c]] = entries[call[c].session]
      /\ \A s \in Sids : s # Sid[c] => summary'[s] = summary[s]
  BY <1>2, <1>3 DEF PiInv, Types
<1>7. Touches(c, new)
  BY <1>2, <1>5, <1>6 DEF Touches, At
<1>8. Types' /\ call'[c] = new
  BY <1>2, <1>4, <1>6 DEF PiInv, Types
<1>9. Kept(c)' /\ Gated(c)'
  BY <1>4, <1>8, PiAssumption DEF Kept, Answered, OnItsWay, At, Gated
<1>10. Closed(c)'
  <2> SUFFICES ASSUME OnlyClosure(c)', NEW d \in Calls, Answered(d)', Sid[d] = Sid[c]
               PROVE  d \in summary'[Sid[c]]
    BY <1>4, <1>8 DEF Closed, At
  <2>1. OnlyClosure(c) /\ Answered(d)
    BY <1>2, <1>4, <1>7, OpenBefore DEF At
  <2> QED BY <1>2, <1>6, <2>1 DEF PiInv, Closed
<1> QED BY <1>4, <1>7, <1>8, <1>9, <1>10, StepKeeps

LEMMA WriteChangelogKeeps == ASSUME PiInv, NEW c \in Calls, WriteChangelog(c) PROVE PiInv'
<1>1. PICK new : new = [NewCall EXCEPT !.pc = "answered"]
  OBVIOUS
<1>2. /\ call' = [call EXCEPT ![c] = new] /\ At(c, "noting")
      /\ changelog' = call[c].held \cup {c}
      /\ UNCHANGED <<manifest, file, summary, engine, loaded, sessions, entries,
                     restarts, raced, reloaded, overlapped>>
  BY <1>1 DEF WriteChangelog, Answer, Goto, engineVars, history
<1>3. new \in CallRecords /\ new.pc = "answered" /\ new.skill = None /\ new.since = 0
  BY <1>1, NewCallFacts DEF Over
<1>4. call[c].held \subseteq Calls /\ reloaded \in Nat /\ Kind[c] = "close"
  BY <1>2, Before1 DEF CallRecords, PiInv, Ways, Shutting, At
<1>5. Proper(c, new)
  BY <1>2, <1>3, <1>4
     DEF Proper, Asking, Shutting, Holding, Sessioned, Early, Over, At
<1>6. Touches(c, new)
  BY <1>2, <1>5 DEF Touches, At
<1>7. Types'
  BY <1>2, <1>3, <1>4 DEF PiInv, Types
<1>8. Kept(c)' /\ Closed(c)' /\ Gated(c)'
  BY <1>3, <1>4, <1>6, Idle DEF Sessioned
<1> QED BY <1>3, <1>6, <1>7, <1>8, StepKeeps

\* What a reload reads is the newest there is.
LEMMA ReadManifestKeeps == ASSUME PiInv, NEW c \in Calls, ReadManifest(c) PROVE PiInv'
<1> DEFINE new == [call[c] EXCEPT !.pc = "reloading", !.version = manifest]
<1>1. /\ call' = [call EXCEPT ![c] = new] /\ At(c, "reload")
      /\ UNCHANGED <<diskVars, engineVars, history>>
  BY DEF ReadManifest, Goto
<1>2. manifest \in Nat
  <2>1. manifest \in 1..Len(Manifests)
    BY DEF PiInv, Types
  <2> QED BY <2>1
<1>3. /\ new \in CallRecords /\ new.pc = "reloading" /\ new.skill = None
      /\ new.version = manifest /\ new.since = call[c].since /\ new.engine = call[c].engine
  <2>1. call[c] \in CallRecords /\ call[c].skill = None
    BY <1>1, Before1 DEF At
  <2> QED BY <1>2, <2>1 DEF CallRecords, Holding
<1> HIDE DEF new
<1>4. Kind[c] = "reload" /\ UNCHANGED <<engine, reloaded, raced>>
  BY <1>1 DEF PiInv, Ways, At, engineVars, history
<1>5. Proper(c, new)
  BY <1>1, <1>3, <1>4, Before1
     DEF Proper, Asking, Shutting, Holding, Sessioned, Early, Over, At
<1>6. Touches(c, new) /\ Types'
  BY <1>1, <1>3, <1>5, RecordOnly DEF At
<1>7. Kept(c)' /\ Closed(c)' /\ Gated(c)'
  BY <1>3, <1>6, Idle DEF Sessioned
<1> QED BY <1>3, <1>6, <1>7, StepKeeps

\* A reload that ends alone has read a manifest no older than any it knew of.
LEMMA ReloadKeeps == ASSUME PiInv, NEW c \in Calls, Reload(c) PROVE PiInv'
<1>1. PICK new : new = [NewCall EXCEPT !.pc = "answered"]
  OBVIOUS
<1>2. /\ call' = [call EXCEPT ![c] = new] /\ At(c, "reloading")
      /\ loaded' = [loaded EXCEPT ![call[c].engine] = call[c].version]
      /\ reloaded' = IF \E d \in Calls \ {c} : At(d, "reloading")
                     THEN reloaded ELSE call[c].version
      /\ UNCHANGED <<manifest, file, summary, changelog, engine, sessions, entries,
                     restarts, raced, overlapped>>
  BY <1>1 DEF Reload, Answer, Goto, diskVars
<1>3. new \in CallRecords /\ new.pc = "answered" /\ new.skill = None /\ new.since = 0
  BY <1>1, NewCallFacts DEF Over
<1>4. /\ call[c].version \in 1..manifest /\ call[c].version \in Nat
      /\ reloaded \in 0..manifest /\ reloaded' \in 0..manifest /\ reloaded' \in Nat
  <2>1. manifest \in 1..Len(Manifests) /\ reloaded \in 0..manifest
    BY DEF PiInv, Types
  <2>2. call[c].version \in 1..manifest
    BY <1>2 DEF PiInv, Engines
  <2>3. reloaded' = reloaded \/ reloaded' = call[c].version
    BY <1>2
  <2> QED BY <2>1, <2>2, <2>3
<1>5. Kind[c] = "reload"
  BY <1>2 DEF PiInv, Ways, At
<1>6. Proper(c, new)
  BY <1>2, <1>3, <1>4, <1>5
     DEF Proper, Asking, Shutting, Holding, Sessioned, Early, Over, At
<1>7. Touches(c, new)
  BY <1>2, <1>6 DEF Touches, At
<1>8. Types'
  <2>1. loaded' \in [Calls -> Nat]
    BY <1>2, <1>4 DEF PiInv, Types
  <2>2. reloaded' \in 0..manifest'
    BY <1>2, <1>4
  <2> QED BY <1>2, <1>3, <2>1, <2>2 DEF PiInv, Types
<1>9. Kept(c)' /\ Closed(c)' /\ Gated(c)'
  BY <1>3, <1>5, <1>7, Idle DEF Sessioned
<1> QED BY <1>3, <1>7, <1>8, <1>9, StepKeeps

-----------------------------------------------------------------------------
(* The surroundings *)

\* A new version of the manifest leaves the old ones what they were.
LEMMA EditKeeps == ASSUME PiInv, EditManifest PROVE PiInv'
<1>1. /\ manifest < Len(Manifests) /\ manifest' = manifest + 1
      /\ UNCHANGED <<file, summary, changelog, engine, loaded, sessions, entries, call,
                     restarts, raced, reloaded, overlapped>>
  BY DEF EditManifest, engineVars, history
<1>2. manifest \in 1..Len(Manifests) /\ Len(Manifests) \in Nat /\ reloaded \in 0..manifest
  BY PiAssumption DEF PiInv, Types
<1>3. /\ manifest' \in 1..Len(Manifests) /\ reloaded \in 0..manifest'
      /\ \A n \in 1..manifest : n \in 1..manifest'
  BY <1>1, <1>2
<1>4. Types'
  BY <1>1, <1>3 DEF PiInv, Types
<1>5. Ways' /\ Overlaps'
  BY <1>1 DEF PiInv, Ways, Overlaps, UnderWay, At
<1>6. Engines'
  BY <1>1, <1>3 DEF PiInv, Engines, At
<1>7. ASSUME NEW c \in Calls PROVE Kept(c)' /\ Closed(c)' /\ Gated(c)'
  <2>1. Kept(c)'
    BY <1>1 DEF PiInv, Kept, Open, Steady, Answered, Lasts, OnItsWay, At
  <2>2. Closed(c)'
    BY <1>1 DEF PiInv, Closed, OnlyClosure, Steady, Answered, At
  <2>3. Gated(c)'
    BY <1>1, <1>3 DEF PiInv, Gated
  <2> QED BY <2>1, <2>2, <2>3
<1> QED BY <1>4, <1>5, <1>6, <1>7 DEF PiInv

\* After a restart of the gateway no call is under way.
LEMMA RestartKeeps == ASSUME PiInv, RestartGateway PROVE PiInv'
<1>1. PICK dead : dead = [NewCall EXCEPT !.pc = "failed"]
  OBVIOUS
<1>2. dead \in CallRecords /\ dead.pc = "failed" /\ dead.skill = None /\ dead.since = 0
  BY <1>1, NewCallFacts DEF Over
<1>3. /\ engine' = None /\ restarts' = restarts + 1
      /\ loaded' = [e \in Calls |-> 0]
      /\ sessions' = [e \in Calls |-> [s \in Sids |-> None]]
      /\ entries' = [o \in Calls |-> {}]
      /\ call' = [c \in Calls |-> IF UnderWay(c) THEN dead ELSE call[c]]
      /\ UNCHANGED <<manifest, file, summary, changelog, raced, reloaded, overlapped>>
  BY <1>1 DEF RestartGateway, diskVars
<1>4. restarts \in Nat /\ restarts' \in Nat /\ restarts' # 0
  <2>1. restarts \in Nat
    BY DEF PiInv, Types
  <2> QED BY <1>3, <2>1
<1>5. \A c \in Calls : call[c] \in CallRecords
  BY DEF PiInv, Types
<1>6. Types'
  <2>1. call' \in [Calls -> CallRecords]
    BY <1>2, <1>3, <1>5
  <2>2. /\ loaded' \in [Calls -> Nat]
        /\ sessions' \in [Calls -> [Sids -> Calls \cup {None}]]
        /\ entries' \in [Calls -> SUBSET Calls]
    BY <1>3
  <2> QED BY <1>3, <1>4, <2>1, <2>2 DEF PiInv, Types
<1>7. ASSUME NEW c \in Calls
      PROVE  /\ \/ call'[c] = dead
                \/ call'[c] = call[c] /\ call[c].pc \in {"waiting", "answered", "failed"}
             /\ call'[c].pc \in {"waiting", "answered", "failed"}
             /\ call'[c].skill = None
  <2>1. CASE UnderWay(c)
    BY <1>2, <1>3, <2>1
  <2>2. CASE ~UnderWay(c)
    BY <1>3, <2>2, Before1 DEF UnderWay
  <2> QED BY <2>1, <2>2
<1>8. Ways'
  <2>1. \A c \in Calls : call'[c].since <= reloaded'
    BY <1>2, <1>3, <1>7, Before1
  <2> QED BY <1>7, <2>1 DEF Ways, Asking, Shutting, Holding, Sessioned, At
<1>9. Overlaps' /\ Engines'
  BY <1>3, <1>7 DEF Overlaps, UnderWay, Engines, Holding, Asking, Shutting, At
<1>10. \A c \in Calls : Kept(c)' /\ Closed(c)' /\ Gated(c)'
  <2> SUFFICES ASSUME NEW c \in Calls PROVE Kept(c)' /\ Closed(c)' /\ Gated(c)'
    OBVIOUS
  <2>1. Kept(c)' /\ Closed(c)'
    BY <1>4 DEF Kept, Open, Steady, Closed, OnlyClosure
  <2>2. call'[c].skill = None /\ None \notin Mutating
    BY <1>7, PiAssumption
  <2>3. Gated(c)'
    BY <2>2 DEF Gated
  <2> QED BY <2>1, <2>3
<1> QED BY <1>6, <1>8, <1>9, <1>10 DEF PiInv

LEMMA NextPi == PiInv /\ [Next]_vars => PiInv'
<1> SUFFICES ASSUME PiInv, [Next]_vars PROVE PiInv'
  OBVIOUS
<1>1. CASE UNCHANGED vars
  <2>1. UNCHANGED <<manifest, file, summary, changelog, engine, loaded, sessions, entries,
                    call, restarts, raced, reloaded, overlapped>>
    BY <1>1 DEF vars, diskVars, engineVars, history
  <2>2. Types' /\ Ways' /\ Engines' /\ Overlaps'
    BY <2>1 DEF PiInv, Types, Ways, Engines, Overlaps, UnderWay, At
  <2>3. \A c \in Calls : Kept(c)' /\ Closed(c)' /\ Gated(c)'
    BY <2>1 DEF PiInv, Kept, Open, Steady, Answered, Lasts, OnItsWay, Closed, OnlyClosure,
                Gated, At
  <2> QED BY <2>2, <2>3 DEF PiInv
<1>2. ASSUME NEW c \in Calls, CallStep(c) PROVE PiInv'
  BY <1>2, BeginKeeps, MakeEngineKeeps, PublishEngineKeeps, TakeEngineKeeps, LookUpKeeps,
     FetchKeeps, FetchRaisesKeeps, OpenKeeps, MatchKeeps, ExecuteKeeps, LogEntryKeeps,
     DumpKeeps, WriteSessionKeeps, CloseKeeps, WriteSummaryKeeps, WriteChangelogKeeps,
     ReadManifestKeeps, ReloadKeeps DEF CallStep
<1> QED BY <1>1, <1>2, EditKeeps, RestartKeeps DEF Next

LEMMA PiInvariant == Spec => []PiInv
BY InitPi, NextPi, PTL DEF Spec

-----------------------------------------------------------------------------
(* Theorems *)

\* However many threads, sessions, engines under way and reloads there are: a request that
\* was answered is in the file of its session, if the session's calls followed one another
\* and neither a closure, nor a restart, nor a second engine came between (handle,
\* persist).
THEOREM AnsweredIsOnFile == Spec => []AnswersOnFile
<1>1. PiInv => AnswersOnFile
  <2> SUFFICES ASSUME PiInv, NEW c \in Calls, Answered(c), Calm(Sid[c])
               PROVE  c \in file[Sid[c]]
    BY DEF AnswersOnFile
  <2>1. Open(Sid[c])
    BY DEF Calm, Open, Steady, At, Early
  <2> QED BY <2>1 DEF PiInv, Kept, Lasts
<1> QED BY <1>1, PiInvariant, PTL

\* The gate of mutating skills holds although the manifest is edited, read by engines that
\* are being made and by reloads that overlap, so that an older one may be put in place
\* after a newer one: no skill runs under a manifest older than that of the last reload
\* that ended alone, as long as no engine takes the place of another (skill_allowed,
\* reload_skills).
THEOREM GateHolds == Spec => []LiveNeedsBeta
<1>1. PiInv => LiveNeedsBeta
  BY DEF PiInv, Gated, LiveNeedsBeta
<1> QED BY <1>1, PiInvariant, PTL

\* A session closed once is summarised with every request it answered (close_session,
\* write_session_summary).
THEOREM ClosedSessionsSummarised == Spec => []ClosedIsSummarised
<1>1. PiInv => ClosedIsSummarised
  <2> SUFFICES ASSUME PiInv, NEW c \in Calls, At(c, "noting"), Steady(Sid[c]),
                      \A d \in Calls \ {c} :
                        Sid[d] = Sid[c] /\ Kind[d] = "close" => At(d, "waiting"),
                      NEW d \in Calls, Answered(d), Sid[d] = Sid[c]
               PROVE  d \in summary[Sid[c]]
    BY DEF ClosedIsSummarised, Steady
  <2>1. OnlyClosure(c)
    BY DEF OnlyClosure
  <2> QED BY <2>1 DEF PiInv, Closed
<1> QED BY <1>1, PiInvariant, PTL

=============================================================================
