---------------------------- MODULE PiSessions -----------------------------
(***************************************************************************)
(* Pi behind the gateway (gateway/hermes_api.py, hades/pi_engine.py,       *)
(* hades/pi_session.py): calls to /pi, /pi/close and /pi/reload are served *)
(* by the threads of a pool, without locks.  The engine is made by the     *)
(* first call that finds none; it holds the skills of the manifest as they *)
(* were when it was made or reloaded, and the sessions by their id.        *)
(*                                                                         *)
(* A call to /pi finds or makes its session, routes the request, matches   *)
(* and gates a skill, runs it as a subprocess, appends an entry to the     *)
(* session and rewrites the session's file with all its entries.  A call   *)
(* to /pi/reload reads the manifest and then puts what it read in place of *)
(* the engine's skills, so of two of them the older may come last.  An     *)
(* engine and a session are known by the call that made them, an entry by  *)
(* the call it is of.  A request without a session id has one of its own.  *)
(* Texts, moods and skill notes are left out but for what they decide.     *)
(***************************************************************************)
EXTENDS Integers, Sequences, FiniteSets

CONSTANTS Calls,      \* the calls of the gateway
          Kind,       \* of a call: "ask", "close" or "reload"
          Sid,        \* the session id of a call
          Wants,      \* the skills whose names or intents occur in the text of a call
          Social,     \* calls in a mood of SOCIAL_MOODS
          TaskClass,  \* what classify_task says of a call
          Reasoning,  \* calls whose text asks for multi-step or deep reasoning
          Skills,     \* skills are numbered in the order of their names
          Home,       \* skills of the home repositories
          Mutating,   \* skills the manifest marks as mutating
          Mapped,     \* skills with a tool in _SKILL_TOOL_MAP
          Manifests,  \* the manifest's versions: the status of each skill, or "absent"
          Threads,    \* bound: calls under way at once
          MaxRestarts,\* bound: restarts of the gateway
          None        \* no call, no skill

Statuses == {"absent", "experimental", "beta", "production"}

ASSUME PiAssumption ==
  /\ Kind \in [Calls -> {"ask", "close", "reload"}]
  /\ DOMAIN Sid = Calls
  /\ Wants \in [Calls -> SUBSET Skills]
  /\ Social \subseteq Calls /\ Reasoning \subseteq Calls
  /\ TaskClass \in [Calls -> {"low_risk", "code", "analysis", "chat"}]
  /\ Skills \subseteq Nat
  /\ Home \subseteq Skills /\ Mutating \subseteq Skills /\ Mapped \subseteq Skills
  /\ Manifests \in Seq([Skills -> Statuses]) /\ Manifests # <<>>
  /\ Threads \in Nat \ {0} /\ MaxRestarts \in Nat
  /\ None \notin Calls \cup Skills

Sids == {Sid[c] : c \in Calls}

VARIABLES manifest,  \* the version of the manifest on disk
          engine,    \* the gateway's engine
          loaded,    \* the version of the skills each engine holds
          sessions,  \* of each engine: the session under each id
          entries,   \* of each session: the calls it logged
          file,      \* of each id: the entries in the session's file
          summary,   \* of each id: the entries in Obsidian's summary
          changelog, \* the closures noted in Obsidian's changelog
          call,      \* what each call's thread holds
          restarts,  \* restarts of the gateway
          raced,     \* history: an engine replaced another
          reloaded,  \* history: the version of the last reload that ended alone
          overlapped \* history: ids with two calls under way at once

diskVars   == <<manifest, file, summary, changelog>>
engineVars == <<engine, loaded, sessions, entries>>
history    == <<restarts, raced, reloaded, overlapped>>
vars       == <<diskVars, engineVars, call, history>>

\* A call: where it is, its engine and session, the skill that runs and the model tier,
\* what it read before it writes, the manifest's version a reload read, and the version of
\* the last reload that ended alone before the call began.
NewCall == [pc |-> "waiting", engine |-> None, session |-> None, skill |-> None,
            tier |-> None, held |-> {}, version |-> 0, since |-> 0]

Init ==
  /\ manifest = 1
  /\ engine = None
  /\ loaded = [e \in Calls |-> 0]
  /\ sessions = [e \in Calls |-> [s \in Sids |-> None]]
  /\ entries = [o \in Calls |-> {}]
  /\ file = [s \in Sids |-> {}]
  /\ summary = [s \in Sids |-> {}]
  /\ changelog = {}
  /\ call = [c \in Calls |-> NewCall]
  /\ restarts = 0
  /\ raced = FALSE
  /\ reloaded = 0
  /\ overlapped = {}

UnderWay(c) == call[c].pc \notin {"waiting", "answered", "failed"}

At(c, pc) == call[c].pc = pc

Goto(c, fields) == call' = [call EXCEPT ![c] = fields]

Answer(c) == Goto(c, [NewCall EXCEPT !.pc = "answered"])

-----------------------------------------------------------------------------
(* The gateway finds its engine *)

\* _get_pi looks for the engine.
Begin(c) ==
  /\ At(c, "waiting")
  /\ Cardinality({d \in Calls : UnderWay(d)}) < Threads
  /\ Goto(c, [call[c] EXCEPT !.pc = IF engine = None THEN "making" ELSE "finding",
                             !.since = IF Kind[c] = "ask" THEN reloaded ELSE 0])
  /\ overlapped' = IF \E d \in Calls : UnderWay(d) /\ Sid[d] = Sid[c]
                   THEN overlapped \cup {Sid[c]} ELSE overlapped
  /\ UNCHANGED <<diskVars, engineVars, restarts, raced, reloaded>>

\* PiEngine() reads the manifest.
MakeEngine(c) ==
  /\ At(c, "making")
  /\ loaded' = [loaded EXCEPT ![c] = manifest]
  /\ Goto(c, [call[c] EXCEPT !.pc = "made"])
  /\ UNCHANGED <<diskVars, engine, sessions, entries, history>>

\* The global is assigned, also when another call has made an engine by now.
PublishEngine(c) ==
  /\ At(c, "made")
  /\ engine' = c
  /\ raced' = (raced \/ engine # None)
  /\ Goto(c, [call[c] EXCEPT !.pc = "finding"])
  /\ UNCHANGED <<diskVars, loaded, sessions, entries, restarts, reloaded, overlapped>>

\* The global is returned as it is then.
TakeEngine(c) ==
  /\ At(c, "finding")
  /\ Goto(c, [call[c] EXCEPT !.pc = Kind[c], !.engine = engine])
  /\ UNCHANGED <<diskVars, engineVars, history>>

-----------------------------------------------------------------------------
(* A request *)

\* Mutant: the session of an id is never found.
LookUpNothing(c) ==
  /\ At(c, "ask")
  /\ Goto(c, [call[c] EXCEPT !.pc = "opening"])
  /\ UNCHANGED <<diskVars, engineVars, history>>

\* _get_or_create_session: sid in self.sessions.
LookUpSession(c) ==
  /\ At(c, "ask")
  /\ Goto(c, [call[c] EXCEPT !.pc = IF sessions[call[c].engine][Sid[c]] = None
                                    THEN "opening" ELSE "fetching"])
  /\ UNCHANGED <<diskVars, engineVars, history>>

FetchSession(c) ==
  /\ At(c, "fetching")
  /\ sessions[call[c].engine][Sid[c]] # None
  /\ Goto(c, [call[c] EXCEPT !.pc = "matching",
                             !.session = sessions[call[c].engine][Sid[c]]])
  /\ UNCHANGED <<diskVars, engineVars, history>>

\* The session was closed since it was looked up: a KeyError, and no answer.
FetchSessionRaises(c) ==
  /\ At(c, "fetching")
  /\ sessions[call[c].engine][Sid[c]] = None
  /\ Goto(c, [NewCall EXCEPT !.pc = "failed"])
  /\ UNCHANGED <<diskVars, engineVars, history>>

\* Mutant: a new session is not kept.
OpenForgotten(c) ==
  /\ At(c, "opening")
  /\ Goto(c, [call[c] EXCEPT !.pc = "matching", !.session = c])
  /\ UNCHANGED <<diskVars, engineVars, history>>

\* A session without entries takes the id, whatever was there.
OpenSession(c) ==
  /\ At(c, "opening")
  /\ sessions' = [sessions EXCEPT ![call[c].engine][Sid[c]] = c]
  /\ Goto(c, [call[c] EXCEPT !.pc = "matching", !.session = c])
  /\ UNCHANGED <<diskVars, engine, loaded, entries, history>>

\* choose_route: low-risk tasks stay local; a social mood is reason enough to pay.
Tier(c) ==
  CASE TaskClass[c] = "low_risk" -> "local_free"
    [] TaskClass[c] # "low_risk" /\ (c \in Social \/ c \in Reasoning) -> "paid"
    [] OTHER -> "free"

Rank(status) ==
  CASE status = "production" -> 0 [] status = "beta" -> 1 [] OTHER -> 2

\* prefer_home: home repositories first, then by status, then by name.
Before(status, s, t) ==
  LET Key(k) == 100 * (IF k \in Home THEN 0 ELSE 1) + 10 * Rank(status[k])
  IN  Key(s) < Key(t) \/ (Key(s) = Key(t) /\ s < t)

\* _match_skills: the declared skills that the text names.
Matched(c, status) == {s \in Wants[c] : status[s] # "absent"}

\* Mutant: skills pass the gate whatever their status.
AllowedAlways(s, status) == TRUE

\* skill_allowed, live when the skill is mutating.
Allowed(s, status) == ~(s \in Mutating /\ status[s] = "experimental")

\* Only the first of the ordered candidates is tried; without one, or when it does not
\* pass the gate or has no tool, the answer is a refusal.
Match(c) ==
  LET status  == Manifests[loaded[call[c].engine]]
      matched == Matched(c, status)
      Runs(s) == /\ \A t \in matched \ {s} : Before(status, s, t)
                 /\ Allowed(s, status)
                 /\ s \in Mapped
  IN  /\ At(c, "matching")
      /\ \/ \E s \in matched :
              /\ Runs(s)
              /\ Goto(c, [call[c] EXCEPT !.pc = "running", !.skill = s, !.tier = Tier(c)])
         \/ /\ ~\E s \in matched : Runs(s)
            /\ Goto(c, [call[c] EXCEPT !.pc = "logging", !.tier = Tier(c)])
      /\ UNCHANGED <<diskVars, engineVars, history>>

\* _execute_skill returns, whether the tool succeeded, failed or ran out of time.
Execute(c) ==
  /\ At(c, "running")
  /\ Goto(c, [call[c] EXCEPT !.pc = "logging", !.skill = None])
  /\ UNCHANGED <<diskVars, engineVars, history>>

LogEntry(c) ==
  /\ At(c, "logging")
  /\ entries' = [entries EXCEPT ![call[c].session] = @ \cup {c}]
  /\ Goto(c, [call[c] EXCEPT !.pc = "dumping"])
  /\ UNCHANGED <<diskVars, engine, loaded, sessions, history>>

\* persist: the session is dumped, and the text written after that.
DumpSession(c) ==
  /\ At(c, "dumping")
  /\ Goto(c, [call[c] EXCEPT !.pc = "writing", !.held = entries[call[c].session]])
  /\ UNCHANGED <<diskVars, engineVars, history>>

WriteSession(c) ==
  /\ At(c, "writing")
  /\ file' = [file EXCEPT ![Sid[c]] = call[c].held]
  /\ Answer(c)
  /\ UNCHANGED <<manifest, summary, changelog, engineVars, history>>

-----------------------------------------------------------------------------
(* Closing and reloading *)

\* close_session takes the session out of the engine; one without entries leaves no trace.
CloseSession(c) ==
  LET o == sessions[call[c].engine][Sid[c]]
  IN  /\ At(c, "close")
      /\ sessions' = [sessions EXCEPT ![call[c].engine][Sid[c]] = None]
      /\ IF o # None /\ entries[o] # {}
         THEN Goto(c, [call[c] EXCEPT !.pc = "summing", !.session = o])
         ELSE Answer(c)
      /\ UNCHANGED <<diskVars, engine, loaded, entries, history>>

\* write_session_summary, after which append_changelog reads the changelog.
WriteSummary(c) ==
  /\ At(c, "summing")
  /\ summary' = [summary EXCEPT ![Sid[c]] = entries[call[c].session]]
  /\ Goto(c, [call[c] EXCEPT !.pc = "noting", !.held = changelog])
  /\ UNCHANGED <<manifest, file, changelog, engineVars, history>>

\* The whole changelog is written back with one line more.
WriteChangelog(c) ==
  /\ At(c, "noting")
  /\ changelog' = call[c].held \cup {c}
  /\ Answer(c)
  /\ UNCHANGED <<manifest, file, summary, engineVars, history>>

\* resolve_skills reads the manifest and its notes.
ReadManifest(c) ==
  /\ At(c, "reload")
  /\ Goto(c, [call[c] EXCEPT !.pc = "reloading", !.version = manifest])
  /\ UNCHANGED <<diskVars, engineVars, history>>

\* What was read takes the place of the engine's skills, whatever came in between.  The
\* history notes a reload that ends when no other one is between its two steps.
Reload(c) ==
  /\ At(c, "reloading")
  /\ loaded' = [loaded EXCEPT ![call[c].engine] = call[c].version]
  /\ reloaded' = IF \E d \in Calls \ {c} : At(d, "reloading")
                 THEN reloaded ELSE call[c].version
  /\ Answer(c)
  /\ UNCHANGED <<diskVars, engine, sessions, entries, restarts, raced, overlapped>>

-----------------------------------------------------------------------------
(* The surroundings *)

EditManifest ==
  /\ manifest < Len(Manifests)
  /\ manifest' = manifest + 1
  /\ UNCHANGED <<file, summary, changelog, engineVars, call, history>>

\* The gateway is started again: engines and sessions are gone, and so are the calls
\* under way.
RestartGateway ==
  /\ restarts < MaxRestarts
  /\ restarts' = restarts + 1
  /\ engine' = None
  /\ loaded' = [e \in Calls |-> 0]
  /\ sessions' = [e \in Calls |-> [s \in Sids |-> None]]
  /\ entries' = [o \in Calls |-> {}]
  /\ call' = [c \in Calls |-> IF UnderWay(c) THEN [NewCall EXCEPT !.pc = "failed"] ELSE call[c]]
  /\ UNCHANGED <<diskVars, raced, reloaded, overlapped>>

CallStep(c) ==
  \/ Begin(c) \/ MakeEngine(c) \/ PublishEngine(c) \/ TakeEngine(c)
  \/ LookUpSession(c) \/ FetchSession(c) \/ FetchSessionRaises(c) \/ OpenSession(c)
  \/ Match(c) \/ Execute(c) \/ LogEntry(c) \/ DumpSession(c) \/ WriteSession(c)
  \/ CloseSession(c) \/ WriteSummary(c) \/ WriteChangelog(c)
  \/ ReadManifest(c) \/ Reload(c)

Next ==
  \/ \E c \in Calls : CallStep(c)
  \/ EditManifest
  \/ RestartGateway

Spec == Init /\ [][Next]_vars

-----------------------------------------------------------------------------
(* Properties *)

Answered(c) == Kind[c] = "ask" /\ At(c, "answered")

\* Nothing disturbs a session: its calls follow one another, none closes it, one engine
\* serves them.
Calm(s) ==
  /\ s \notin overlapped
  /\ \A c \in Calls : Sid[c] = s /\ Kind[c] = "close" => At(c, "waiting")
  /\ restarts = 0
  /\ ~raced

\* Every request that was answered is in the file of its session, when nothing disturbs
\* the session (handle, persist).
AnswersOnFile ==
  \A c \in Calls : Answered(c) /\ Calm(Sid[c]) => c \in file[Sid[c]]

\* A mutating skill is run only if it was beta or better in a manifest no older than the
\* one of the last reload that ended alone before the call began: whichever of overlapping
\* reloads comes last, the skills never fall behind the manifest all of them found.  Only
\* an engine that takes the place of the reloaded one may be older (skill_allowed,
\* reload_skills; assistant_manifest.md, "Status must be beta or production to affect
\* live systems").
LiveNeedsBeta ==
  ~raced =>
    \A c \in Calls :
      call[c].skill \in Mutating =>
        \E v \in 1..manifest :
          v >= call[c].since /\ Manifests[v][call[c].skill] \in {"beta", "production"}

\* A closed session whose calls did not overlap is summarised with every request it
\* answered, if it is closed once and no other engine and no restart took them
\* (close_session).
ClosedIsSummarised ==
  \A c \in Calls :
    /\ At(c, "noting")
    /\ Sid[c] \notin overlapped /\ restarts = 0 /\ ~raced
    /\ \A d \in Calls \ {c} : Sid[d] = Sid[c] /\ Kind[d] = "close" => At(d, "waiting")
    => \A d \in Calls : Answered(d) /\ Sid[d] = Sid[c] => d \in summary[Sid[c]]

=============================================================================
