------------------------- MODULE SignalAggregator --------------------------
(***************************************************************************)
(* The signal aggregator (hades/signals.py): the kernel's handle_signal    *)
(* hands it one signal at a time; it keeps the last MaxEvents of them and  *)
(* answers with the first rule whose signal types were all observed within *)
(* the rule's window and whose scores reach the rule's minimum.            *)
(*                                                                         *)
(* Nothing orders the times of observation: the caller may give them.  A   *)
(* payload is abstracted to its score and the number of its arrival.       *)
(***************************************************************************)
EXTENDS Integers, Sequences, FiniteSetsExt

CONSTANTS SignalTypes, \* signal types
          Rules,       \* the rules in order: types, min_score, within_seconds
          Times,       \* times of observation
          Scores,      \* payload scores
          MaxEvents,   \* max_events
          MaxReceived  \* bound: signals received by one process

ASSUME SignalAssumption ==
  /\ Rules \in Seq([types : Seq(SignalTypes) \ {<<>>}, minScore : Int, within : Int])
  /\ Times \subseteq Int
  /\ Scores \subseteq Int
  /\ MaxEvents \in Nat \ {0}
  /\ MaxReceived \in Nat

VARIABLES events,   \* SignalAggregator.events
          trigger,  \* the answer to the last signal
          received  \* history: every signal this process has received

signalVars == <<events, trigger, received>>

Signals  == [type : SignalTypes, at : Times, score : Scores, n : 1..MaxReceived]
NoTrigger == [rule |-> 0, score |-> 0, signals |-> {}]

SignalInit ==
  /\ events = <<>>
  /\ trigger = NoTrigger
  /\ received = <<>>

-----------------------------------------------------------------------------
(* Matching a rule *)

\* Mutant: the first signal of the type in the window.
EarliestOf(memory, type, start) ==
  LET found == {i \in 1..Len(memory) : memory[i].type = type /\ memory[i].at >= start}
  IN  IF found = {} THEN 0 ELSE Min(found)

\* The place of the signal of a type that arrived last among those in the window.
LatestOf(memory, type, start) ==
  Max({0} \cup {i \in 1..Len(memory) : memory[i].type = type /\ memory[i].at >= start})

WindowStart(rule, now) == now - rule.within

\* The place in the memory that each type of the rule is found at, 0 when it is not.
Places(memory, rule, now) ==
  [k \in 1..Len(rule.types) |-> LatestOf(memory, rule.types[k], WindowStart(rule, now))]

Total(memory, places) ==
  SumFunction([k \in DOMAIN places |-> IF places[k] = 0 THEN 0 ELSE memory[places[k]].score])

\* matched_payloads has one entry for each type, so a rule that names one twice never matches.
_match_rule(memory, rule, now) ==
  LET places  == Places(memory, rule, now)
      matched == {k \in DOMAIN places : places[k] # 0}
  IN  /\ Cardinality({rule.types[k] : k \in matched}) = Len(rule.types)
      /\ Total(memory, places) >= rule.minScore

FirstMatch(memory, now) ==
  LET matching == {r \in 1..Len(Rules) : _match_rule(memory, Rules[r], now)}
  IN  IF matching = {} THEN 0 ELSE Min(matching)

TriggerOf(memory, now) ==
  LET r == FirstMatch(memory, now)
  IN  IF r = 0 THEN NoTrigger
      ELSE LET places == Places(memory, Rules[r], now)
           IN  [rule |-> r, score |-> Total(memory, places),
                signals |-> {memory[places[k]] : k \in DOMAIN places}]

-----------------------------------------------------------------------------
(* Operations *)

\* Mutant: the newest signal is dropped when the memory is full.
KeepOldest(memory) == SubSeq(memory, 1, Min({Len(memory), MaxEvents}))

Keep(memory) == SubSeq(memory, Max({1, Len(memory) - MaxEvents + 1}), Len(memory))

ingest(signal) ==
  /\ Len(received) < MaxReceived
  /\ received' = Append(received, signal)
  /\ events' = Keep(Append(events, signal))
  /\ trigger' = TriggerOf(events', signal.at)

\* The memory of the aggregator is lost when the kernel's process is replaced.
RestartAggregator ==
  /\ received # <<>>
  /\ events' = <<>>
  /\ trigger' = NoTrigger
  /\ received' = <<>>

SignalNext ==
  \/ \E type \in SignalTypes, at \in Times, score \in Scores :
       ingest([type |-> type, at |-> at, score |-> score, n |-> Len(received) + 1])
  \/ RestartAggregator

SignalSpec == SignalInit /\ [][SignalNext]_signalVars

-----------------------------------------------------------------------------
(* Properties *)

Arrived == {received[i] : i \in 1..Len(received)}
Now     == received[Len(received)].at

TypesOf(rule)       == {rule.types[k] : k \in 1..Len(rule.types)}
DistinctTypes(rule) == Cardinality(TypesOf(rule)) = Len(rule.types)

\* Of everything received, the last signal of each type of the rule in the window.
Evidence(rule) ==
  LET recent == {s \in Arrived : s.type \in TypesOf(rule) /\ s.at >= WindowStart(rule, Now)}
  IN  {s \in recent : \A t \in recent : t.type = s.type => t.n <= s.n}

ScoreOf(signals) == SumFunction([s \in signals |-> s.score])

Suffices(rule, signals) ==
  /\ {s.type : s \in signals} = TypesOf(rule)
  /\ ScoreOf(signals) >= rule.minScore

\* A trigger rests on what was received: on the last signal of each of its types in the
\* window, none of them counted twice or replaced by an older one, although the memory
\* is cut (ingest, _match_rule).
TriggerIsEarned ==
  trigger.rule # 0 =>
    LET rule == Rules[trigger.rule]
    IN  /\ DistinctTypes(rule)
        /\ trigger.signals = Evidence(rule)
        /\ Suffices(rule, trigger.signals)
        /\ trigger.score = ScoreOf(trigger.signals)

\* A rule is passed over, though what was received satisfies it, only because part of its
\* evidence has been pushed out of the memory (ingest).
MissedOnlyEvicted ==
  received # <<>> =>
    \A r \in 1..Len(Rules) :
      /\ DistinctTypes(Rules[r]) /\ Suffices(Rules[r], Evidence(Rules[r]))
      /\ trigger.rule = 0 \/ r < trigger.rule
      => \E s \in Evidence(Rules[r]) : s.n <= Len(received) - MaxEvents

=============================================================================
