---------------------------- MODULE PatternIndex ----------------------------
(***************************************************************************)
(* The kernel's memory of intents (hades/patterns.py).                     *)
(*                                                                         *)
(* An intent is a positive number that stands for its normalised text, in  *)
(* the order of the texts; the tokens of the text are a set.  Confidences  *)
(* are hundredths and scores ten-thousandths, exact where the code has     *)
(* floats.  Usage counts and times of use decide nothing; of the metadata  *)
(* only the model route is kept.                                           *)
(*                                                                         *)
(* A Python dictionary keeps its insertion order and lookup_best walks it  *)
(* in that order, so the order is part of the memory.  save sorts the      *)
(* keys: the file gives them back in the order of the texts.               *)
(***************************************************************************)
EXTENDS Sequences, FiniteSets, BudgetLedger

CONSTANTS Intents,     \* normalised intents
          Tokens,      \* the tokens of each
          Actions,     \* what an intent may be answered with
          Threshold,   \* memory_threshold in ten-thousandths, 5000 by default
          NoRoute      \* no model route

ASSUME IntentsAssumption ==
  /\ Intents \subseteq Nat \ {0}
  /\ IsFiniteSet(Intents)
  /\ \A i \in Intents : IsFiniteSet(Tokens[i]) /\ Tokens[i] # {}
  /\ Threshold \in Nat
  /\ NoRoute \notin Routes

Confidences == 0..100
PatternRecord ==
  [action : Actions, confidence : Confidences, route : Routes \cup {NoRoute}]

\* The source is the intent whose record answers, 0 for none.
NoMatch == [source |-> 0, score |-> 0]

Overlap(q, i) == Cardinality(Tokens[q] \cap Tokens[i])
Union(q, i)   == Cardinality(Tokens[q] \cup Tokens[i])

\* Similarity times confidence, rounded.
Score(patterns, q, i) ==
  (200 * Overlap(q, i) * patterns[i].confidence + Union(q, i)) \div (2 * Union(q, i))

ExactHit(patterns, q) ==
  q \in DOMAIN patterns /\ 100 * patterns[q].confidence >= Threshold

Candidates(patterns, order, q) ==
  {k \in DOMAIN order : /\ Overlap(q, order[k]) > 0
                        /\ Score(patterns, q, order[k]) > 0
                        /\ Score(patterns, q, order[k]) >= Threshold}

\* The first of the candidates with the best score.
BestCandidate(patterns, order, q) ==
  LET found == Candidates(patterns, order, q)
      score == [k \in found |-> Score(patterns, q, order[k])]
  IN  CHOOSE k \in found :
        \A j \in found : score[j] < score[k] \/ (score[j] = score[k] /\ k <= j)

\* Mutant: the first candidate over the threshold is taken.
LookupFirst(patterns, order, q) ==
  IF Candidates(patterns, order, q) = {} THEN NoMatch
  ELSE LET k == CHOOSE k \in Candidates(patterns, order, q) :
                  \A j \in Candidates(patterns, order, q) : k <= j
       IN  [source |-> order[k], score |-> Score(patterns, q, order[k])]

lookup_best(patterns, order, q) ==
  IF ExactHit(patterns, q)
  THEN [source |-> q, score |-> 100 * patterns[q].confidence]
  ELSE IF Candidates(patterns, order, q) = {} THEN NoMatch
  ELSE LET k == BestCandidate(patterns, order, q)
       IN  [source |-> order[k], score |-> Score(patterns, q, order[k])]

\* A record that is known already: its own action stays.
Strengthened(record, route) ==
  [record EXCEPT !.confidence = Lesser(100, record.confidence + 5),
                 !.route = IF route = NoRoute THEN record.route ELSE route]

\* Mutant: the action last executed replaces the one remembered.
ReinforceLast(patterns, i, action, route) ==
  [j \in DOMAIN patterns \cup {i} |->
     IF j # i THEN patterns[j]
     ELSE [action |-> action, confidence |-> 100, route |-> route]]

reinforce(patterns, i, action, route) ==
  [j \in DOMAIN patterns \cup {i} |->
     IF j # i THEN patterns[j]
     ELSE IF i \in DOMAIN patterns THEN Strengthened(patterns[i], route)
     ELSE [action |-> action, confidence |-> 100, route |-> route]]

\* Mutant: the record is taken out and put in again.
OrderAppended(patterns, order, i) == Append(order, i)

\* The order of the dictionary after that.
OrderWith(patterns, order, i) ==
  IF i \in DOMAIN patterns THEN order ELSE Append(order, i)

\* The orders in which a saved file gives records back: there is one.
SortedOrders(S) ==
  {s \in [1..Cardinality(S) -> S] :
     /\ {s[k] : k \in DOMAIN s} = S
     /\ \A j, k \in DOMAIN s : j < k => s[j] < s[k]}

=============================================================================
