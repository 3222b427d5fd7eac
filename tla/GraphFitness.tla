---------------------------- MODULE GraphFitness ----------------------------
(***************************************************************************)
(* Fitness scores of graph runs (hades/graph_fitness.py).                  *)
(*                                                                         *)
(* Scores are exact hundredths: 0.6 becomes 60, and the latency and the    *)
(* cost part of a score, each at most 0.2, become 0 .. 20.  The store      *)
(* keeps a running mean; here the sum of the scores is kept and the mean   *)
(* is compared by cross-multiplication, which leaves out float rounding.   *)
(* The success rate, latency, cost and token means of a summary decide     *)
(* nothing and are left out.                                               *)
(***************************************************************************)
EXTENDS Integers

CONSTANTS PromotionThreshold,      \* promotion_threshold, 80 by default
          FailureThreshold,        \* failure_threshold, 30 by default
          MinRunsForPromotion,     \* min_runs_for_promotion, 2 by default
          FailureStreakThreshold   \* failure_streak_threshold, 3 by default

ASSUME FitnessAssumption ==
  /\ PromotionThreshold \in 0..100
  /\ FailureThreshold \in 0..100
  /\ MinRunsForPromotion \in Nat \ {0}
  /\ FailureStreakThreshold \in Nat \ {0}

Penalty == 0..20   \* what the latency part or the cost part can contribute
Scores  == 0..100

\* What the scorer reads of a run: its success and the two bonus parts.
GraphMetrics == [success : BOOLEAN, latency : Penalty, cost : Penalty]

\* What decides promotion and failure in a GraphFitnessSummary.
Summaries == [runs : Nat, sum : Nat, last : Scores]

\* The summary the store returns for a graph it has no record of.
NoRuns == [runs |-> 0, sum |-> 0, last |-> 0]

score(m) == (IF m.success THEN 60 ELSE 0) + m.latency + m.cost

\* GraphFitnessStore.record: the summary after one more run.
record(summary, sc) ==
  [runs |-> summary.runs + 1, sum |-> summary.sum + sc, last |-> sc]

\* Mutant: promotion on the first good mean.
promote_at_once(summary, experimental) ==
  experimental /\ summary.sum >= PromotionThreshold * summary.runs

should_promote(summary, experimental) ==
  /\ experimental
  /\ summary.runs >= MinRunsForPromotion
  /\ summary.sum >= PromotionThreshold * summary.runs

\* Mutant: a failure by the mean instead of the last score.
failure_by_mean(summary) == summary.sum <= FailureThreshold * summary.runs

should_record_failure(summary) == summary.last <= FailureThreshold

=============================================================================
