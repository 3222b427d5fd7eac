------------------------ MODULE MCSignalAggregator -------------------------
(* SignalAggregator with three rules over three types. *)
EXTENDS SignalAggregator

CONSTANTS move, filing, other

\* Two types together, one type alone, and a rule that names a type twice.
MCRules == << [types |-> <<move, filing>>, minScore |-> 3, within |-> 2],
              [types |-> <<move>>, minScore |-> 2, within |-> 1],
              [types |-> <<filing, filing>>, minScore |-> 1, within |-> 2] >>

=============================================================================
