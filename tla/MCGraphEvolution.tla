------------------------- MODULE MCGraphEvolution --------------------------
(* GraphEvolution with three versions of one family. *)
EXTENDS GraphEvolution, TLC

CONSTANTS v1, v2, v3

MCVersions == {v1, v2, v3}
VersionSymmetry == Permutations(MCVersions)

\* A fast success (100), a slow costly success (60) and a fast failure (40).
MCSamples ==
  { [success |-> TRUE,  latency |-> 20, cost |-> 20],
    [success |-> TRUE,  latency |-> 0,  cost |-> 0],
    [success |-> FALSE, latency |-> 20, cost |-> 20] }

\* The registry before anything is registered.
MCEmptyFamily == EmptyFamily

=============================================================================
