-------------------------- MODULE MCInvestigation --------------------------
(* Investigation with a severe signal, one without an id and a burn-in cycle. *)
EXTENDS Investigation

CONSTANTS spike, note, cycle, outcome, mission, once,
          MaxBusy,   \* bound: passes and trainers under way at once
          MaxMishaps \* bound: writes cut short and disturbances that come together

MCSignals  == {spike, note, cycle, outcome}
MCSeverity == [s \in MCSignals |-> CASE s = spike -> 3 [] s = cycle -> 1 [] OTHER -> 2]

MCBounds ==
  /\ Cardinality({p \in Runners : pass[p].pc # "idle"})
       + (IF trainer \in {"asking", "reporting"} THEN 1 ELSE 0) <= MaxBusy
  /\ cuts + disturbances <= MaxMishaps

=============================================================================
