---------------------------- MODULE MCSignalBus ----------------------------
(* SignalBus with two exports, one direct signal with a rule, a service and an operator. *)
EXTENDS SignalBus

CONSTANTS spike, acme1, acme2

MCSignals == {spike, acme1, acme2}
MCFiles   == << <<acme1>>, <<acme2>> >>

CONSTANTS MaxBusy,   \* bound: processes under way at once
          MaxMishaps \* bound: kinds of mishap that come together in a behaviour

MCBounds ==
  /\ Cardinality({r \in Readers : Reading(r)} \cup {b \in Bridges : bridge[b].pc # "idle"})
       <= MaxBusy
  /\ cuts + aborts + overlaps + (IF disturbed THEN 1 ELSE 0) <= MaxMishaps

ASSUME MCExportsDistinct == ExportsDistinct

=============================================================================
