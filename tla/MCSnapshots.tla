---------------------------- MODULE MCSnapshots ----------------------------
(* Snapshots with two creations with one label, and two files. *)
EXTENDS Snapshots

CONSTANTS c1, c2, before

MCCreations == {c1, c2}
MCLabel     == [c \in MCCreations |-> before]
MCNames     == {before, 1}

\* The first file is rewritten once it exists, the second is only made.
MCMaxState  == <<2, 1>>

ASSUME MCLabelsApart == LabelsApart

=============================================================================
