------------------------- MODULE MCSchedulerPolicy -------------------------
(* SchedulerPolicy with a quiet window of two ticks and other windows of one. *)
EXTENDS SchedulerPolicy

=============================================================================
