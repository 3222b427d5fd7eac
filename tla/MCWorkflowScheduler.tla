------------------------ MODULE MCWorkflowScheduler ------------------------
(* WorkflowScheduler with ticks of ten seconds. *)
EXTENDS WorkflowScheduler

\* A job of every minute, one of every second minute, and one like "0-2,99 * * * *", which
\* raises at a minute its first alternative does not match.
MCJobs == << [id |-> "a", due |-> 0..LastSlot, raises |-> {}],
             [id |-> "b", due |-> {s \in 0..LastSlot : s % 2 = 0}, raises |-> {}],
             [id |-> "c", due |-> 0..2, raises |-> {3}] >>

MCNoSlot == -1

=============================================================================
