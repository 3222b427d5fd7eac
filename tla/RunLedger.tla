------------------------------ MODULE RunLedger -----------------------------
(***************************************************************************)
(* What the kernel promises its callers about a run, as state.json tells   *)
(* it: a run appears once, as pending or with its end logged, a pending    *)
(* run gets done, and one whose end was logged neither waits nor ends      *)
(* again (its event leaves the file after a hundred others).  A run whose  *)
(* launch a crash cut off does not appear.  The ledger may be lost         *)
(* altogether, by a crash within a write of one of the kernel's files:     *)
(* then it is closed, and nothing gets done any more.                      *)
(***************************************************************************)
CONSTANT Runs
VARIABLES stage,  \* of each run
          closed  \* the ledger is lost

vars == <<stage, closed>>

Init == stage = [r \in Runs |-> "none"] /\ closed = FALSE

Turn(r, from, to) ==
  /\ ~closed
  /\ stage[r] = from
  /\ stage' = [stage EXCEPT ![r] = to]
  /\ UNCHANGED closed

Accept(r) == Turn(r, "none", "pending")

FinishAtOnce(r) == Turn(r, "none", "done")

Finish(r) == Turn(r, "pending", "done")

Close == ~closed /\ closed' = TRUE /\ UNCHANGED stage

Next == Close \/ \E r \in Runs : Accept(r) \/ FinishAtOnce(r) \/ Finish(r)

Safety == Init /\ [][Next]_vars

\* "The kernel tracks them until completion." (SYSTEM.md:193)
Progress == \A r \in Runs : WF_vars(Finish(r))

=============================================================================
