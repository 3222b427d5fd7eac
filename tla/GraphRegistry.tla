--------------------------- MODULE GraphRegistry ----------------------------
(***************************************************************************)
(* The record a graph family has in the versioned registry                 *)
(* (hades/graph_registry.py) and the operations on it.                     *)
(*                                                                         *)
(* A family's versions are a sequence in registration order, the order     *)
(* rollback walks.  The order of "experimental" and "history" is read      *)
(* nowhere in the code, so both are sets.  Families share no state and a   *)
(* version id names its family, so one family is enough.                   *)
(***************************************************************************)
EXTENDS GraphFitness, Sequences

CONSTANTS Versions,    \* version ids of the family
          NoVersion    \* the empty "active" of a family without versions

ASSUME RegistryAssumption == NoVersion \notin Versions

Families == [active        : Versions \union {NoVersion},
             versions      : Seq(Versions),
             experimental  : SUBSET Versions,
             history       : SUBSET Versions,
             failure_count : Nat]

\* The record setdefault creates; an absent family behaves the same.
EmptyFamily == [active        |-> NoVersion,
                versions      |-> << >>,
                experimental  |-> {},
                history       |-> {},
                failure_count |-> 0]

Registered(fam, v) == \E i \in DOMAIN fam.versions : fam.versions[i] = v

\* versions.index(active): the position is unique, register_version adds no
\* version twice.
ActiveIndex(fam) == CHOOSE i \in DOMAIN fam.versions : fam.versions[i] = fam.active

\* Mutant: the membership test before the append is missing.
register_again(fam, v, experimental) ==
  [fam EXCEPT !.active       = IF @ = NoVersion THEN v ELSE @,
              !.versions     = Append(@, v),
              !.experimental = IF experimental THEN @ \union {v} ELSE @,
              !.history      = IF fam.active = NoVersion THEN @ \union {v} ELSE @]

register_version(fam, v, experimental) ==
  [active        |-> IF fam.active = NoVersion THEN v ELSE fam.active,
   versions      |-> IF Registered(fam, v) THEN fam.versions
                                           ELSE Append(fam.versions, v),
   experimental  |-> IF experimental THEN fam.experimental \union {v}
                                     ELSE fam.experimental,
   history       |-> IF fam.active = NoVersion THEN fam.history \union {v}
                                               ELSE fam.history,
   failure_count |-> fam.failure_count]

\* Called with a registered version; any other raises ValueError.
promote_version(fam, v) ==
  [fam EXCEPT !.active        = v,
              !.failure_count = 0,
              !.history       = @ \union {v},
              !.experimental  = @ \ {v}]

CanRollBack(fam) == Registered(fam, fam.active) /\ ActiveIndex(fam) > 1

\* Mutant: a rollback goes to the first version.
rollback_to_first(fam) ==
  IF CanRollBack(fam)
  THEN [fam EXCEPT !.active = fam.versions[1], !.failure_count = 0]
  ELSE fam

rollback(fam) ==
  IF CanRollBack(fam)
  THEN [fam EXCEPT !.active        = fam.versions[ActiveIndex(fam) - 1],
                   !.failure_count = 0]
  ELSE fam

\* Mutant: one failure too late.
record_failure_late(fam) ==
  LET counted == [fam EXCEPT !.failure_count = @ + 1]
  IN  IF counted.failure_count > FailureStreakThreshold
      THEN rollback(counted)
      ELSE counted

record_failure(fam) ==
  LET counted == [fam EXCEPT !.failure_count = @ + 1]
  IN  IF counted.failure_count >= FailureStreakThreshold
      THEN rollback(counted)
      ELSE counted

=============================================================================
