--------------------------- MODULE MCPiSessions ----------------------------
(* PiSessions with two requests to one session, a closure and two reloads. *)
EXTENDS PiSessions, TLC

CONSTANTS a1, a2, shut, again, again2, a

MCCalls == {a1, a2, shut, again, again2}
Reloads == {again, again2}
MCKind  == [c \in MCCalls |-> CASE c = shut -> "close" [] c \in Reloads -> "reload" [] OTHER -> "ask"]
MCSid   == [c \in MCCalls |-> IF c \in Reloads THEN "none" ELSE a]
MCWants == [c \in MCCalls |-> CASE c = a1 -> {1, 2} [] c = a2 -> {2} [] OTHER -> {}]
MCClass == [c \in MCCalls |-> IF c = a1 THEN "low_risk" ELSE "chat"]

\* The two reloads are alike.
MCSymmetry == Permutations(Reloads)

\* Skill 2 mutates live data, and is demoted in the second version.
MCManifests ==
  << [s \in {1, 2} |-> IF s = 1 THEN "experimental" ELSE "beta"],
     [s \in {1, 2} |-> "experimental"] >>

=============================================================================
