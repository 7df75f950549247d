--------------------------- MODULE MCPositionExit ---------------------------
(* Values for the constants of PositionExit. *)
EXTENDS PositionExit, TLC

CONSTANTS x1, x2, g1, g2, f1

\* Only the identity of attempts, triggers and foreign orders is ever compared.
Symmetric == Permutations(Attempts) \cup Permutations(Triggers)
=============================================================================
