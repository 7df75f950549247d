----------------------------- MODULE MCSafeMode -----------------------------
(* Values for the constants of SafeMode. *)
EXTENDS SafeMode, TLC

CONSTANTS p1, p2, i1, i2, i3, i4

MCConditions == {"OPERATOR", "POSITION_MISMATCH"}

\* The properties name no process and no inode.
Symmetric == Permutations(Processes) \cup Permutations(Inodes)
=============================================================================
