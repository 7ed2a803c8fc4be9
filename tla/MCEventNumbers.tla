--------------------------- MODULE MCEventNumbers ---------------------------
(* Small instances of EventNumbers for TLC.                                *)
EXTENDS EventNumbers, TLC

\* User and connection ids are only ever compared for equality.
Symmetry == Permutations(Users) \cup Permutations(Conns)
=============================================================================
