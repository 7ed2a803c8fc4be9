----------------------------- MODULE MCRoomTask -----------------------------
(* Small instances of RoomTask for TLC.                                    *)
EXTENDS RoomTask, TLC

\* User and connection ids are only ever compared for equality.
Symmetry == Permutations(Users) \cup Permutations(Conns)
=============================================================================
