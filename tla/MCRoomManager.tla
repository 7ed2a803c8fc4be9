---------------------------- MODULE MCRoomManager ----------------------------
(* Small instances of RoomManager for TLC.                                 *)
EXTENDS RoomManager, TLC

CONSTANTS r1, r2, r3, s1, s2

\* Every session may name every room.
Anywhere == Sessions \X Rooms

\* s1 may leave a call in the room r3 and go on to r1, which then competes with
\* the room of s2 for the channel to the rule engine.
PastTheStuckRoom == {<<s1, r1>>, <<s1, r3>>, <<s2, r2>>}

\* Session ids are only compared for equality.
Symmetry == Permutations(Sessions)
=============================================================================
