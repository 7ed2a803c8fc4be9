------------------------------ MODULE MCServer ------------------------------
(* Small instances of Server for TLC.                                      *)
EXTENDS Server, TLC

CONSTANTS c1, c2, c3, u1, u2, r1, r2

\* Two users, the second of them with a connection to come back on.
OneRoomEach == {<<c1, u1, r1>>, <<c2, u2, r1>>, <<c3, u1, r1>>}

\* A user who moves between two rooms on one connection, and one who stays.
TwoRooms == {<<c1, u1, r1>>, <<c1, u1, r2>>, <<c2, u2, r1>>}
=============================================================================
