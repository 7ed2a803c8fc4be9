---------------------------- MODULE RoomDirectory ----------------------------
(***************************************************************************)
(* What the room manager promises the sessions: finding the task of a room *)
(* and, for a join, creating it, looks atomic.  A room has one task for    *)
(* ever; a session that may send holds a handle of that task; only a join  *)
(* creates a room, and only a request for a room that does not exist yet   *)
(* is turned away.                                                         *)
(***************************************************************************)
CONSTANTS Rooms, Sessions

VARIABLES
    directory,  \* room -> 1 once its task exists, 0 before
    asks,       \* session -> the room it asks for, while it does
    handle      \* session -> 1 while it holds the handle it asked for, else 0

vars == <<directory, asks, handle>>

Nothing == [room |-> "none", create |-> FALSE]
Requests == [room : Rooms, create : BOOLEAN]

Init ==
    /\ directory = [r \in Rooms |-> 0]
    /\ asks = [s \in Sessions |-> Nothing]
    /\ handle = [s \in Sessions |-> 0]

Ask(s, request) ==
    /\ asks[s] = Nothing
    /\ asks' = [asks EXCEPT ![s] = request]
    /\ UNCHANGED <<directory, handle>>

Found(s) ==
    /\ asks[s] # Nothing /\ handle[s] = 0
    /\ directory[asks[s].room] = 1
    /\ handle' = [handle EXCEPT ![s] = 1]
    /\ UNCHANGED <<directory, asks>>

Created(s) ==
    /\ asks[s] # Nothing /\ handle[s] = 0
    /\ asks[s].create
    /\ directory[asks[s].room] = 0
    /\ directory' = [directory EXCEPT ![asks[s].room] = 1]
    /\ handle' = [handle EXCEPT ![s] = 1]
    /\ UNCHANGED asks

TurnedAway(s) ==
    /\ asks[s] # Nothing /\ handle[s] = 0
    /\ ~asks[s].create
    /\ directory[asks[s].room] = 0
    /\ asks' = [asks EXCEPT ![s] = Nothing]
    /\ UNCHANGED <<directory, handle>>

\* The command is in the mailbox of the task; the handle is dropped.
Sent(s) ==
    /\ handle[s] = 1
    /\ asks' = [asks EXCEPT ![s] = Nothing]
    /\ handle' = [handle EXCEPT ![s] = 0]
    /\ UNCHANGED directory

Next ==
    \E s \in Sessions :
        \/ \E request \in Requests : Ask(s, request)
        \/ Found(s) \/ Created(s) \/ TurnedAway(s) \/ Sent(s)

Spec == Init /\ [][Next]_vars
=============================================================================
