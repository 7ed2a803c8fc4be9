------------------------------ MODULE SeatTable ------------------------------
(***************************************************************************)
(* What a room promises its players, without routing indexes, event        *)
(* numbers or frames: a user who takes a seat keeps it for the life of the *)
(* room, at most one connection holds the seat at a time, only the holder  *)
(* plays for it, losing or replacing the holder changes nothing else, and  *)
(* the hand is being dealt exactly while every seat is taken and ready.    *)
(***************************************************************************)
EXTENDS Naturals

CONSTANTS Rooms, Users, Conns, SeatCount, None

Seats == 1 .. SeatCount

VARIABLES
    owner,   \* room -> seat -> user, or None while the seat is free
    holder,  \* room -> seat -> connection that plays for the seat, or None
    ready,   \* room -> set of seats whose player is ready
    auto,    \* room -> set of seats on auto play
    dealing  \* room -> BOOLEAN

vars == <<owner, holder, ready, auto, dealing>>

Init ==
    /\ owner = [r \in Rooms |-> [s \in Seats |-> None]]
    /\ holder = [r \in Rooms |-> [s \in Seats |-> None]]
    /\ ready = [r \in Rooms |-> {}]
    /\ auto = [r \in Rooms |-> {}]
    /\ dealing = [r \in Rooms |-> FALSE]

\* A user without a seat takes the first free one.
Take(r, s, u, c) ==
    /\ \A t \in Seats : owner[r][t] # u
    /\ owner[r][s] = None
    /\ \A t \in Seats : t < s => owner[r][t] # None
    /\ owner' = [owner EXCEPT ![r][s] = u]
    /\ holder' = [holder EXCEPT ![r][s] = c]
    /\ UNCHANGED <<ready, auto, dealing>>

\* A new connection takes the seat over, whoever held it before.
Hold(r, s, c) ==
    /\ owner[r][s] # None
    /\ holder' = [holder EXCEPT ![r][s] = c]
    /\ UNCHANGED <<owner, ready, auto, dealing>>

Release(r, s) ==
    /\ holder[r][s] # None
    /\ holder' = [holder EXCEPT ![r][s] = None]
    /\ UNCHANGED <<owner, ready, auto, dealing>>

SetReady(r, s, on) ==
    /\ holder[r][s] # None
    /\ ready' = [ready EXCEPT ![r] = IF on THEN @ \cup {s} ELSE @ \ {s}]
    /\ dealing' = [dealing EXCEPT ![r] = (ready'[r] = Seats)]
    /\ UNCHANGED <<owner, holder, auto>>

SetAuto(r, s, on) ==
    /\ holder[r][s] # None
    /\ auto' = [auto EXCEPT ![r] = IF on THEN @ \cup {s} ELSE @ \ {s}]
    /\ UNCHANGED <<owner, holder, ready, dealing>>

Next ==
    \E r \in Rooms, s \in Seats :
        \/ \E u \in Users, c \in Conns : Take(r, s, u, c)
        \/ \E c \in Conns : Hold(r, s, c)
        \/ Release(r, s)
        \/ \E on \in BOOLEAN : SetReady(r, s, on) \/ SetAuto(r, s, on)

Spec == Init /\ [][Next]_vars
=============================================================================
