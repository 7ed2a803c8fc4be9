------------------------------ MODULE RoomTask ------------------------------
(***************************************************************************)
(* The room task of src/room.rs: one actor per room that owns RoomState    *)
(* and runs one RoomCommand at a time (Join, Ready, ResumeSession,         *)
(* PlayerAction, Disconnect).  The state of a room is the seat table       *)
(* (players_by_seat) and the two indexes that route a command to a seat:   *)
(* connection_to_user and user_to_seat.  A handler keeps the three in      *)
(* step, allocates event numbers and sends frames.                         *)
(*                                                                         *)
(* Every variable is a function of the room, so that a module with several *)
(* rooms can extend this one.  Data that never steers a handler (scores,   *)
(* winds, wall counters, names, request ids) is left out.                  *)
(***************************************************************************)
EXTENDS Naturals

CONSTANTS
    Rooms,      \* room ids
    Users,      \* user ids
    Conns,      \* connection ids, each naming its outbound channel as well
    SeatCount,  \* length of SEAT_ORDER and room_config.seat_count (4)
    MaxSeq,     \* bound: event numbers from MaxSeq on are not told apart
    None        \* stands for Option::None and for an absent map entry

ASSUME SeatCountAssumption == SeatCount \in Nat \ {0}
ASSUME MaxSeqAssumption == MaxSeq \in Nat
ASSUME NoneAssumption == None \notin Users \cup Conns

Seats == 1 .. SeatCount     \* East = 1, South = 2, ... as in SEAT_ORDER
NoSeat == 0                 \* Seat::Unspecified

VARIABLES
    players_by_seat,    \* room -> seat -> player slot (NoPlayer: no entry)
    user_to_seat,       \* room -> user -> seat (NoSeat: no entry)
    connection_to_user, \* room -> connection -> user (None: no entry)
    phase,              \* room -> "Lobby" | "Dealing"
    next_event_seq,     \* room -> next event number
    awaiting,           \* room -> connection whose action is with the rule engine
    view                \* room -> seat -> what the frames sent to the seat say

tables == <<players_by_seat, user_to_seat, connection_to_user, phase>>
vars == <<tables, next_event_seq, awaiting, view>>

-----------------------------------------------------------------------------
(* Player slots, and the part of a slot that frames show to everyone.      *)

PlayerSlot ==
    [ user_id : Users \cup {None},
      status : {"Absent", "Joined", "Ready"},
      connected : BOOLEAN,
      auto_play_enabled : BOOLEAN,
      connection_id : Conns \cup {None},
      outbound_tx : Conns \cup {None} ]

NoPlayer ==
    [ user_id |-> None, status |-> "Absent", connected |-> FALSE,
      auto_play_enabled |-> FALSE, connection_id |-> None, outbound_tx |-> None ]

PlayerState ==
    [ user_id : Users \cup {None}, status : {"Absent", "Joined", "Ready"},
      is_connected : BOOLEAN, auto_play_enabled : BOOLEAN ]

Public(player) ==
    [ user_id |-> player.user_id, status |-> player.status,
      is_connected |-> player.connected,
      auto_play_enabled |-> player.auto_play_enabled ]

Occupied(r, s) == players_by_seat[r][s].user_id # None
Routed(r, c) == connection_to_user[r][c] # None
SeatForConnection(r, c) == user_to_seat[r][connection_to_user[r][c]]

\* Mutants of IsNextOpenSeat: any seat without an entry; the first without a
\* live connection.
IsSomeOpenSeat(r, s) == ~Occupied(r, s)
IsNextOfflineSeat(r, s) ==
    /\ ~players_by_seat[r][s].connected
    /\ \A t \in Seats : t < s => players_by_seat[r][t].connected

\* The seats are filled in SEAT_ORDER: the first that has no entry.
IsNextOpenSeat(r, s) ==
    /\ ~Occupied(r, s)
    /\ \A t \in Seats : t < s => Occupied(r, t)

AllReady(players) == \A s \in Seats : players[s].status = "Ready"

\* Mutants of PhaseFor: empty seats are not counted; the room forgets to have a
\* phase outside the hand.
PhaseForSeated(players) ==
    IF \A s \in Seats : players[s].status # "Joined" THEN "Dealing" ELSE "Lobby"
PhaseOrDefault(players) == IF AllReady(players) THEN "Dealing" ELSE "Unspecified"

PhaseFor(players) == IF AllReady(players) THEN "Dealing" ELSE "Lobby"

\* Mutant of Unbound: the dead channel stays in the slot.
UnboundButSending(player) ==
    [player EXCEPT !.connected = FALSE, !.connection_id = None]

\* What a disconnect does to a slot.
Unbound(player) ==
    [player EXCEPT !.connected = FALSE, !.connection_id = None, !.outbound_tx = None]

\* Mutants of RoutesAfterResume: the old route stays; it is removed last.
RoutesAdded(r, c, old, user) == [connection_to_user[r] EXCEPT ![c] = user]
RoutesSwapped(r, c, old, user) ==
    [ d \in Conns |-> IF d = old THEN None
                      ELSE IF d = c THEN user ELSE connection_to_user[r][d] ]

\* The index entry of the seat's old connection goes, the new one comes.
RoutesAfterResume(r, c, old, user) ==
    [ d \in Conns |-> IF d = c THEN user
                      ELSE IF d = old THEN None ELSE connection_to_user[r][d] ]

-----------------------------------------------------------------------------
(* Event numbers and frames.  Frames are modelled by what the seat that    *)
(* receives them can know afterwards: SyncState replaces the view by a     *)
(* snapshot, PlayerConnectionChanged corrects a part of one seat in it.     *)

\* Counting stops at MaxSeq: no handler looks at the number, so that a model
\* that does not tell large numbers apart still has every behaviour.
Counted(n) == IF n > MaxSeq THEN MaxSeq ELSE n
Allocate(r, n) ==
    next_event_seq' = [next_event_seq EXCEPT ![r] = Counted(@ + n)]

Snapshots ==
    [ phase : {"Unspecified", "Lobby", "Dealing"}, players : [Seats -> PlayerState] ]

Snapshot(players, ph) ==
    [ phase |-> ph, players |-> [s \in Seats |-> Public(players[s])] ]

NoView == Snapshot([s \in Seats |-> NoPlayer], "Unspecified")

\* broadcast_sync_state: every connected seat gets the whole snapshot.  A
\* seat that is not connected has no channel: nothing was sent on it.
SyncSent(players, ph) ==
    [ s \in Seats |->
        IF players[s].connected THEN Snapshot(players, ph) ELSE NoView ]

\* PlayerConnectionChanged: user, status and connection of one seat, not its
\* auto play switch.
Changed(v, player, s) ==
    [ phase |-> v.phase,
      players |-> [v.players EXCEPT ![s] =
          [ user_id |-> player.user_id, status |-> player.status,
            is_connected |-> player.connected,
            auto_play_enabled |-> v.players[s].auto_play_enabled ]] ]

\* Mutant of ChangeSent: only the seat itself is told.
ChangeSentToSeat(vs, players, s) ==
    [ t \in Seats |-> IF t = s THEN Changed(vs[t], players[s], s) ELSE vs[t] ]

\* broadcast_connection_changed for seat s, on top of the views vs.
ChangeSent(vs, players, s) ==
    [ t \in Seats |->
        IF players[t].connected THEN Changed(vs[t], players[s], s) ELSE vs[t] ]

-----------------------------------------------------------------------------
Init ==
    /\ players_by_seat = [r \in Rooms |-> [s \in Seats |-> NoPlayer]]
    /\ user_to_seat = [r \in Rooms |-> [u \in Users |-> NoSeat]]
    /\ connection_to_user = [r \in Rooms |-> [c \in Conns |-> None]]
    /\ phase = [r \in Rooms |-> "Lobby"]
    /\ next_event_seq = [r \in Rooms |-> 1]
    /\ awaiting = [r \in Rooms |-> None]
    /\ view = [r \in Rooms |-> [s \in Seats |-> NoView]]

\* Mutant of Idle: commands are handled while the rule engine is asked.
IdleOrAwaiting(r) == r \in Rooms

\* The task takes the next command only when the handler before it is done.
Idle(r) == awaiting[r] = None

\* Answers sent with event number n change nothing but the numbering.
OnlyAnswer(r) ==
    /\ Allocate(r, 1)
    /\ UNCHANGED <<tables, awaiting, view>>

-----------------------------------------------------------------------------
(* handle_join                                                             *)

\* Mutant of HasNoSeat: the already-joined check is missing.
MayHaveSeat(r, u) == u \in Users
HasNoSeat(r, u) == user_to_seat[r][u] = NoSeat

JoinAlreadyJoined(r, c, u) ==
    /\ Idle(r)
    /\ ~HasNoSeat(r, u)
    /\ OnlyAnswer(r)

JoinRoomFull(r, c, u) ==
    /\ Idle(r)
    /\ HasNoSeat(r, u)
    /\ \A s \in Seats : Occupied(r, s)
    /\ OnlyAnswer(r)

\* Three frames: the response, SyncState to everyone, the change of the seat.
JoinSeated(r, c, u, s) ==
    /\ Idle(r)
    /\ HasNoSeat(r, u)
    /\ IsNextOpenSeat(r, s)
    /\ Allocate(r, 3)
    /\ LET joined == [ user_id |-> u, status |-> "Joined", connected |-> TRUE,
                       auto_play_enabled |-> FALSE,
                       connection_id |-> c, outbound_tx |-> c ]
           players == [players_by_seat[r] EXCEPT ![s] = joined]
       IN  /\ players_by_seat' = [players_by_seat EXCEPT ![r] = players]
           /\ view' = [view EXCEPT ![r] =
                         ChangeSent(SyncSent(players, phase[r]), players, s)]
    /\ connection_to_user' = [connection_to_user EXCEPT ![r][c] = u]
    /\ user_to_seat' = [user_to_seat EXCEPT ![r][u] = s]
    /\ UNCHANGED <<phase, awaiting>>

-----------------------------------------------------------------------------
(* send_reject_to_connection: the answer travels through the seat that the *)
(* connection is routed to; a connection without a route gets nothing.     *)

RejectSent(r, c) ==
    /\ IF Routed(r, c) /\ players_by_seat[r][SeatForConnection(r, c)].outbound_tx # None
       THEN Allocate(r, 1)
       ELSE UNCHANGED next_event_seq
    /\ UNCHANGED <<tables, view>>

(* handle_ready                                                            *)

ReadyUnregistered(r, c) ==
    /\ Idle(r)
    /\ ~Routed(r, c)
    /\ RejectSent(r, c)
    /\ UNCHANGED awaiting

Ready(r, c, status) ==
    /\ Idle(r)
    /\ Routed(r, c)
    /\ Allocate(r, 1)
    /\ LET players == [players_by_seat[r] EXCEPT
                         ![SeatForConnection(r, c)].status = status]
           ph == PhaseFor(players)
       IN  /\ players_by_seat' = [players_by_seat EXCEPT ![r] = players]
           /\ phase' = [phase EXCEPT ![r] = ph]
           /\ view' = [view EXCEPT ![r] = SyncSent(players, ph)]
    /\ UNCHANGED <<user_to_seat, connection_to_user, awaiting>>

-----------------------------------------------------------------------------
(* handle_resume                                                           *)

ResumeUnknownUser(r, c, u) ==
    /\ Idle(r)
    /\ user_to_seat[r][u] = NoSeat
    /\ OnlyAnswer(r)

\* The request carries a token that is not the one of the user's seat.
ResumeBadToken(r, c, u) ==
    /\ Idle(r)
    /\ user_to_seat[r][u] # NoSeat
    /\ OnlyAnswer(r)

\* The seat and its route move to connection c; the resumed seat alone gets a
\* snapshot, everyone the change of the seat.
Resume(r, c, u) ==
    /\ Idle(r)
    /\ user_to_seat[r][u] # NoSeat
    /\ Allocate(r, 2)
    /\ LET s == user_to_seat[r][u]
           old == players_by_seat[r][s].connection_id
           players == [players_by_seat[r] EXCEPT
                         ![s].connection_id = c,
                         ![s].outbound_tx = c,
                         ![s].connected = TRUE]
           synced == [view[r] EXCEPT ![s] = Snapshot(players, phase[r])]
       IN  /\ players_by_seat' = [players_by_seat EXCEPT ![r] = players]
           /\ connection_to_user' = [connection_to_user EXCEPT ![r] =
                RoutesAfterResume(r, c, old, players[s].user_id)]
           /\ view' = [view EXCEPT ![r] = ChangeSent(synced, players, s)]
    /\ UNCHANGED <<user_to_seat, phase, awaiting>>

-----------------------------------------------------------------------------
(* handle_player_action                                                    *)

ActionUnregistered(r, c) ==
    /\ Idle(r)
    /\ ~Routed(r, c)
    /\ RejectSent(r, c)
    /\ UNCHANGED awaiting

\* Wrong match or round, no payload, or a payload that cannot be translated
\* into a validation request.
ActionRefused(r, c) ==
    /\ Idle(r)
    /\ Routed(r, c)
    /\ RejectSent(r, c)
    /\ UNCHANGED awaiting

AutoPlayToggle(r, c, enabled) ==
    /\ Idle(r)
    /\ Routed(r, c)
    /\ Allocate(r, 1)
    /\ LET players == [players_by_seat[r] EXCEPT
                         ![SeatForConnection(r, c)].auto_play_enabled = enabled]
       IN  /\ players_by_seat' = [players_by_seat EXCEPT ![r] = players]
           /\ view' = [view EXCEPT ![r] = SyncSent(players, phase[r])]
    /\ UNCHANGED <<user_to_seat, connection_to_user, phase, awaiting>>

\* The handler awaits validate_action; the task takes no other command.
ActionSubmitted(r, c) ==
    /\ Idle(r)
    /\ Routed(r, c)
    /\ awaiting' = [awaiting EXCEPT ![r] = c]
    /\ UNCHANGED <<tables, next_event_seq, view>>

\* Legal, illegal or failed call: each outcome is sent as a rejection.
ActionVerdict(r) ==
    /\ ~Idle(r)
    /\ RejectSent(r, awaiting[r])
    /\ awaiting' = [awaiting EXCEPT ![r] = None]

-----------------------------------------------------------------------------
(* handle_disconnect                                                       *)

DisconnectUnregistered(r, c) ==
    /\ Idle(r)
    /\ ~Routed(r, c)
    /\ UNCHANGED vars

Disconnect(r, c) ==
    /\ Idle(r)
    /\ Routed(r, c)
    /\ Allocate(r, 2)
    /\ LET s == SeatForConnection(r, c)
           players == [players_by_seat[r] EXCEPT ![s] = Unbound(@)]
       IN  /\ players_by_seat' = [players_by_seat EXCEPT ![r] = players]
           /\ view' = [view EXCEPT ![r] =
                         ChangeSent(SyncSent(players, phase[r]), players, s)]
    /\ connection_to_user' = [connection_to_user EXCEPT ![r][c] = None]
    /\ UNCHANGED <<user_to_seat, phase, awaiting>>

-----------------------------------------------------------------------------
HandleJoin(r, c, u) ==
    \/ JoinAlreadyJoined(r, c, u)
    \/ JoinRoomFull(r, c, u)
    \/ \E s \in Seats : JoinSeated(r, c, u, s)

HandleReady(r, c) ==
    \/ ReadyUnregistered(r, c)
    \/ \E status \in {"Joined", "Ready"} : Ready(r, c, status)

HandleResume(r, c, u) ==
    \/ ResumeUnknownUser(r, c, u)
    \/ ResumeBadToken(r, c, u)
    \/ Resume(r, c, u)

HandlePlayerAction(r, c) ==
    \/ ActionUnregistered(r, c)
    \/ ActionRefused(r, c)
    \/ \E enabled \in BOOLEAN : AutoPlayToggle(r, c, enabled)
    \/ ActionSubmitted(r, c)

HandleDisconnect(r, c) ==
    \/ DisconnectUnregistered(r, c)
    \/ Disconnect(r, c)

Next ==
    \E r \in Rooms :
        \/ ActionVerdict(r)
        \/ \E c \in Conns :
              \/ HandleReady(r, c)
              \/ HandlePlayerAction(r, c)
              \/ HandleDisconnect(r, c)
              \/ \E u \in Users : HandleJoin(r, c, u) \/ HandleResume(r, c, u)

Spec == Init /\ [][Next]_vars

-----------------------------------------------------------------------------
(* Type invariant.                                                         *)

\* Every map and slot of RoomState has the type room.rs declares for it.
TypeOK ==
    /\ players_by_seat \in [Rooms -> [Seats -> PlayerSlot]]
    /\ user_to_seat \in [Rooms -> [Users -> Seats \cup {NoSeat}]]
    /\ connection_to_user \in [Rooms -> [Conns -> Users \cup {None}]]
    /\ phase \in [Rooms -> {"Lobby", "Dealing"}]
    /\ next_event_seq \in [Rooms -> Nat]
    /\ awaiting \in [Rooms -> Conns \cup {None}]
    /\ view \in [Rooms -> [Seats -> Snapshots]]

-----------------------------------------------------------------------------
(* Safety invariants.                                                      *)

\* user_to_seat and the slots name each other: no user holds two seats, no
\* seat is held by a user the index does not know, and the two error paths of
\* handle_resume that report a lost seat mapping are dead code.
SeatIndexAgrees ==
    \A r \in Rooms, s \in Seats, u \in Users :
        user_to_seat[r][u] = s <=> players_by_seat[r][s].user_id = u

\* A command is executed for the seat that its connection itself holds: the
\* two-step lookup of seat_for_connection never lands on a seat that another
\* connection has taken over, so no stale connection can play, ready up or
\* disconnect a seat, and a rejection reaches the connection that asked.
RouteEndsAtOwnSeat ==
    \A r \in Rooms, c \in Conns :
        Routed(r, c) =>
            \E s \in Seats :
                /\ players_by_seat[r][s].user_id = connection_to_user[r][c]
                /\ players_by_seat[r][s].connection_id = c

\* A slot is connected exactly while it is bound to a connection, and frames
\* for it go to that connection's own channel; free seats are bound to none.
BindingConsistent ==
    \A r \in Rooms, s \in Seats :
        LET player == players_by_seat[r][s]
        IN  /\ player.connected <=> player.connection_id # None
            /\ player.outbound_tx = player.connection_id
            /\ player.user_id = None => player = NoPlayer
            /\ player.user_id # None => player.status # "Absent"

\* The hand is being dealt exactly while all seats are taken and ready.
DealingIffAllReady ==
    \A r \in Rooms : phase[r] = "Dealing" <=> AllReady(players_by_seat[r])

\* Full and partial frames add up: a connected player who applies every frame
\* sent to the seat knows the phase and every seat as the room has them, even
\* though a resume sends the snapshot to one seat only and the others a delta.
ViewsCurrent ==
    \A r \in Rooms, s \in Seats :
        players_by_seat[r][s].connected =>
            view[r][s] = Snapshot(players_by_seat[r], phase[r])

\* While the rule engine is asked, the connection that asked keeps its route,
\* so that its verdict is not dropped by send_reject_to_connection.
AwaitingIsRouted ==
    \A r \in Rooms : awaiting[r] # None => Routed(r, awaiting[r])

-----------------------------------------------------------------------------
(* Action properties.                                                      *)

\* A seat and its user stay together for the life of the room, through every
\* disconnect, takeover and refused request.
SeatingIsPermanent ==
    [][\A r \in Rooms, s \in Seats :
          Occupied(r, s) =>
              players_by_seat'[r][s].user_id = players_by_seat[r][s].user_id]_vars

\* A player goes offline only when the connection that holds the seat is the
\* one that disconnects: the late Disconnect of a connection that was replaced
\* by a resume leaves the player online.
OnlyOwnDisconnect ==
    [][\A r \in Rooms, s \in Seats :
          LET c == players_by_seat[r][s].connection_id
          IN  players_by_seat[r][s].connected /\ ~players_by_seat'[r][s].connected
              => /\ connection_to_user[r][c] = players_by_seat[r][s].user_id
                 /\ connection_to_user'[r][c] = None]_vars

-----------------------------------------------------------------------------
(* Refinement.                                                             *)

Owners == [r \in Rooms |-> [s \in Seats |-> players_by_seat[r][s].user_id]]
Holders == [r \in Rooms |-> [s \in Seats |-> players_by_seat[r][s].connection_id]]
ReadySeats ==
    [r \in Rooms |-> {s \in Seats : players_by_seat[r][s].status = "Ready"}]
AutoSeats ==
    [r \in Rooms |-> {s \in Seats : players_by_seat[r][s].auto_play_enabled}]
IsDealing == [r \in Rooms |-> phase[r] = "Dealing"]

Table ==
    INSTANCE SeatTable WITH
        owner <- Owners, holder <- Holders, ready <- ReadySeats,
        auto <- AutoSeats, dealing <- IsDealing

\* The room task implements the seat table: every handler is one step of it or
\* changes nothing that a player can tell apart.
ImplementsSeatTable == Table!Spec

-----------------------------------------------------------------------------
(* Clients that use one connection for one user, as the clients of the     *)
(* protocol are meant to: a connection joins or resumes only as the user   *)
(* it is routed to, if any.                                                *)

OneUserPerConnection(r, c, u) == connection_to_user[r][c] \in {u, None}

NextOneUser ==
    \E r \in Rooms :
        \/ ActionVerdict(r)
        \/ \E c \in Conns :
              \/ HandleReady(r, c)
              \/ HandlePlayerAction(r, c)
              \/ HandleDisconnect(r, c)
              \/ \E u \in Users :
                    /\ OneUserPerConnection(r, c, u)
                    /\ HandleJoin(r, c, u) \/ HandleResume(r, c, u)

SpecOneUser == Init /\ [][NextOneUser]_vars

\* With such clients no seat is a ghost: the connection of every connected
\* seat is routed to it, so its commands are executed and its close is noticed.
ConnectedSeatsAreRouted ==
    \A r \in Rooms, s \in Seats :
        players_by_seat[r][s].connected =>
            connection_to_user[r][players_by_seat[r][s].connection_id]
                = players_by_seat[r][s].user_id
=============================================================================
