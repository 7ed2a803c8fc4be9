----------------------------- MODULE ServerProofs -----------------------------
(***************************************************************************)
(* Proofs about sessions, mailboxes and room tasks run together, for every *)
(* number of connections, users and rooms, all sizes of mailboxes and all  *)
(* logins: the rooms see nothing but what RoomTask allows for, so that its *)
(* theorems hold for the server; and if every client keeps a connection to *)
(* one user, no seat stays with a session that has ended.                  *)
(***************************************************************************)
EXTENDS Server, RoomTaskProofs, SequenceTheorems

\* What a session can ask a room for.
CommandsToRooms ==
    [kind : {"Join", "Resume"}, conn : Conns, user : Users]
        \cup [kind : {"Ready", "Action", "Disconnect"}, conn : Conns, user : {None}]

\* A session waits with a command of its own, and for a room.
GatewayOK ==
    /\ current_room \in [Conns -> Rooms \cup {None}]
    /\ exists \subseteq Rooms
    /\ sending \in [Conns -> CommandsToRooms \cup {NoCommand}]
    /\ \A c \in Conns : sending[c] # NoCommand =>
          sending[c].conn = c /\ current_room[c] \in exists
    /\ mailbox \in [Rooms -> Seq(CommandsToRooms)]
    /\ \A r \in Rooms : Len(mailbox[r]) <= Buffer

-----------------------------------------------------------------------------
\* A login names a connection, a user and a room.
LEMMA LoginType ==
    ASSUME NEW login \in Logins
    PROVE  login[1] \in Conns /\ login[2] \in Users /\ login[3] \in Rooms
BY LoginsAssumption

\* What becomes of the gateway when a session starts to wait with a command.
LEMMA DispatchedOK ==
    ASSUME GatewayOK, NEW c \in Conns, NEW command \in CommandsToRooms,
           command.conn = c, sending' = [sending EXCEPT ![c] = command],
           NEW r \in Rooms, current_room' = [current_room EXCEPT ![c] = r],
           sending[c] = NoCommand,
           exists' \subseteq Rooms, exists \subseteq exists', r \in exists',
           UNCHANGED mailbox
    PROVE  GatewayOK'
BY DEF GatewayOK

\* What becomes of it when there is no such room.
LEMMA NotFoundOK ==
    ASSUME GatewayOK, NEW c \in Conns, NEW r \in Rooms,
           current_room' = [current_room EXCEPT ![c] = r],
           sending[c] = NoCommand, UNCHANGED sending, UNCHANGED exists, UNCHANGED mailbox
    PROVE  GatewayOK'
BY DEF GatewayOK

LEMMA CommandTypes ==
    ASSUME NEW c \in Conns
    PROVE  /\ \A u \in Users : /\ Command("Join", c, u) \in CommandsToRooms
                               /\ Command("Resume", c, u) \in CommandsToRooms
           /\ Command("Ready", c, None) \in CommandsToRooms
           /\ Command("Action", c, None) \in CommandsToRooms
           /\ Command("Disconnect", c, None) \in CommandsToRooms
           /\ \A kind, u : Command(kind, c, u).conn = c
BY DEF Command, CommandsToRooms

\* The requests of clients.
LEMMA RequestOK ==
    ASSUME GatewayOK, NEW c \in Conns, NEW u \in Users, NEW r \in Rooms,
           RequestJoin(c, u, r) \/ RequestResume(c, u, r) \/ RequestAction(c, r)
    PROVE  GatewayOK' /\ UNCHANGED vars
<1>0. /\ sending[c] = NoCommand /\ UNCHANGED mailbox /\ UNCHANGED vars
      /\ current_room' = [current_room EXCEPT ![c] = r]
      /\ exists \subseteq Rooms
  BY DEF GatewayOK, RequestJoin, RequestResume, RequestAction, Reads, Remembers
<1>1. CASE RequestJoin(c, u, r)
  <2>1. /\ exists' = exists \cup {r}
        /\ sending' = [sending EXCEPT ![c] = Command("Join", c, u)]
    BY <1>1 DEF RequestJoin, Dispatched
  <2> QED
    BY <1>0, <2>1, CommandTypes, DispatchedOK
<1>2. CASE RequestResume(c, u, r)
  <2> DEFINE command == Command("Resume", c, u)
  <2>1. /\ UNCHANGED exists
        /\ \/ r \in exists /\ sending' = [sending EXCEPT ![c] = command]
           \/ UNCHANGED sending
    BY <1>2 DEF RequestResume, DispatchedIfExists, Dispatched
  <2>2. command \in CommandsToRooms /\ command.conn = c
    BY CommandTypes
  <2> HIDE DEF command
  <2>3. CASE r \in exists /\ sending' = [sending EXCEPT ![c] = command]
    BY <1>0, <2>1, <2>2, <2>3, DispatchedOK
  <2>4. CASE UNCHANGED sending
    BY <1>0, <2>1, <2>4, NotFoundOK
  <2> QED
    BY <2>1, <2>3, <2>4
<1>3. CASE RequestAction(c, r)
  <2> DEFINE command == Command("Action", c, None)
  <2>1. /\ UNCHANGED exists
        /\ \/ r \in exists /\ sending' = [sending EXCEPT ![c] = command]
           \/ UNCHANGED sending
    BY <1>3 DEF RequestAction, DispatchedIfExists, Dispatched
  <2>2. command \in CommandsToRooms /\ command.conn = c
    BY CommandTypes
  <2> HIDE DEF command
  <2>3. CASE r \in exists /\ sending' = [sending EXCEPT ![c] = command]
    BY <1>0, <2>1, <2>2, <2>3, DispatchedOK
  <2>4. CASE UNCHANGED sending
    BY <1>0, <2>1, <2>4, NotFoundOK
  <2> QED
    BY <2>1, <2>3, <2>4
<1> QED
  BY <1>1, <1>2, <1>3

\* The other steps of a session.
LEMMA SessionOK ==
    ASSUME GatewayOK, NEW c \in Conns,
           Open(c) \/ RequestReady(c) \/ Enqueue(c) \/ Close(c)
    PROVE  GatewayOK' /\ UNCHANGED vars
<1>0. UNCHANGED vars
  BY DEF Open, RequestReady, Enqueue, Close
<1>1. CASE Open(c)
  BY <1>0, <1>1 DEF Open, GatewayOK
<1>2. CASE RequestReady(c)
  <2>1. /\ sending[c] = NoCommand
        /\ UNCHANGED <<current_room, exists, mailbox>>
        /\ \/ /\ current_room[c] \in exists
              /\ sending' = [sending EXCEPT ![c] = Command("Ready", c, None)]
           \/ UNCHANGED sending
    BY <1>2 DEF RequestReady, Reads, DispatchedIfExists, Dispatched
  <2> QED
    BY <1>0, <2>1, CommandTypes DEF GatewayOK
<1>3. CASE Enqueue(c)
  <2> DEFINE r == current_room[c]
  <2>1. /\ sending[c] # NoCommand /\ Len(mailbox[r]) < Buffer
        /\ mailbox' = [mailbox EXCEPT ![r] = Append(mailbox[r], sending[c])]
        /\ sending' = [sending EXCEPT ![c] = NoCommand]
        /\ UNCHANGED <<current_room, exists>>
    BY <1>3 DEF Enqueue
  <2>2. /\ r \in Rooms /\ sending[c] \in CommandsToRooms /\ mailbox[r] \in Seq(CommandsToRooms)
    BY <2>1 DEF GatewayOK
  <2>3. /\ Append(mailbox[r], sending[c]) \in Seq(CommandsToRooms)
        /\ Len(Append(mailbox[r], sending[c])) <= Buffer
    BY <2>1, <2>2, BufferAssumption
  <2> QED
    BY <1>0, <2>1, <2>2, <2>3 DEF GatewayOK
<1>4. CASE Close(c)
  <2>1. /\ sending[c] = NoCommand
        /\ UNCHANGED <<current_room, exists, mailbox>>
        /\ \/ /\ current_room[c] \in exists
              /\ sending' = [sending EXCEPT ![c] = Command("Disconnect", c, None)]
           \/ UNCHANGED sending
    BY <1>4 DEF Close
  <2> QED
    BY <1>0, <2>1, CommandTypes DEF GatewayOK
<1> QED
  BY <1>1, <1>2, <1>3, <1>4

\* The room tasks take commands that RoomTask has a handler for.
LEMMA RoomOK ==
    ASSUME GatewayOK, NEW r \in Rooms, Handle(r) \/ EngineReturns(r)
    PROVE  GatewayOK' /\ [Next]_vars
<1>1. CASE Handle(r)
  <2>1. /\ mailbox[r] # <<>> /\ mailbox[r] \in Seq(CommandsToRooms)
        /\ mailbox' = [mailbox EXCEPT ![r] = Tail(mailbox[r])]
        /\ UNCHANGED <<current_room, sending, exists>>
    BY <1>1 DEF Handle, GatewayOK
  <2>2. /\ Tail(mailbox[r]) \in Seq(CommandsToRooms)
        /\ Len(Tail(mailbox[r])) <= Buffer
    BY <2>1, BufferAssumption DEF GatewayOK
  <2>3. GatewayOK'
    BY <2>1, <2>2 DEF GatewayOK
  <2> DEFINE command == Head(mailbox[r])
             c == command.conn
  <2>4. command \in CommandsToRooms
    BY <2>1
  <2>5. /\ c \in Conns
        /\ command.kind \in {"Join", "Resume"} => command.user \in Users
    BY <2>4 DEF CommandsToRooms
  <2>6. Next
    BY <1>1, <2>5 DEF Handle, Next, HandleReady, HandlePlayerAction
  <2> QED
    BY <2>3, <2>6
<1>2. CASE EngineReturns(r)
  BY <1>2 DEF EngineReturns, Next, GatewayOK
<1> QED
  BY <1>1, <1>2

\* Every step of the server keeps the gateway's types, and is a step of the rooms
\* or none.
LEMMA ServerStep ==
    ASSUME GatewayOK, [ServerNext]_serverVars
    PROVE  GatewayOK' /\ [Next]_vars
<1>1. CASE UNCHANGED serverVars
  <2>1. UNCHANGED vars /\ UNCHANGED <<current_room, exists, sending, mailbox>>
    BY <1>1 DEF serverVars, gateway
  <2> QED
    BY <2>1 DEF GatewayOK
<1>2. ASSUME NEW login \in Logins,
             \/ RequestJoin(login[1], login[2], login[3])
             \/ RequestResume(login[1], login[2], login[3])
             \/ RequestAction(login[1], login[3])
      PROVE  GatewayOK' /\ [Next]_vars
  BY <1>2, LoginType, RequestOK
<1>3. ASSUME NEW c \in Conns, Open(c) \/ RequestReady(c) \/ Enqueue(c) \/ Close(c)
      PROVE  GatewayOK' /\ [Next]_vars
  BY <1>3, SessionOK
<1>4. ASSUME NEW r \in Rooms, Handle(r) \/ EngineReturns(r)
      PROVE  GatewayOK' /\ [Next]_vars
  BY <1>4, RoomOK
<1> QED
  BY <1>1, <1>2, <1>3, <1>4 DEF ServerNext

LEMMA ServerInitOK == ServerInit => GatewayOK
<1> DEFINE none == <<>>
<1>1. none \in Seq(CommandsToRooms) /\ Len(none) = 0
  OBVIOUS
<1>2. ServerInit => mailbox = [r \in Rooms |-> none]
  BY DEF ServerInit
<1> HIDE DEF none
<1> QED
  BY <1>1, <1>2, BufferAssumption DEF ServerInit, GatewayOK

\* Sessions, their waits and the mailboxes put nothing to a room that RoomTask
\* does not allow for (run_room_task, send_command).
THEOREM ServerImplementsRooms == ServerSpec => Spec
<1>1. ServerInit => Init
  BY DEF ServerInit
<1>2. GatewayOK /\ [ServerNext]_serverVars => GatewayOK' /\ [Next]_vars
  BY ServerStep
<1> QED
  BY <1>1, <1>2, ServerInitOK, PTL DEF ServerSpec, Spec

\* In the running server, too, a command acts for the seat that its connection
\* holds, however late it is taken out of the mailbox (seat_for_connection).
THEOREM ServerRoutesCorrect == ServerSpec => []RouteEndsAtOwnSeat
BY ServerImplementsRooms, RoutesCorrect, PTL

\* Nor do sessions and mailboxes let a player's view of the table, as far as
\* snapshots and deltas were sent, fall behind the room (broadcast_delta).
THEOREM ServerViewsCorrect == ServerSpec => []ViewsCurrent
BY ServerImplementsRooms, ViewsCorrect, PTL

\* In the running server, too, the late Disconnect of a connection that was
\* replaced by a resume puts nobody offline (handle_disconnect).
THEOREM ServerDisconnectsCorrect == ServerSpec => OnlyOwnDisconnect
BY ServerImplementsRooms, DisconnectsCorrect, PTL

\* To the players, the rooms behind their sessions are seat tables.
THEOREM ServerRefinesSeatTable == ServerSpec => ImplementsSeatTable
BY ServerImplementsRooms, RefinesSeatTable, PTL

\* A session waits for the mailbox of a room that has a task, with a command of
\* its own, and a mailbox keeps its bound (send_command).
THEOREM ServerTypeCorrect == ServerSpec => []GatewayOK
<1>1. GatewayOK /\ [ServerNext]_serverVars => GatewayOK'
  BY ServerStep
<1> QED
  BY <1>1, ServerInitOK, PTL DEF ServerSpec

-----------------------------------------------------------------------------
(* What a command does to seats and routes.                                *)

\* For connection c of room r: it may bind seats to c, or to nothing, and route
\* c to one of some users, or drop routes.
Serves(r, c, users) ==
    /\ \A q \in Rooms, s \in Seats :
          \/ players_by_seat'[q][s].connection_id \in {players_by_seat[q][s].connection_id, None}
          \/ q = r /\ players_by_seat'[q][s].connection_id = c
    /\ \A q \in Rooms, d \in Conns :
          \/ connection_to_user'[q][d] \in {connection_to_user[q][d], None}
          \/ q = r /\ d = c /\ connection_to_user'[q][d] \in users

LEMMA TablesServe ==
    ASSUME NEW r, NEW c, NEW users, UNCHANGED tables
    PROVE  Serves(r, c, users)
BY DEF tables, Serves

\* handle_join
LEMMA JoinServes ==
    ASSUME TypeOK, NEW r \in Rooms, NEW c \in Conns, NEW u \in Users, HandleJoin(r, c, u)
    PROVE  Serves(r, c, {u})
<1>1. CASE JoinAlreadyJoined(r, c, u) \/ JoinRoomFull(r, c, u)
  BY <1>1, TablesServe DEF JoinAlreadyJoined, JoinRoomFull, OnlyAnswer
<1>2. ASSUME NEW s \in Seats, JoinSeated(r, c, u, s) PROVE Serves(r, c, {u})
  <2> DEFINE joined == [ user_id |-> u, status |-> "Joined", connected |-> TRUE,
                         auto_play_enabled |-> FALSE,
                         connection_id |-> c, outbound_tx |-> c ]
  <2>1. /\ joined.connection_id = c
        /\ players_by_seat' =
             [players_by_seat EXCEPT ![r] = [players_by_seat[r] EXCEPT ![s] = joined]]
        /\ connection_to_user' = [connection_to_user EXCEPT ![r][c] = u]
    BY <1>2 DEF JoinSeated
  <2> HIDE DEF joined
  <2> QED  BY <2>1 DEF TypeOK, Serves
<1> QED
  BY <1>1, <1>2 DEF HandleJoin

\* handle_resume
LEMMA ResumeServes ==
    ASSUME IInv, NEW r \in Rooms, NEW c \in Conns, NEW u \in Users, HandleResume(r, c, u)
    PROVE  Serves(r, c, {u})
<1>1. CASE ResumeUnknownUser(r, c, u) \/ ResumeBadToken(r, c, u)
  BY <1>1, TablesServe DEF ResumeUnknownUser, ResumeBadToken, OnlyAnswer
<1>2. CASE Resume(r, c, u)
  <2> DEFINE s == user_to_seat[r][u]
             was == players_by_seat[r]
             old == was[s].connection_id
             players == [was EXCEPT ![s].connection_id = c,
                                    ![s].outbound_tx = c,
                                    ![s].connected = TRUE]
  <2>1. /\ TypeOK /\ s # NoSeat
        /\ players_by_seat' = [players_by_seat EXCEPT ![r] = players]
        /\ connection_to_user' = [connection_to_user EXCEPT ![r] =
             RoutesAfterResume(r, c, old, players[s].user_id)]
    BY <1>2 DEF IInv, Resume
  <2>2. s \in Seats /\ was[s].user_id = u
    BY <2>1, UserSeat
  <2>3. was \in [Seats -> PlayerSlot]
    BY <2>1 DEF TypeOK
  <2>4. /\ players[s].user_id = u /\ players[s].connection_id = c
        /\ \A t \in Seats \ {s} : players[t] = was[t]
    BY <2>2, <2>3 DEF PlayerSlot
  <2>5. /\ players_by_seat'[r] = players
        /\ \A q \in Rooms \ {r} : players_by_seat'[q] = players_by_seat[q]
    BY <2>1 DEF TypeOK
  <2>6. /\ connection_to_user'[r] = RoutesAfterResume(r, c, old, u)
        /\ \A q \in Rooms \ {r} : connection_to_user'[q] = connection_to_user[q]
    BY <2>1, <2>4 DEF TypeOK
  <2>7. \A q \in Rooms, t \in Seats :
           \/ players_by_seat'[q][t].connection_id \in {players_by_seat[q][t].connection_id, None}
           \/ q = r /\ players_by_seat'[q][t].connection_id = c
    <3> HIDE DEF players, s
    <3> QED  BY <2>4, <2>5
  <2>8. \A q \in Rooms, d \in Conns :
           \/ connection_to_user'[q][d] \in {connection_to_user[q][d], None}
           \/ q = r /\ d = c /\ connection_to_user'[q][d] \in {u}
    BY <2>6 DEF RoutesAfterResume
  <2> QED  BY <2>7, <2>8 DEF Serves
<1> QED
  BY <1>1, <1>2 DEF HandleResume

\* handle_ready and handle_player_action
LEMMA FlagServes ==
    ASSUME IInv, NEW r \in Rooms, NEW c \in Conns,
           HandleReady(r, c) \/ HandlePlayerAction(r, c)
    PROVE  Serves(r, c, {})
<1>1. CASE \/ ReadyUnregistered(r, c) \/ ActionUnregistered(r, c)
           \/ ActionRefused(r, c) \/ ActionSubmitted(r, c)
  BY <1>1, TablesServe
     DEF ReadyUnregistered, ActionUnregistered, ActionRefused, ActionSubmitted, RejectSent
<1>2. CASE \/ \E status \in {"Joined", "Ready"} : Ready(r, c, status)
           \/ \E enabled \in BOOLEAN : AutoPlayToggle(r, c, enabled)
  <2> DEFINE s == SeatForConnection(r, c)
  <2>1. PICK players :
           /\ players_by_seat' = [players_by_seat EXCEPT ![r] = players]
           /\ \/ \E status \in {"Joined", "Ready"} :
                    players = [players_by_seat[r] EXCEPT ![s].status = status]
              \/ \E enabled \in BOOLEAN :
                    players = [players_by_seat[r] EXCEPT ![s].auto_play_enabled = enabled]
    BY <1>2 DEF Ready, AutoPlayToggle
  <2>2. Routed(r, c) /\ UNCHANGED connection_to_user /\ s \in Seats
    BY <1>2, RouteSeat DEF Ready, AutoPlayToggle
  <2>3. \A q \in Rooms, t \in Seats :
           players_by_seat'[q][t].connection_id = players_by_seat[q][t].connection_id
    <3>1. players_by_seat \in [Rooms -> [Seats -> PlayerSlot]]
      BY DEF IInv, TypeOK
    <3> HIDE DEF s
    <3>2. \A t \in Seats : players[t].connection_id = players_by_seat[r][t].connection_id
      <4>1. players_by_seat[r] \in [Seats -> PlayerSlot]
        BY <3>1
      <4>2. CASE \E status \in {"Joined", "Ready"} :
                    players = [players_by_seat[r] EXCEPT ![s].status = status]
        BY <2>2, <4>1, <4>2 DEF PlayerSlot
      <4>3. CASE \E enabled \in BOOLEAN :
                    players = [players_by_seat[r] EXCEPT ![s].auto_play_enabled = enabled]
        BY <2>2, <4>1, <4>3 DEF PlayerSlot
      <4> QED  BY <2>1, <4>2, <4>3
    <3> QED  BY <2>1, <3>1, <3>2
  <2> QED  BY <2>2, <2>3 DEF Serves
<1> QED
  BY <1>1, <1>2 DEF HandleReady, HandlePlayerAction

\* handle_disconnect leaves no seat bound to the connection, if no seat was
\* bound to it that it had no route to.
LEMMA DisconnectServes ==
    ASSUME OneUserIInv, NEW r \in Rooms, NEW c \in Conns, HandleDisconnect(r, c)
    PROVE  /\ Serves(r, c, {})
           /\ \A s \in Seats : players_by_seat'[r][s].connection_id # c
<1>0. TypeOK /\ BindingConsistent /\ ConnectedSeatsAreRouted
  BY DEF OneUserIInv, IInv
<1>1. CASE DisconnectUnregistered(r, c)
  <2>1. UNCHANGED tables /\ ~Routed(r, c)
    BY <1>1 DEF DisconnectUnregistered, vars
  <2>2. ASSUME NEW s \in Seats, players_by_seat[r][s].connection_id = c PROVE FALSE
    <3>1. players_by_seat[r][s].connected
      BY <1>0, <2>2, NoneAssumption DEF BindingConsistent
    <3>2. players_by_seat[r][s].user_id = None
      BY <1>0, <2>1, <2>2, <3>1 DEF ConnectedSeatsAreRouted, Routed
    <3> QED  BY <1>0, <3>1, <3>2 DEF BindingConsistent, NoPlayer
  <2> QED  BY <2>1, <2>2, TablesServe DEF tables
<1>2. CASE Disconnect(r, c)
  <2> DEFINE s == SeatForConnection(r, c)
             was == players_by_seat[r]
             players == [was EXCEPT ![s] = Unbound(@)]
  <2>1. /\ Routed(r, c)
        /\ players_by_seat' = [players_by_seat EXCEPT ![r] = players]
        /\ connection_to_user' = [connection_to_user EXCEPT ![r][c] = None]
    BY <1>2 DEF Disconnect
  <2>2. s \in Seats /\ was[s].connection_id = c /\ was[s].connected
    BY <2>1, RouteSeat DEF OneUserIInv
  <2>3. was \in [Seats -> PlayerSlot]
    BY <1>0 DEF TypeOK
  <2>4. /\ players[s].connection_id = None
        /\ \A t \in Seats \ {s} : players[t] = was[t]
    BY <2>2, <2>3 DEF Unbound, PlayerSlot
  <2>5. \A t \in Seats \ {s} : was[t].connection_id # c
    <3> SUFFICES ASSUME NEW t \in Seats \ {s}, was[t].connection_id = c PROVE FALSE
      OBVIOUS
    <3>1. was[t].connected
      BY <1>0, NoneAssumption DEF BindingConsistent
    <3> QED  BY <2>2, <3>1, OneSeatPerConnection
  <2>6. /\ players_by_seat'[r] = players
        /\ \A q \in Rooms \ {r} : players_by_seat'[q] = players_by_seat[q]
    BY <1>0, <2>1 DEF TypeOK
  <2>7. \A q \in Rooms, d \in Conns :
           connection_to_user'[q][d] \in {connection_to_user[q][d], None}
    BY <1>0, <2>1 DEF TypeOK
  <2> HIDE DEF players, s
  <2>8. \A q \in Rooms, t \in Seats :
           players_by_seat'[q][t].connection_id \in {players_by_seat[q][t].connection_id, None}
    BY <2>4, <2>6
  <2>9. \A t \in Seats : players_by_seat'[r][t].connection_id # c
    BY <2>4, <2>5, <2>6, NoneAssumption
  <2> QED  BY <2>7, <2>8, <2>9 DEF Serves
<1> QED
  BY <1>1, <1>2 DEF HandleDisconnect

-----------------------------------------------------------------------------
(* Sessions that have ended.                                               *)

\* Clients that use one connection for one user, in whatever rooms.
OneUserLogins == \A one, other \in Logins : one[1] = other[1] => one[2] = other[2]

LoggedIn(c, u) == \E login \in Logins : login[1] = c /\ login[2] = u

OfLogin(command) == command.kind \in {"Join", "Resume"} => LoggedIn(command.conn, command.user)

\* Users get into rooms by logins only.
LoginsAreKept ==
    /\ \A c \in Conns : OfLogin(sending[c])
    /\ \A r \in Rooms : \A i \in 1 .. Len(mailbox[r]) : OfLogin(mailbox[r][i])
    /\ \A r \in Rooms, c \in Conns : Routed(r, c) => LoggedIn(c, connection_to_user[r][c])

\* The Disconnect of a session is the last that it sends.
SessionsEnd ==
    /\ session \in [Conns -> {"new", "open", "closing", "gone"}]
    /\ \A c \in Conns :
          /\ sending[c].kind = "Disconnect" => session[c] = "closing"
          /\ session[c] = "closing" => sending[c] = Command("Disconnect", c, None)
          /\ session[c] = "gone" => sending[c] = NoCommand
    /\ \A r \in Rooms : \A i \in 1 .. Len(mailbox[r]) :
          mailbox[r][i].kind = "Disconnect" =>
              /\ session[mailbox[r][i].conn] = "gone"
              /\ \A j \in i + 1 .. Len(mailbox[r]) : mailbox[r][j].conn # mailbox[r][i].conn

\* A room that has no task has nothing to do and nobody in it.
RoomsBegin ==
    \A r \in Rooms \ exists :
        /\ mailbox[r] = <<>>
        /\ \A s \in Seats : players_by_seat[r][s].connection_id = None

DisconnectWaits(r, c) ==
    \E i \in 1 .. Len(mailbox[r]) : mailbox[r][i] = Command("Disconnect", c, None)

HasLeft(r, c) ==
    /\ \A s \in Seats : players_by_seat[r][s].connection_id # c
    /\ \A i \in 1 .. Len(mailbox[r]) : mailbox[r][i].conn # c

\* A room that a session ended in is done with it or is about to hear of it.
GoneAreReleased ==
    \A c \in Conns, r \in Rooms :
        session[c] = "gone" /\ current_room[c] = r => DisconnectWaits(r, c) \/ HasLeft(r, c)

EndingIInv ==
    OneUserIInv /\ GatewayOK /\ LoginsAreKept /\ SessionsEnd /\ RoomsBegin /\ GoneAreReleased

\* A request, or none, of a session in its loop.
LEMMA RequestEnds ==
    ASSUME EndingIInv, NEW c \in Conns, session[c] = "open", NEW r \in Rooms,
           UNCHANGED <<vars, session, mailbox>>, exists \subseteq exists',
           current_room' = [current_room EXCEPT ![c] = r],
           \/ UNCHANGED sending
           \/ \E kind \in {"Join", "Resume", "Ready", "Action"}, u \in Users \cup {None} :
                 /\ sending' = [sending EXCEPT ![c] = Command(kind, c, u)]
                 /\ kind \in {"Join", "Resume"} => LoggedIn(c, u)
    PROVE  LoginsAreKept' /\ SessionsEnd' /\ RoomsBegin' /\ GoneAreReleased'
<1>0. /\ LoginsAreKept /\ SessionsEnd /\ RoomsBegin /\ GoneAreReleased
      /\ sending \in [Conns -> CommandsToRooms \cup {NoCommand}]
      /\ current_room \in [Conns -> Rooms \cup {None}]
      /\ UNCHANGED players_by_seat /\ UNCHANGED connection_to_user
  BY DEF EndingIInv, GatewayOK, vars, tables
<1>1. /\ \A d \in Conns \ {c} : sending'[d] = sending[d] /\ current_room'[d] = current_room[d]
      /\ \/ sending'[c] = sending[c]
         \/ /\ sending'[c].kind # "Disconnect"
            /\ OfLogin(sending'[c])
  BY <1>0 DEF Command, OfLogin
<1>2. LoginsAreKept'
  BY <1>0, <1>1 DEF LoginsAreKept, Routed
<1>3. SessionsEnd'
  BY <1>0, <1>1 DEF SessionsEnd
<1>4. RoomsBegin'
  BY <1>0 DEF RoomsBegin
<1>5. GoneAreReleased'
  BY <1>0, <1>1 DEF GoneAreReleased, DisconnectWaits, HasLeft
<1> QED
  BY <1>2, <1>3, <1>4, <1>5

\* The requests that name a room, by a login.
LEMMA LoginEnds ==
    ASSUME EndingIInv, NEW login \in Logins,
           \/ RequestJoin(login[1], login[2], login[3])
           \/ RequestResume(login[1], login[2], login[3])
           \/ RequestAction(login[1], login[3])
    PROVE  LoginsAreKept' /\ SessionsEnd' /\ RoomsBegin' /\ GoneAreReleased'
<1> DEFINE c == login[1]
           u == login[2]
           r == login[3]
<1>1. c \in Conns /\ u \in Users /\ r \in Rooms /\ LoggedIn(c, u)
  BY LoginType DEF LoggedIn
<1>2. /\ session[c] = "open"
      /\ UNCHANGED <<vars, session, mailbox>> /\ exists \subseteq exists'
      /\ current_room' = [current_room EXCEPT ![c] = r]
  BY DEF RequestJoin, RequestResume, RequestAction, Reads, Remembers
<1>3. \/ UNCHANGED sending
      \/ sending' = [sending EXCEPT ![c] = Command("Join", c, u)]
      \/ sending' = [sending EXCEPT ![c] = Command("Resume", c, u)]
      \/ sending' = [sending EXCEPT ![c] = Command("Action", c, None)]
  BY DEF RequestJoin, RequestResume, RequestAction, DispatchedIfExists, Dispatched
<1> HIDE DEF c, u, r
<1> QED
  BY <1>1, <1>2, <1>3, RequestEnds

\* A ReadyRequest goes to the room that is remembered.
LEMMA ReadyEnds ==
    ASSUME EndingIInv, NEW c \in Conns, RequestReady(c)
    PROVE  LoginsAreKept' /\ SessionsEnd' /\ RoomsBegin' /\ GoneAreReleased'
<1> DEFINE r == current_room[c]
<1>1. current_room \in [Conns -> Rooms \cup {None}]
  BY DEF EndingIInv, GatewayOK
<1>2. /\ session[c] = "open" /\ r # None
      /\ UNCHANGED <<vars, session, mailbox>> /\ UNCHANGED exists /\ UNCHANGED current_room
      /\ \/ UNCHANGED sending
         \/ sending' = [sending EXCEPT ![c] = Command("Ready", c, None)]
  BY DEF RequestReady, Reads, DispatchedIfExists, Dispatched
<1>3. r \in Rooms /\ current_room' = [current_room EXCEPT ![c] = r]
  BY <1>1, <1>2
<1> HIDE DEF r
<1> QED
  BY <1>2, <1>3, RequestEnds

LEMMA OpenEnds ==
    ASSUME EndingIInv, NEW c \in Conns, Open(c)
    PROVE  LoginsAreKept' /\ SessionsEnd' /\ RoomsBegin' /\ GoneAreReleased'
<1>0. /\ LoginsAreKept /\ SessionsEnd /\ RoomsBegin /\ GoneAreReleased
      /\ UNCHANGED players_by_seat /\ UNCHANGED connection_to_user
      /\ UNCHANGED <<current_room, sending, exists, mailbox>>
  BY DEF EndingIInv, Open, vars, tables
<1>1. /\ session[c] = "new" /\ session'[c] = "open"
      /\ \A d \in Conns \ {c} : session'[d] = session[d]
      /\ session' \in [Conns -> {"new", "open", "closing", "gone"}]
  BY <1>0 DEF Open, SessionsEnd
<1>2. LoginsAreKept'
  BY <1>0 DEF LoginsAreKept, Routed
<1>3. SessionsEnd'
  <2>1. \A r \in Rooms : \A i \in 1 .. Len(mailbox[r]) : mailbox[r][i].conn \in Conns
    BY DEF EndingIInv, GatewayOK, CommandsToRooms
  <2> QED  BY <1>0, <1>1, <2>1 DEF SessionsEnd
<1>4. RoomsBegin'
  BY <1>0 DEF RoomsBegin
<1>5. GoneAreReleased'
  BY <1>0, <1>1 DEF GoneAreReleased, DisconnectWaits, HasLeft
<1> QED
  BY <1>2, <1>3, <1>4, <1>5

\* The end of the socket.
LEMMA CloseEnds ==
    ASSUME EndingIInv, NEW c \in Conns, Close(c)
    PROVE  LoginsAreKept' /\ SessionsEnd' /\ RoomsBegin' /\ GoneAreReleased'
<1>0. /\ LoginsAreKept /\ SessionsEnd /\ RoomsBegin /\ GoneAreReleased
      /\ sending \in [Conns -> CommandsToRooms \cup {NoCommand}]
      /\ UNCHANGED players_by_seat /\ UNCHANGED connection_to_user
      /\ UNCHANGED <<current_room, exists, mailbox>>
      /\ session[c] = "open" /\ sending[c] = NoCommand
  BY DEF EndingIInv, GatewayOK, Close, vars, tables
<1>1. \A r \in Rooms : \A i \in 1 .. Len(mailbox[r]) : mailbox[r][i].conn \in Conns
  BY DEF EndingIInv, GatewayOK, CommandsToRooms
<1>2. /\ \A d \in Conns \ {c} : session'[d] = session[d] /\ sending'[d] = sending[d]
      /\ session' \in [Conns -> {"new", "open", "closing", "gone"}]
      /\ \/ session'[c] = "closing" /\ sending'[c] = Command("Disconnect", c, None)
         \/ session'[c] = "gone" /\ sending'[c] = NoCommand /\ current_room[c] \notin exists
  BY <1>0 DEF Close, SessionsEnd
<1>3. LoginsAreKept'
  <2>1. OfLogin(Command("Disconnect", c, None)) /\ OfLogin(NoCommand)
    BY DEF OfLogin, Command, NoCommand
  <2> QED  BY <1>0, <1>2, <2>1 DEF LoginsAreKept, Routed
<1>4. SessionsEnd'
  BY <1>0, <1>1, <1>2 DEF SessionsEnd, NoCommand, Command
<1>5. RoomsBegin'
  BY <1>0 DEF RoomsBegin
<1>6. GoneAreReleased'
  <2> SUFFICES ASSUME NEW d \in Conns, NEW r \in Rooms, session'[d] = "gone", current_room[d] = r
               PROVE  DisconnectWaits(r, d) \/ HasLeft(r, d)
    BY <1>0 DEF GoneAreReleased, DisconnectWaits, HasLeft
  <2>1. CASE d = c
    <3>1. mailbox[r] = <<>> /\ \A s \in Seats : players_by_seat[r][s].connection_id = None
      BY <1>0, <1>2, <2>1 DEF RoomsBegin
    <3>2. Len(mailbox[r]) = 0
      BY <3>1
    <3> QED  BY <3>1, <3>2, NoneAssumption DEF HasLeft
  <2>2. CASE d # c
    BY <1>0, <1>2, <2>2 DEF GoneAreReleased
  <2> QED  BY <2>1, <2>2
<1> QED
  BY <1>3, <1>4, <1>5, <1>6

\* There is a place in the mailbox.
LEMMA EnqueueEnds ==
    ASSUME EndingIInv, NEW c \in Conns, Enqueue(c)
    PROVE  LoginsAreKept' /\ SessionsEnd' /\ RoomsBegin' /\ GoneAreReleased'
<1> DEFINE r == current_room[c]
           n == Len(mailbox[r])
<1>0. /\ LoginsAreKept /\ SessionsEnd /\ RoomsBegin /\ GoneAreReleased
      /\ sending \in [Conns -> CommandsToRooms \cup {NoCommand}]
      /\ mailbox \in [Rooms -> Seq(CommandsToRooms)]
      /\ UNCHANGED players_by_seat /\ UNCHANGED connection_to_user
      /\ UNCHANGED <<current_room, exists>>
      /\ sending[c] # NoCommand /\ sending[c].conn = c
      /\ sending' = [sending EXCEPT ![c] = NoCommand]
      /\ mailbox' = [mailbox EXCEPT ![r] = Append(mailbox[r], sending[c])]
      /\ session' = [session EXCEPT ![c] = IF session[c] = "closing" THEN "gone" ELSE session[c]]
  BY DEF EndingIInv, GatewayOK, Enqueue, vars, tables
<1>1. r \in Rooms /\ r \in exists
  BY <1>0 DEF EndingIInv, GatewayOK
<1>2. \A q \in Rooms : \A i \in 1 .. Len(mailbox[q]) : mailbox[q][i].conn \in Conns
  BY DEF EndingIInv, GatewayOK, CommandsToRooms
<1>3. /\ \A d \in Conns \ {c} : session'[d] = session[d] /\ sending'[d] = sending[d]
      /\ session' \in [Conns -> {"new", "open", "closing", "gone"}]
      /\ sending'[c] = NoCommand
      /\ session[c] # "gone"
      /\ session'[c] # "closing"
      /\ session'[c] = "gone" => sending[c] = Command("Disconnect", c, None)
      /\ sending[c].kind = "Disconnect" => session'[c] = "gone"
  BY <1>0 DEF SessionsEnd
<1> HIDE DEF r
<1>4. /\ \A q \in Rooms \ {r} : mailbox'[q] = mailbox[q]
      /\ n \in Nat /\ Len(mailbox'[r]) = n + 1
      /\ \A i \in 1 .. n : mailbox'[r][i] = mailbox[r][i]
      /\ mailbox'[r][n + 1] = sending[c]
  <2>1. /\ mailbox'[r] = Append(mailbox[r], sending[c])
        /\ \A q \in Rooms \ {r} : mailbox'[q] = mailbox[q]
    BY <1>0, <1>1
  <2>2. mailbox[r] \in Seq(CommandsToRooms) /\ sending[c] \in CommandsToRooms
    BY <1>0, <1>1
  <2> QED  BY <2>1, <2>2, AppendProperties
<1> HIDE DEF n
<1>5. LoginsAreKept'
  <2>1. OfLogin(NoCommand)
    BY DEF OfLogin, Command, NoCommand
  <2>2. \A q \in Rooms : \A i \in 1 .. Len(mailbox'[q]) : OfLogin(mailbox'[q][i])
    <3> SUFFICES ASSUME NEW q \in Rooms, NEW i \in 1 .. Len(mailbox'[q])
                 PROVE  OfLogin(mailbox'[q][i])
      OBVIOUS
    <3>1. CASE q = r /\ i = n + 1
      BY <1>0, <1>4, <3>1 DEF LoginsAreKept
    <3>2. CASE q = r /\ i # n + 1
      BY <1>0, <1>1, <1>4, <3>2 DEF LoginsAreKept, n
    <3>3. CASE q # r
      BY <1>0, <1>4, <3>3 DEF LoginsAreKept
    <3> QED  BY <3>1, <3>2, <3>3
  <2>3. \A d \in Conns : OfLogin(sending'[d])
    BY <1>0, <1>3, <2>1 DEF LoginsAreKept
  <2> QED  BY <1>0, <2>2, <2>3 DEF LoginsAreKept, Routed
<1>6. SessionsEnd'
  <2>1. ASSUME NEW q \in Rooms, NEW i \in 1 .. Len(mailbox'[q]), mailbox'[q][i].kind = "Disconnect"
        PROVE  /\ session'[mailbox'[q][i].conn] = "gone"
               /\ \A j \in i + 1 .. Len(mailbox'[q]) : mailbox'[q][j].conn # mailbox'[q][i].conn
    <3>1. CASE q = r /\ i = n + 1
      BY <1>0, <1>3, <1>4, <2>1, <3>1
    <3>2. CASE ~(q = r /\ i = n + 1)
      <4>1. i \in 1 .. Len(mailbox[q]) /\ mailbox'[q][i] = mailbox[q][i]
        BY <1>4, <3>2 DEF n
      <4>2. /\ session[mailbox[q][i].conn] = "gone"
            /\ \A j \in i + 1 .. Len(mailbox[q]) : mailbox[q][j].conn # mailbox[q][i].conn
        BY <1>0, <2>1, <4>1 DEF SessionsEnd
      <4>3. mailbox[q][i].conn \in Conns \ {c}
        BY <1>2, <1>3, <4>1, <4>2
      <4>4. session'[mailbox[q][i].conn] = "gone"
        BY <1>3, <4>2, <4>3
      <4>5. ASSUME NEW j \in i + 1 .. Len(mailbox'[q])
            PROVE  mailbox'[q][j].conn # mailbox[q][i].conn
        <5>1. CASE q = r /\ j = n + 1
          BY <1>0, <1>4, <4>3, <5>1
        <5>2. CASE ~(q = r /\ j = n + 1)
          <6>1. j \in i + 1 .. Len(mailbox[q]) /\ mailbox'[q][j] = mailbox[q][j]
            BY <1>4, <4>1, <5>2 DEF n
          <6> QED  BY <4>2, <6>1
        <5> QED  BY <5>1, <5>2
      <4> QED  BY <4>1, <4>4, <4>5
    <3> QED  BY <3>1, <3>2
  <2>2. \A d \in Conns :
          /\ sending'[d].kind = "Disconnect" => session'[d] = "closing"
          /\ session'[d] = "closing" => sending'[d] = Command("Disconnect", d, None)
          /\ session'[d] = "gone" => sending'[d] = NoCommand
    BY <1>0, <1>3 DEF SessionsEnd, NoCommand, Command
  <2> QED  BY <1>3, <2>1, <2>2 DEF SessionsEnd
<1>7. RoomsBegin'
  BY <1>0, <1>1, <1>4 DEF RoomsBegin
<1>8. GoneAreReleased'
  <2> SUFFICES ASSUME NEW d \in Conns, NEW q \in Rooms, session'[d] = "gone", current_room[d] = q
               PROVE  DisconnectWaits(q, d)' \/ HasLeft(q, d)'
    BY <1>0 DEF GoneAreReleased
  <2>1. CASE d = c
    <3>1. mailbox'[r][n + 1] = Command("Disconnect", c, None) /\ q = r
      BY <1>3, <1>4, <2>1 DEF r
    <3> QED  BY <1>4, <2>1, <3>1 DEF DisconnectWaits
  <2>2. CASE d # c
    <3>1. DisconnectWaits(q, d) \/ HasLeft(q, d)
      BY <1>0, <1>3, <2>2 DEF GoneAreReleased
    <3>2. DisconnectWaits(q, d) => DisconnectWaits(q, d)'
      BY <1>4 DEF DisconnectWaits, n
    <3>3. HasLeft(q, d) => HasLeft(q, d)'
      BY <1>0, <1>4, <2>2 DEF HasLeft, n
    <3> QED  BY <3>1, <3>2, <3>3
  <2> QED  BY <2>1, <2>2
<1> QED
  BY <1>5, <1>6, <1>7, <1>8

\* The next command of a room: with these clients it is one that SpecOneUser
\* allows for.
LEMMA HandleServes ==
    ASSUME OneUserLogins, EndingIInv, NEW r \in Rooms, Handle(r)
    PROVE  /\ NextOneUser
           /\ Serves(r, Head(mailbox[r]).conn, {u \in Users : LoggedIn(Head(mailbox[r]).conn, u)})
           /\ Head(mailbox[r]).kind = "Disconnect" =>
                 \A s \in Seats : players_by_seat'[r][s].connection_id # Head(mailbox[r]).conn
<1> DEFINE command == Head(mailbox[r])
           c == command.conn
           u == command.user
           users == {v \in Users : LoggedIn(c, v)}
<1> SUFFICES /\ NextOneUser /\ Serves(r, c, users)
             /\ command.kind = "Disconnect" =>
                   \A s \in Seats : players_by_seat'[r][s].connection_id # c
  OBVIOUS
<1>0. /\ OneUserIInv /\ IInv /\ TypeOK /\ LoginsAreKept
      /\ mailbox[r] \in Seq(CommandsToRooms) /\ mailbox[r] # <<>>
  BY DEF EndingIInv, GatewayOK, OneUserIInv, IInv, Handle
<1>1. command \in CommandsToRooms /\ OfLogin(command)
  <2>1. 1 \in 1 .. Len(mailbox[r]) /\ command = mailbox[r][1] /\ command \in CommandsToRooms
    BY <1>0
  <2> QED  BY <1>0, <2>1 DEF LoginsAreKept
<1>2. c \in Conns /\ (command.kind \in {"Join", "Resume"} => u \in Users /\ LoggedIn(c, u))
  BY <1>1 DEF CommandsToRooms, OfLogin
<1>3. \/ command.kind = "Join" /\ HandleJoin(r, c, u)
      \/ command.kind = "Resume" /\ HandleResume(r, c, u)
      \/ command.kind = "Ready" /\ HandleReady(r, c)
      \/ command.kind = "Action" /\ HandlePlayerAction(r, c)
      \/ command.kind = "Disconnect" /\ HandleDisconnect(r, c)
  BY DEF Handle, HandleReady, HandlePlayerAction
<1> HIDE DEF command, c, u
<1>4. ASSUME u \in Users, LoggedIn(c, u) PROVE OneUserPerConnection(r, c, u) /\ u \in users
  <2>1. Routed(r, c) => LoggedIn(c, connection_to_user[r][c])
    BY <1>0, <1>2 DEF LoginsAreKept
  <2> QED  BY <1>4, <2>1 DEF OneUserPerConnection, Routed, OneUserLogins, LoggedIn
<1>5. \A some : Serves(r, c, some) /\ some \subseteq users => Serves(r, c, users)
  BY DEF Serves
<1> HIDE DEF users
<1>6. CASE command.kind = "Join" /\ HandleJoin(r, c, u)
  BY <1>0, <1>2, <1>4, <1>5, <1>6, JoinServes DEF NextOneUser
<1>7. CASE command.kind = "Resume" /\ HandleResume(r, c, u)
  BY <1>0, <1>2, <1>4, <1>5, <1>7, ResumeServes DEF NextOneUser
<1>8. CASE \/ command.kind = "Ready" /\ HandleReady(r, c)
           \/ command.kind = "Action" /\ HandlePlayerAction(r, c)
  BY <1>0, <1>2, <1>5, <1>8, FlagServes DEF NextOneUser
<1>9. CASE command.kind = "Disconnect" /\ HandleDisconnect(r, c)
  BY <1>0, <1>2, <1>5, <1>9, DisconnectServes DEF NextOneUser
<1> QED
  BY <1>3, <1>6, <1>7, <1>8, <1>9

\* With what is behind it in the mailbox.
LEMMA HandleEnds ==
    ASSUME OneUserLogins, EndingIInv, NEW r \in Rooms, Handle(r)
    PROVE  LoginsAreKept' /\ SessionsEnd' /\ RoomsBegin' /\ GoneAreReleased'
<1> DEFINE command == Head(mailbox[r])
           n == Len(mailbox[r])
           users == {u \in Users : LoggedIn(command.conn, u)}
<1>0. /\ LoginsAreKept /\ SessionsEnd /\ RoomsBegin /\ GoneAreReleased
      /\ TypeOK /\ exists \subseteq Rooms
      /\ mailbox \in [Rooms -> Seq(CommandsToRooms)] /\ mailbox[r] # <<>>
      /\ UNCHANGED <<session, current_room, sending, exists>>
      /\ mailbox' = [mailbox EXCEPT ![r] = Tail(mailbox[r])]
  BY DEF EndingIInv, GatewayOK, OneUserIInv, IInv, Handle
<1>1. /\ Serves(r, command.conn, users)
      /\ command.kind = "Disconnect" =>
            \A s \in Seats : players_by_seat'[r][s].connection_id # command.conn
  BY HandleServes
<1>2. /\ \A q \in Rooms \ {r} : mailbox'[q] = mailbox[q]
      /\ n \in Nat \ {0} /\ Len(mailbox'[r]) = n - 1
      /\ \A i \in 1 .. n - 1 : mailbox'[r][i] = mailbox[r][i + 1]
      /\ command = mailbox[r][1]
  <2>1. /\ mailbox'[r] = Tail(mailbox[r])
        /\ \A q \in Rooms \ {r} : mailbox'[q] = mailbox[q]
    BY <1>0
  <2>2. mailbox[r] \in Seq(CommandsToRooms)
    BY <1>0
  <2> QED  BY <1>0, <2>1, <2>2, HeadTailProperties
\* Where a command of the mailbox was before.
<1>3. ASSUME NEW q \in Rooms, NEW i \in 1 .. Len(mailbox'[q])
      PROVE  \E k \in {0, 1} :
                /\ i + k \in 1 .. Len(mailbox[q])
                /\ \A j \in i .. Len(mailbox'[q]) :
                      j + k \in i + k .. Len(mailbox[q]) /\ mailbox'[q][j] = mailbox[q][j + k]
  <2>0. Len(mailbox[q]) \in Nat /\ Len(mailbox'[q]) \in Nat
    BY <1>0
  <2>1. CASE q = r
    <3>1. /\ i + 1 \in 1 .. Len(mailbox[q])
          /\ \A j \in i .. Len(mailbox'[q]) :
                j + 1 \in i + 1 .. Len(mailbox[q]) /\ mailbox'[q][j] = mailbox[q][j + 1]
      BY <1>2, <2>0, <2>1
    <3> QED  BY <3>1
  <2>2. CASE q # r
    <3>1. /\ i + 0 \in 1 .. Len(mailbox[q])
          /\ \A j \in i .. Len(mailbox'[q]) :
                j + 0 \in i + 0 .. Len(mailbox[q]) /\ mailbox'[q][j] = mailbox[q][j + 0]
      BY <1>2, <2>0, <2>2
    <3> QED  BY <3>1
  <2> QED  BY <2>1, <2>2
<1> HIDE DEF command, n, users
<1>4. LoginsAreKept'
  <2>1. \A q \in Rooms : \A i \in 1 .. Len(mailbox'[q]) : OfLogin(mailbox'[q][i])
    <3> SUFFICES ASSUME NEW q \in Rooms, NEW i \in 1 .. Len(mailbox'[q])
                 PROVE  OfLogin(mailbox'[q][i])
      OBVIOUS
    <3>1. PICK k \in {0, 1} : /\ i + k \in 1 .. Len(mailbox[q])
                              /\ mailbox'[q][i] = mailbox[q][i + k]
      <4>1. i \in i .. Len(mailbox'[q])
        BY <1>0
      <4> QED  BY <1>3, <4>1
    <3> QED  BY <1>0, <3>1 DEF LoginsAreKept
  <2>2. ASSUME NEW q \in Rooms, NEW d \in Conns, connection_to_user'[q][d] # None
        PROVE  LoggedIn(d, connection_to_user'[q][d])
    BY <1>0, <1>1, <2>2 DEF Serves, LoginsAreKept, Routed, users
  <2> QED  BY <1>0, <2>1, <2>2 DEF LoginsAreKept, Routed
<1>5. SessionsEnd'
  <2>1. ASSUME NEW q \in Rooms, NEW i \in 1 .. Len(mailbox'[q]), mailbox'[q][i].kind = "Disconnect"
        PROVE  /\ session[mailbox'[q][i].conn] = "gone"
               /\ \A j \in i + 1 .. Len(mailbox'[q]) : mailbox'[q][j].conn # mailbox'[q][i].conn
    <3>1. PICK k \in {0, 1} :
             /\ i + k \in 1 .. Len(mailbox[q])
             /\ \A j \in i .. Len(mailbox'[q]) :
                   j + k \in i + k .. Len(mailbox[q]) /\ mailbox'[q][j] = mailbox[q][j + k]
      BY <1>3
    <3>2. mailbox'[q][i] = mailbox[q][i + k]
      BY <1>0, <3>1
    <3>3. /\ session[mailbox[q][i + k].conn] = "gone"
          /\ \A j \in i + k + 1 .. Len(mailbox[q]) : mailbox[q][j].conn # mailbox[q][i + k].conn
      BY <1>0, <2>1, <3>1, <3>2 DEF SessionsEnd
    <3>4. ASSUME NEW j \in i + 1 .. Len(mailbox'[q])
          PROVE  mailbox'[q][j].conn # mailbox[q][i + k].conn
      <4>1. j \in i .. Len(mailbox'[q]) /\ Len(mailbox[q]) \in Nat
        BY <1>0
      <4>2. j + k \in i + k + 1 .. Len(mailbox[q]) /\ mailbox'[q][j] = mailbox[q][j + k]
        BY <3>1, <4>1
      <4> QED  BY <3>3, <4>2
    <3> QED  BY <3>2, <3>3, <3>4
  <2> QED  BY <1>0, <2>1 DEF SessionsEnd
<1>6. RoomsBegin'
  <2> SUFFICES ASSUME NEW q \in Rooms \ exists
               PROVE  /\ mailbox'[q] = <<>>
                      /\ \A s \in Seats : players_by_seat'[q][s].connection_id = None
    BY <1>0 DEF RoomsBegin
  <2>1. mailbox[q] = <<>> /\ \A s \in Seats : players_by_seat[q][s].connection_id = None
    BY <1>0 DEF RoomsBegin
  <2>2. q # r
    BY <1>0, <2>1
  <2> QED  BY <1>1, <1>2, <2>1, <2>2 DEF Serves
<1>7. GoneAreReleased'
  <2> SUFFICES ASSUME NEW d \in Conns, NEW q \in Rooms, session[d] = "gone", current_room[d] = q
               PROVE  DisconnectWaits(q, d)' \/ HasLeft(q, d)'
    BY <1>0 DEF GoneAreReleased
  <2>1. DisconnectWaits(q, d) \/ HasLeft(q, d)
    BY <1>0 DEF GoneAreReleased
  <2>2. CASE HasLeft(q, d)
    <3>1. q = r => command.conn # d
      BY <1>2, <2>2 DEF HasLeft, n
    <3>2. \A s \in Seats : players_by_seat'[q][s].connection_id # d
      BY <1>1, <2>2, <3>1, NoneAssumption DEF Serves, HasLeft
    <3>3. ASSUME NEW i \in 1 .. Len(mailbox'[q]) PROVE mailbox'[q][i].conn # d
      <4>1. PICK k \in {0, 1} : /\ i + k \in 1 .. Len(mailbox[q])
                                /\ mailbox'[q][i] = mailbox[q][i + k]
        <5>1. i \in i .. Len(mailbox'[q])
          BY <1>0
        <5> QED  BY <1>3, <5>1
      <4> QED  BY <2>2, <4>1 DEF HasLeft
    <3> QED  BY <3>2, <3>3 DEF HasLeft
  <2>3. CASE DisconnectWaits(q, d)
    <3>1. PICK i \in 1 .. Len(mailbox[q]) : mailbox[q][i] = Command("Disconnect", d, None)
      BY <2>3 DEF DisconnectWaits
    <3>2. CASE q # r
      BY <1>2, <3>1, <3>2 DEF DisconnectWaits
    <3>3. CASE q = r /\ i # 1
      <4>1. i - 1 \in 1 .. Len(mailbox'[r]) /\ mailbox'[r][i - 1] = mailbox[r][i]
        BY <1>2, <3>1, <3>3 DEF n
      <4> QED  BY <3>1, <3>3, <4>1 DEF DisconnectWaits
    <3>4. CASE q = r /\ i = 1
      <4>1. command.kind = "Disconnect" /\ command.conn = d
        BY <1>2, <3>1, <3>4 DEF Command
      <4>2. \A s \in Seats : players_by_seat'[r][s].connection_id # d
        BY <1>1, <4>1
      <4>3. ASSUME NEW j \in 2 .. n PROVE mailbox[r][j].conn # d
        <5>1. 1 \in 1 .. Len(mailbox[r]) /\ j \in 1 + 1 .. Len(mailbox[r])
          BY <1>2 DEF n
        <5> QED  BY <1>0, <1>2, <4>1, <5>1 DEF SessionsEnd
      <4>4. ASSUME NEW j \in 1 .. Len(mailbox'[r]) PROVE mailbox'[r][j].conn # d
        <5>1. mailbox'[r][j] = mailbox[r][j + 1] /\ j + 1 \in 2 .. n
          BY <1>2, <4>4
        <5> QED  BY <4>3, <5>1
      <4> QED  BY <3>4, <4>2, <4>4 DEF HasLeft
    <3> QED  BY <3>2, <3>3, <3>4
  <2> QED  BY <2>1, <2>2, <2>3
<1> QED
  BY <1>4, <1>5, <1>6, <1>7

\* The rule engine answers, or nothing happens.
LEMMA QuietEnds ==
    ASSUME EndingIInv, UNCHANGED <<tables, session, current_room, sending, exists, mailbox>>
    PROVE  LoginsAreKept' /\ SessionsEnd' /\ RoomsBegin' /\ GoneAreReleased'
<1>1. /\ LoginsAreKept /\ SessionsEnd /\ RoomsBegin /\ GoneAreReleased
      /\ UNCHANGED <<players_by_seat, connection_to_user>>
  BY DEF EndingIInv, tables
<1>2. LoginsAreKept'
  BY <1>1 DEF LoginsAreKept, Routed
<1>3. SessionsEnd'
  BY <1>1 DEF SessionsEnd
<1>4. RoomsBegin' /\ GoneAreReleased'
  BY <1>1 DEF RoomsBegin, GoneAreReleased, DisconnectWaits, HasLeft
<1> QED
  BY <1>2, <1>3, <1>4

\* The server's steps are those that SpecOneUser allows for.
LEMMA EndingStep ==
    ASSUME OneUserLogins, EndingIInv, [ServerNext]_serverVars
    PROVE  EndingIInv' /\ [NextOneUser]_vars
<1> DEFINE Ends == LoginsAreKept' /\ SessionsEnd' /\ RoomsBegin' /\ GoneAreReleased'
<1>0. GatewayOK'
  BY ServerStep DEF EndingIInv
<1> SUFFICES Ends /\ [NextOneUser]_vars
  BY <1>0, OneUserStep DEF EndingIInv
<1> HIDE DEF Ends
<1>1. CASE UNCHANGED serverVars
  <2>1. UNCHANGED vars /\ UNCHANGED <<tables, session, current_room, sending, exists, mailbox>>
    BY <1>1 DEF serverVars, gateway, vars
  <2> QED  BY <2>1, QuietEnds DEF Ends
<1>2. ASSUME NEW login \in Logins,
             \/ RequestJoin(login[1], login[2], login[3])
             \/ RequestResume(login[1], login[2], login[3])
             \/ RequestAction(login[1], login[3])
      PROVE  Ends /\ [NextOneUser]_vars
  <2>1. UNCHANGED vars
    BY <1>2 DEF RequestJoin, RequestResume, RequestAction
  <2> QED  BY <1>2, <2>1, LoginEnds DEF Ends
<1>3. ASSUME NEW c \in Conns, Open(c) \/ RequestReady(c) \/ Enqueue(c) \/ Close(c)
      PROVE  Ends /\ [NextOneUser]_vars
  <2>1. UNCHANGED vars
    BY <1>3 DEF Open, RequestReady, Enqueue, Close
  <2> QED  BY <1>3, <2>1, OpenEnds, ReadyEnds, EnqueueEnds, CloseEnds DEF Ends
<1>4. ASSUME NEW r \in Rooms, Handle(r) PROVE Ends /\ [NextOneUser]_vars
  BY <1>4, HandleServes, HandleEnds DEF Ends
<1>5. ASSUME NEW r \in Rooms, EngineReturns(r) PROVE Ends /\ [NextOneUser]_vars
  <2>1. NextOneUser /\ UNCHANGED <<tables, session, current_room, sending, exists, mailbox>>
    BY <1>5 DEF EngineReturns, ActionVerdict, RejectSent, NextOneUser
  <2> QED  BY <2>1, QuietEnds DEF Ends
<1> QED
  BY <1>1, <1>2, <1>3, <1>4, <1>5 DEF ServerNext

LEMMA EndingInit == ServerInit => EndingIInv
<1> SUFFICES ASSUME ServerInit PROVE EndingIInv
  OBVIOUS
<1>1. /\ Init /\ mailbox = [r \in Rooms |-> <<>>]
      /\ session = [c \in Conns |-> "new"] /\ sending = [c \in Conns |-> NoCommand]
      /\ players_by_seat = [r \in Rooms |-> [s \in Seats |-> NoPlayer]]
      /\ connection_to_user = [r \in Rooms |-> [c \in Conns |-> None]]
  BY DEF ServerInit, Init
<1>2. \A r \in Rooms : mailbox[r] = <<>> /\ Len(mailbox[r]) = 0
  BY <1>1
<1>3. OneUserIInv /\ GatewayOK
  BY <1>1, OneUserInit, ServerInitOK
<1>4. LoginsAreKept
  BY <1>1, <1>2 DEF LoginsAreKept, Routed, OfLogin, NoCommand, Command
<1>5. SessionsEnd
  BY <1>1, <1>2 DEF SessionsEnd, NoCommand, Command
<1>6. RoomsBegin
  BY <1>1, <1>2 DEF RoomsBegin, NoPlayer
<1>7. GoneAreReleased
  BY <1>1 DEF GoneAreReleased
<1> QED
  BY <1>3, <1>4, <1>5, <1>6, <1>7 DEF EndingIInv

\* Logins, mailboxes and the end of sessions, in every reachable state.
THEOREM EndingInvariant == ASSUME OneUserLogins PROVE ServerSpec => []EndingIInv
<1>1. EndingIInv /\ [ServerNext]_serverVars => EndingIInv'
  BY EndingStep
<1> QED
  BY <1>1, EndingInit, PTL DEF ServerSpec

\* With clients that use one connection for one user, in however many rooms, the
\* server is what SpecOneUser says of the rooms.
THEOREM ServerIsOneUser == ASSUME OneUserLogins PROVE ServerSpec => SpecOneUser
<1>1. ServerInit => Init
  BY DEF ServerInit
<1>2. EndingIInv /\ [ServerNext]_serverVars => [NextOneUser]_vars
  BY EndingStep
<1> QED
  BY <1>1, <1>2, EndingInvariant, PTL DEF ServerSpec, SpecOneUser

\* So that there are no ghost seats behind mailboxes and sessions, either.
THEOREM ServerHasNoGhostSeats ==
    ASSUME OneUserLogins PROVE ServerSpec => []ConnectedSeatsAreRouted
BY ServerIsOneUser, NoGhostSeats, PTL

\* A session that has ended, in the last room that it asked for, holds a seat
\* only while its Disconnect waits in the mailbox of that room: what
\* LastRoomIsReleased adds is that the room takes its commands.
LastRoomHears ==
    \A c \in Conns, r \in Rooms, s \in Seats :
        /\ session[c] = "gone" /\ current_room[c] = r
        /\ players_by_seat[r][s].connection_id = c
        => DisconnectWaits(r, c)

\* No Disconnect is forgotten on the way, or overtaken by what its own connection
\* asked for before (disconnect, send_command, handle_disconnect).
THEOREM ReleaseIsOnItsWay == ASSUME OneUserLogins PROVE ServerSpec => []LastRoomHears
<1>1. EndingIInv => LastRoomHears
  BY DEF EndingIInv, GoneAreReleased, HasLeft, LastRoomHears
<1> QED
  BY <1>1, EndingInvariant, PTL
=============================================================================
