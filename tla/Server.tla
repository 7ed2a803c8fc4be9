-------------------------------- MODULE Server --------------------------------
(***************************************************************************)
(* The websocket sessions of src/ws.rs, the mailboxes of the room tasks,   *)
(* and the room tasks themselves (RoomTask), run together.                 *)
(*                                                                         *)
(* A session reads one client frame at a time.  It remembers the room of   *)
(* the last join, resume or player action, hands the command to that       *)
(* room's mailbox and waits while the mailbox is full.  When its socket    *)
(* ends it tells the remembered room only.  Finding or creating a room is  *)
(* one step here: RoomManager implements RoomDirectory.                    *)
(*                                                                         *)
(* A client of the model asks for one thing at a time: it waits for a      *)
(* frame of the room before it sends the next request, or it goes away.    *)
(***************************************************************************)
EXTENDS RoomTask, Sequences

CONSTANTS
    Logins,       \* <<connection, user, room>>: what the clients ask for
    Buffer,       \* ROOM_COMMAND_BUFFER
    Unresponsive  \* rooms whose call of the rule engine may never return

ASSUME LoginsAssumption == Logins \subseteq Conns \X Users \X Rooms
ASSUME BufferAssumption == Buffer \in Nat \ {0}

VARIABLES
    session,       \* connection -> "new" | "open" | "closing" | "gone"
    current_room,  \* connection -> current_room_id (None: not set)
    sending,       \* connection -> command that waits for a mailbox place
    exists,        \* rooms that have a task
    mailbox,       \* room -> commands that wait for the task
    waiting        \* connection -> kind of request the client waits for

gateway == <<session, current_room, sending, exists, mailbox, waiting>>

Kinds == {"Join", "Ready", "Resume", "Action", "Disconnect"}
Command(kind, c, u) == [kind |-> kind, conn |-> c, user |-> u]
NoCommand == Command("None", None, None)
RoomCommands == [kind : Kinds, conn : Conns, user : Users \cup {None}]

ServerInit ==
    /\ Init
    /\ session = [c \in Conns |-> "new"]
    /\ current_room = [c \in Conns |-> None]
    /\ sending = [c \in Conns |-> NoCommand]
    /\ exists = {}
    /\ mailbox = [r \in Rooms |-> <<>>]
    /\ waiting = [c \in Conns |-> "none"]

-----------------------------------------------------------------------------
(* Sessions.                                                               *)

Open(c) ==
    /\ session[c] = "new"
    /\ session' = [session EXCEPT ![c] = "open"]
    /\ UNCHANGED <<vars, current_room, sending, exists, mailbox, waiting>>

\* The session is in its select loop and the client asks for something new.
Reads(c) == session[c] = "open" /\ sending[c] = NoCommand /\ waiting[c] = "none"

\* The command is handed to the manager, which finds the room's sender.
Dispatched(c, command) ==
    /\ sending' = [sending EXCEPT ![c] = command]
    /\ waiting' = [waiting EXCEPT ![c] = command.kind]

\* Without a room the manager answers RoomNotFound at once.
DispatchedIfExists(c, r, command) ==
    IF r \in exists THEN Dispatched(c, command) ELSE UNCHANGED <<sending, waiting>>

\* Mutant of Remembers: only the first room is remembered, so that the close
\* of a connection that moved on is told to the wrong room.
RemembersFirst(c, r) ==
    current_room' = [current_room EXCEPT ![c] = IF @ = None THEN r ELSE @]

\* connection.current_room_id = Some(room_id), before the request is dispatched
\* and whatever becomes of it.
Remembers(c, r) == current_room' = [current_room EXCEPT ![c] = r]

RequestJoin(c, u, r) ==
    /\ Reads(c)
    /\ Remembers(c, r)
    /\ exists' = exists \cup {r}
    /\ Dispatched(c, Command("Join", c, u))
    /\ UNCHANGED <<vars, session, mailbox>>

RequestResume(c, u, r) ==
    /\ Reads(c)
    /\ Remembers(c, r)
    /\ DispatchedIfExists(c, r, Command("Resume", c, u))
    /\ UNCHANGED <<vars, session, exists, mailbox>>

RequestAction(c, r) ==
    /\ Reads(c)
    /\ Remembers(c, r)
    /\ DispatchedIfExists(c, r, Command("Action", c, None))
    /\ UNCHANGED <<vars, session, exists, mailbox>>

\* A ReadyRequest names no room: it goes to the remembered one.  Without one
\* the session itself answers NotInRoom.
RequestReady(c) ==
    /\ Reads(c)
    /\ current_room[c] # None
    /\ DispatchedIfExists(c, current_room[c], Command("Ready", c, None))
    /\ UNCHANGED <<vars, session, current_room, exists, mailbox>>

\* Mutant of Enqueue: the command is dropped when the mailbox is full.
EnqueueOrDrop(c) ==
    LET r == current_room[c]
    IN  /\ sending[c] # NoCommand
        /\ mailbox' = [mailbox EXCEPT ![r] =
                         IF Len(@) < Buffer THEN Append(@, sending[c]) ELSE @]
        /\ sending' = [sending EXCEPT ![c] = NoCommand]
        /\ session' = [session EXCEPT ![c] = IF @ = "closing" THEN "gone" ELSE @]
        /\ UNCHANGED <<vars, current_room, exists, waiting>>

\* send_command and the end of disconnect: wait for a place in the mailbox.
Enqueue(c) ==
    LET r == current_room[c]
    IN  /\ sending[c] # NoCommand
        /\ Len(mailbox[r]) < Buffer
        /\ mailbox' = [mailbox EXCEPT ![r] = Append(@, sending[c])]
        /\ sending' = [sending EXCEPT ![c] = NoCommand]
        /\ session' = [session EXCEPT ![c] = IF @ = "closing" THEN "gone" ELSE @]
        /\ UNCHANGED <<vars, current_room, exists, waiting>>

\* The socket ends, at any moment when the session is in its select loop.
Close(c) ==
    /\ session[c] = "open" /\ sending[c] = NoCommand
    /\ waiting' = [waiting EXCEPT ![c] = "none"]
    /\ IF current_room[c] \in exists
       THEN /\ sending' = [sending EXCEPT ![c] = Command("Disconnect", c, None)]
            /\ session' = [session EXCEPT ![c] = "closing"]
       ELSE /\ session' = [session EXCEPT ![c] = "gone"]
            /\ UNCHANGED sending
    /\ UNCHANGED <<vars, current_room, exists, mailbox>>

-----------------------------------------------------------------------------
(* Room tasks.                                                             *)

\* A frame goes out on the channel of connection c, and its client reads it.
Answered(c) == waiting' = [waiting EXCEPT ![c] = "none"]

\* The channel that an answer for a routed connection travels on.
SeatChannel(r, c) == players_by_seat[r][SeatForConnection(r, c)].outbound_tx

\* run_room_task: the next command, handled as RoomTask says.
Handle(r) ==
    /\ mailbox[r] # <<>>
    /\ mailbox' = [mailbox EXCEPT ![r] = Tail(@)]
    /\ LET command == Head(mailbox[r])
           c == command.conn
       IN  \/ /\ command.kind = "Join"
              /\ HandleJoin(r, c, command.user)
              /\ Answered(c)
           \/ /\ command.kind = "Resume"
              /\ HandleResume(r, c, command.user)
              /\ Answered(c)
           \/ /\ command.kind = "Ready"
              /\ \/ ReadyUnregistered(r, c) /\ UNCHANGED waiting
                 \/ /\ \E status \in {"Joined", "Ready"} : Ready(r, c, status)
                    /\ Answered(SeatChannel(r, c))
           \/ /\ command.kind = "Action"
              /\ \/ ActionUnregistered(r, c) /\ UNCHANGED waiting
                 \/ /\ \/ ActionRefused(r, c)
                       \/ \E enabled \in BOOLEAN : AutoPlayToggle(r, c, enabled)
                    /\ Answered(SeatChannel(r, c))
                 \/ ActionSubmitted(r, c) /\ UNCHANGED waiting
           \/ /\ command.kind = "Disconnect"
              /\ HandleDisconnect(r, c)
              /\ UNCHANGED waiting
    /\ UNCHANGED <<session, current_room, sending, exists>>

EngineReturns(r) ==
    /\ ActionVerdict(r)
    /\ Answered(SeatChannel(r, awaiting[r]))
    /\ UNCHANGED <<session, current_room, sending, exists, mailbox>>

-----------------------------------------------------------------------------
ServerNext ==
    \/ \E login \in Logins :
          \/ RequestJoin(login[1], login[2], login[3])
          \/ RequestResume(login[1], login[2], login[3])
          \/ RequestAction(login[1], login[3])
    \/ \E c \in Conns : Open(c) \/ RequestReady(c) \/ Enqueue(c) \/ Close(c)
    \/ \E r \in Rooms : Handle(r) \/ EngineReturns(r)

serverVars == <<vars, gateway>>

ServerSpec == ServerInit /\ [][ServerNext]_serverVars

\* tokio runs every task that can run and queues the senders of a full mailbox
\* first come first served, so a sender that can go on again and again does go
\* on.  Only responsive rooms get an answer from the rule engine: the call has
\* no timeout.  Clients need not do anything.
ServerFairness ==
    /\ \A c \in Conns : SF_serverVars(Enqueue(c))
    /\ \A r \in Rooms : WF_serverVars(Handle(r))
    /\ \A r \in Rooms \ Unresponsive : WF_serverVars(EngineReturns(r))

FairServerSpec == ServerSpec /\ ServerFairness

-----------------------------------------------------------------------------
(* Properties.                                                             *)

\* Every join and every resume is answered, or the client goes away first, when
\* the rule engine answers.
JoinsAndResumesAreAnswered ==
    \A c \in Conns : waiting[c] \in {"Join", "Resume"} ~> waiting[c] = "none"

\* What handle_ready sets out to do for a connection without a seat ("connection
\* is not registered in this room"): every ReadyRequest is answered.
ReadiesAreAnswered ==
    \A c \in Conns : waiting[c] = "Ready" ~> waiting[c] = "none"

\* A connection that has ended holds no seat in the end, so that its player is
\* shown as offline and the room stops sending to it: for clients that log in to
\* one room as one user.
ClosedConnectionsAreReleased ==
    \A c \in Conns :
        session[c] = "gone" ~>
            [](\A r \in Rooms, s \in Seats : players_by_seat[r][s].connection_id # c)

\* What is left of it for clients that move from room to room: the last room
\* they asked for, and only that one, is sure to release the seat.
LastRoomIsReleased ==
    \A c \in Conns, r \in Rooms :
        session[c] = "gone" /\ current_room[c] = r ~>
            [](\A s \in Seats : players_by_seat[r][s].connection_id # c)
=============================================================================
