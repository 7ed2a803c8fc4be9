--------------------------- MODULE WebSocketSession ---------------------------
(***************************************************************************)
(* The session of one websocket, handle_socket of src/ws.rs, with all that *)
(* its select loop does: it either takes the next frame of its outbound    *)
(* channel and writes it, or takes the next message of the socket and      *)
(* handles it.  While it writes, or waits for a place in the mailbox of a  *)
(* room, it does neither.  When the socket fails, at whatever point of the *)
(* loop, it tells the remembered room and is gone.                         *)
(*                                                                         *)
(* The loop has no timeout and sends no ping of its own: it hears that the *)
(* client is lost from the socket only.  The socket knows when the client  *)
(* closes or resets the connection ("down"), and finds out when what was   *)
(* written is not acknowledged.  A client that is lost without a word      *)
(* ("lost") and is written nothing may go unnoticed for ever.              *)
(*                                                                         *)
(* The rooms are seen from the session: a mailbox that is emptied, and     *)
(* frames that come at any time.  Server has their handlers instead, and   *)
(* a socket that is always writable.                                       *)
(***************************************************************************)
EXTENDS Naturals, Sequences

CONSTANTS
    Conns,
    Rooms,
    Unresponsive,  \* rooms whose task may never take a command again
    Buffer,        \* ROOM_COMMAND_BUFFER
    MaxIncoming,   \* bound: messages of the client that wait in the socket
    MaxEvents,     \* bound: frames of rooms that wait in the outbound channel
    None           \* no room; nothing is sent or written

ASSUME UnresponsiveAssumption == Unresponsive \subseteq Rooms
ASSUME BufferAssumption == Buffer \in Nat \ {0}
ASSUME BoundsAssumption == MaxIncoming \in Nat /\ MaxEvents \in Nat

VARIABLES
    pc,            \* connection -> where handle_socket stands
    current_room,  \* connection -> current_room_id
    sending,       \* connection -> command that waits for a mailbox place
    writing,       \* connection -> frame that the socket has yet to take
    outbound,      \* connection -> frames that wait in its channel
    incoming,      \* connection -> messages that wait in its socket
    wire,          \* connection -> frame that the client has yet to read or acknowledge
    peer,          \* connection -> "up" | "lost" | "down"
    pending,       \* connection -> is a request neither answered nor passed on?
    exists,        \* rooms that have a task
    mailbox        \* room -> commands that wait for the task

client == <<incoming, wire, peer, pending>>
vars == <<pc, current_room, sending, writing, outbound, client, exists, mailbox>>

\* "Gateway" is any message that the session answers itself: a heartbeat, bytes
\* that cannot be decoded, a text, a frame without a payload.
GatewayRequests == {"Gateway"}

\* "FindRoom" is a resume or a player action: both need the room to be there.
NamingRequests == {"JoinRoom", "FindRoom"}

Requests ==
    [kind : GatewayRequests \cup {"Ready"}, room : {None}]
        \cup [kind : NamingRequests, room : Rooms]
ControlMessages == [kind : {"Ping", "Pong", "Close"}, room : {None}]
Messages == Requests \cup ControlMessages

Frames == {"Answer", "Event", "Pong"}

ASSUME NoneAssumption == None \notin Rooms \cup Frames

Commands == [kind : NamingRequests \cup {"Ready", "Disconnect"}, conn : Conns]
Command(kind, c) == [kind |-> kind, conn |-> c]
NoCommand == [kind |-> "None", conn |-> None]

Locations == {"new", "select", "write", "dispatch", "end", "gone"}

Init ==
    /\ pc = [c \in Conns |-> "new"]
    /\ current_room = [c \in Conns |-> None]
    /\ sending = [c \in Conns |-> NoCommand]
    /\ writing = [c \in Conns |-> None]
    /\ outbound = [c \in Conns |-> <<>>]
    /\ incoming = [c \in Conns |-> <<>>]
    /\ wire = [c \in Conns |-> None]
    /\ peer = [c \in Conns |-> "up"]
    /\ pending = [c \in Conns |-> FALSE]
    /\ exists = {}
    /\ mailbox = [r \in Rooms |-> <<>>]

Goto(c, l) == pc' = [pc EXCEPT ![c] = l]

-----------------------------------------------------------------------------
(* The client and its network.                                             *)

\* A request after the one before it was dealt with; control messages always.
ClientSends(c, m) ==
    /\ pc[c] \notin {"new", "gone"} /\ peer[c] = "up"
    /\ Len(incoming[c]) < MaxIncoming
    /\ m \in Requests => ~pending[c]
    /\ incoming' = [incoming EXCEPT ![c] = Append(@, m)]
    /\ pending' = [pending EXCEPT ![c] = @ \/ m \in Requests]
    /\ UNCHANGED <<pc, current_room, sending, writing, outbound, wire, peer,
                   exists, mailbox>>

ClientReads(c) ==
    /\ wire[c] # None /\ peer[c] = "up"
    /\ wire' = [wire EXCEPT ![c] = None]
    /\ pending' = [pending EXCEPT ![c] = @ /\ wire[c] # "Answer"]
    /\ UNCHANGED <<pc, current_room, sending, writing, outbound, incoming, peer,
                   exists, mailbox>>

\* The last messages of a client may get lost with it.
LosesLast(c) ==
    \E n \in 0 .. Len(incoming[c]) : incoming' = [incoming EXCEPT ![c] = SubSeq(@, 1, n)]

\* The client goes, and the socket is told.
PeerGone(c) ==
    /\ pc[c] # "new" /\ peer[c] = "up"
    /\ peer' = [peer EXCEPT ![c] = "down"]
    /\ LosesLast(c)
    /\ UNCHANGED <<pc, current_room, sending, writing, outbound, wire, pending,
                   exists, mailbox>>

\* The client is lost without a word, before or after the last frame reached it.
PeerLost(c) ==
    /\ pc[c] # "new" /\ peer[c] = "up"
    /\ peer' = [peer EXCEPT ![c] = "lost"]
    /\ LosesLast(c)
    /\ \E frame \in {wire[c], None} : wire' = [wire EXCEPT ![c] = frame]
    /\ UNCHANGED <<pc, current_room, sending, writing, outbound, pending,
                   exists, mailbox>>

\* The socket finds out: it gives up what is not acknowledged, or learns by chance.
SocketReports(c) ==
    /\ peer[c] = "lost"
    /\ peer' = [peer EXCEPT ![c] = "down"]
    /\ UNCHANGED <<pc, current_room, sending, writing, outbound, incoming, wire,
                   pending, exists, mailbox>>

-----------------------------------------------------------------------------
(* The select loop.                                                        *)

Open(c) ==
    /\ pc[c] = "new"
    /\ Goto(c, "select")
    /\ UNCHANGED <<current_room, sending, writing, outbound, client, exists, mailbox>>

\* What follows a break: the remembered room is told, if it has a task.  The
\* frames that still wait are lost with the channel.
Ends(c) ==
    /\ writing' = [writing EXCEPT ![c] = None]
    /\ outbound' = [outbound EXCEPT ![c] = <<>>]
    /\ IF current_room[c] \in exists
       THEN /\ sending' = [sending EXCEPT ![c] = Command("Disconnect", c)]
            /\ Goto(c, "end")
       ELSE /\ Goto(c, "gone")
            /\ UNCHANGED sending
    /\ UNCHANGED <<current_room, wire, peer, pending, exists, mailbox>>

\* Mutant of MayWrite: the socket is polled first and the channel only when the
\* socket has nothing (select! with the bias the wrong way round).
WriteWhenQuiet(c) == pc[c] = "select" /\ incoming[c] = <<>>

MayWrite(c) == pc[c] = "select"

\* outbound_rx.recv(): the session's own sender keeps the channel open.
TakeFrame(c) ==
    /\ MayWrite(c)
    /\ outbound[c] # <<>>
    /\ writing' = [writing EXCEPT ![c] = Head(outbound[c])]
    /\ outbound' = [outbound EXCEPT ![c] = Tail(@)]
    /\ Goto(c, "write")
    /\ UNCHANGED <<current_room, sending, client, exists, mailbox>>

\* socket.send returns when the socket has taken the frame: a client that does
\* not read, or acknowledge, makes it wait.  A socket that is down may take frames
\* before it says so.
Written(c) ==
    /\ pc[c] = "write"
    /\ wire[c] = None \/ peer[c] = "down"
    /\ wire' = [wire EXCEPT ![c] = IF peer[c] = "down" THEN @ ELSE writing[c]]
    /\ writing' = [writing EXCEPT ![c] = None]
    /\ Goto(c, "select")
    /\ UNCHANGED <<current_room, sending, outbound, incoming, peer, pending,
                   exists, mailbox>>

\* The error that socket.send reports: a frame or the answer to a ping.
WriteFails(c) ==
    /\ pc[c] = "write" /\ peer[c] = "down"
    /\ Ends(c)
    /\ UNCHANGED incoming

Reads(c, kinds) ==
    /\ pc[c] = "select"
    /\ incoming[c] # <<>> /\ Head(incoming[c]).kind \in kinds
    /\ incoming' = [incoming EXCEPT ![c] = Tail(@)]

\* A frame for the session's own channel; it is answered when the client has it.
AnswersItself(c) == outbound' = [outbound EXCEPT ![c] = Append(@, "Answer")]

\* build_pong, or one of the rejections of what is not a protobuf request.
ReadGatewayRequest(c) ==
    /\ Reads(c, GatewayRequests)
    /\ AnswersItself(c)
    /\ UNCHANGED <<pc, current_room, sending, writing, wire, peer, pending,
                   exists, mailbox>>

\* Mutant of Dispatched: a sender is used whether or not the room has a task.
DispatchedAnywhere(c, r, kind) ==
    /\ sending' = [sending EXCEPT ![c] = Command(kind, c)]
    /\ Goto(c, "dispatch")
    /\ UNCHANGED outbound

\* The manager finds the room's sender, or answers RoomNotFound.
Dispatched(c, r, kind) ==
    IF r \in exists'
    THEN /\ sending' = [sending EXCEPT ![c] = Command(kind, c)]
         /\ Goto(c, "dispatch")
         /\ UNCHANGED outbound
    ELSE AnswersItself(c) /\ UNCHANGED <<pc, sending>>

\* The room is remembered before the request is dispatched.  Only a join makes
\* a room.
ReadNamingRequest(c) ==
    /\ Reads(c, NamingRequests)
    /\ LET m == Head(incoming[c])
       IN  /\ current_room' = [current_room EXCEPT ![c] = m.room]
           /\ exists' = IF m.kind = "JoinRoom" THEN exists \cup {m.room} ELSE exists
           /\ Dispatched(c, m.room, m.kind)
    /\ UNCHANGED <<writing, wire, peer, pending, mailbox>>

\* Ready goes to the remembered room; without one the answer is NotInRoom.
ReadReady(c) ==
    /\ Reads(c, {"Ready"})
    /\ UNCHANGED exists
    /\ IF current_room[c] = None
       THEN AnswersItself(c) /\ UNCHANGED <<pc, sending>>
       ELSE Dispatched(c, current_room[c], "Ready")
    /\ UNCHANGED <<current_room, writing, wire, peer, pending, mailbox>>

\* The answer to a ping is written at once, before the frames that wait.
ReadPing(c) ==
    /\ Reads(c, {"Ping"})
    /\ writing' = [writing EXCEPT ![c] = "Pong"]
    /\ Goto(c, "write")
    /\ UNCHANGED <<current_room, sending, outbound, wire, peer, pending, exists, mailbox>>

ReadPong(c) ==
    /\ Reads(c, {"Pong"})
    /\ UNCHANGED <<pc, current_room, sending, writing, outbound, wire, peer, pending,
                   exists, mailbox>>

\* Mutant of ReadClose: the room is told, but the loop goes on.
ReadCloseGoesOn(c) ==
    /\ Reads(c, {"Close"})
    /\ IF current_room[c] \in exists
       THEN /\ sending' = [sending EXCEPT ![c] = Command("Disconnect", c)]
            /\ Goto(c, "dispatch")
       ELSE UNCHANGED <<pc, sending>>
    /\ UNCHANGED <<current_room, writing, outbound, wire, peer, pending, exists, mailbox>>

ReadClose(c) == Reads(c, {"Close"}) /\ Ends(c)

\* Mutant of ReceiveFails: the error is logged and the socket polled again.
ReceiveErrorIgnored(c) ==
    /\ pc[c] = "select" /\ incoming[c] = <<>> /\ peer[c] = "down"
    /\ UNCHANGED vars

\* socket.next() yields an error, or nothing more.
ReceiveFails(c) ==
    /\ pc[c] = "select" /\ incoming[c] = <<>> /\ peer[c] = "down"
    /\ Ends(c)
    /\ UNCHANGED incoming

Read(c) ==
    \/ ReadGatewayRequest(c) \/ ReadNamingRequest(c) \/ ReadReady(c)
    \/ ReadPing(c) \/ ReadPong(c) \/ ReadClose(c)
    \/ ReceiveFails(c)

-----------------------------------------------------------------------------
(* The mailboxes and the rooms.                                            *)

\* Mutant of Enqueue: a command that finds the mailbox full is dropped.
EnqueueOrDrop(c) ==
    LET r == current_room[c]
    IN  /\ pc[c] \in {"dispatch", "end"}
        /\ mailbox' = [mailbox EXCEPT ![r] =
                         IF Len(@) < Buffer THEN Append(@, sending[c]) ELSE @]
        /\ pending' = [pending EXCEPT ![c] =
                         @ /\ (pc[c] = "end" \/ Len(mailbox[r]) = Buffer)]
        /\ sending' = [sending EXCEPT ![c] = NoCommand]
        /\ Goto(c, IF pc[c] = "dispatch" THEN "select" ELSE "gone")
        /\ UNCHANGED <<current_room, writing, outbound, incoming, wire, peer, exists>>

\* sender.send(command) of send_command or disconnect gets its place.
Enqueue(c) ==
    LET r == current_room[c]
    IN  /\ pc[c] \in {"dispatch", "end"}
        /\ Len(mailbox[r]) < Buffer
        /\ mailbox' = [mailbox EXCEPT ![r] = Append(@, sending[c])]
        /\ pending' = [pending EXCEPT ![c] = @ /\ pc[c] = "end"]
        /\ sending' = [sending EXCEPT ![c] = NoCommand]
        /\ Goto(c, IF pc[c] = "dispatch" THEN "select" ELSE "gone")
        /\ UNCHANGED <<current_room, writing, outbound, incoming, wire, peer, exists>>

\* A room task takes a command, whatever becomes of it.
Take(r) ==
    /\ mailbox[r] # <<>>
    /\ mailbox' = [mailbox EXCEPT ![r] = Tail(@)]
    /\ UNCHANGED <<pc, current_room, sending, writing, outbound, client, exists>>

Events(c) == SelectSeq(outbound[c], LAMBDA f : f = "Event")

\* A room sends a frame to a connection that has asked for a room; the channel
\* takes it as long as the session's loop runs.
RoomSends(c) ==
    /\ current_room[c] \in exists
    /\ pc[c] \in {"select", "write", "dispatch"}
    /\ Len(Events(c)) < MaxEvents
    /\ outbound' = [outbound EXCEPT ![c] = Append(@, "Event")]
    /\ UNCHANGED <<pc, current_room, sending, writing, client, exists, mailbox>>

-----------------------------------------------------------------------------
Next ==
    \/ \E c \in Conns :
          \/ \E m \in Messages : ClientSends(c, m)
          \/ ClientReads(c) \/ PeerGone(c) \/ PeerLost(c) \/ SocketReports(c)
          \/ Open(c) \/ TakeFrame(c) \/ Written(c) \/ WriteFails(c) \/ Read(c)
          \/ Enqueue(c) \/ RoomSends(c)
    \/ \E r \in Rooms : Take(r)

Spec == Init /\ [][Next]_vars

\* select! polls its branches in random order, so that neither the socket nor
\* the channel is passed over for ever; senders to a mailbox wait in line; rooms
\* that are not stuck take their commands.  Nothing is asked of the client.  Of the
\* socket it is asked that it reports the end of the connection it knows of, and
\* that it gives up at last what nobody acknowledges, as TCP does.
ServerFairness ==
    /\ \A c \in Conns :
          /\ SF_vars(TakeFrame(c)) /\ SF_vars(Read(c))
          /\ WF_vars(Written(c) \/ WriteFails(c))
          /\ SF_vars(Enqueue(c))
          /\ WF_vars(wire[c] # None /\ SocketReports(c))
    /\ \A r \in Rooms \ Unresponsive : WF_vars(Take(r))

FairSpec == Spec /\ ServerFairness

-----------------------------------------------------------------------------
(* Properties.                                                             *)

\* The session's variables have their types; it writes and sends only where it
\* says so, and a mailbox keeps its bound.
TypeOK ==
    /\ pc \in [Conns -> Locations]
    /\ current_room \in [Conns -> Rooms \cup {None}]
    /\ sending \in [Conns -> Commands \cup {NoCommand}]
    /\ writing \in [Conns -> Frames \cup {None}]
    /\ outbound \in [Conns -> Seq(Frames)]
    /\ incoming \in [Conns -> Seq(Messages)]
    /\ wire \in [Conns -> Frames \cup {None}]
    /\ peer \in [Conns -> {"up", "lost", "down"}]
    /\ pending \in [Conns -> BOOLEAN]
    /\ exists \subseteq Rooms
    /\ mailbox \in [Rooms -> Seq(Commands)]
    /\ \A r \in Rooms : Len(mailbox[r]) <= Buffer
    /\ \A c \in Conns :
          /\ pc[c] = "write" <=> writing[c] # None
          /\ pc[c] \in {"dispatch", "end"} =>
                /\ sending[c] \in Commands /\ sending[c].conn = c
                /\ current_room[c] \in exists

\* The Disconnect of a connection is the last that any room hears of it, so that
\* no late command of the connection finds its seat released or taken over: its
\* session is gone, and nothing of it waits behind.
NothingAfterDisconnect ==
    \A r \in Rooms : \A i \in 1 .. Len(mailbox[r]) :
        mailbox[r][i].kind = "Disconnect" =>
            /\ pc[mailbox[r][i].conn] = "gone"
            /\ \A j \in i + 1 .. Len(mailbox[r]) : mailbox[r][j].conn # mailbox[r][i].conn

Stuck(c) == pc[c] \in {"dispatch", "end"} /\ current_room[c] \in Unresponsive

\* The socket knows that the client is gone, or will find out as something is, or
\* waits to be, written to it.
LossShows(c) ==
    \/ peer[c] = "down"
    \/ peer[c] = "lost" /\ (wire[c] # None \/ writing[c] # None \/ outbound[c] # <<>>)

\* A client that is gone is noticed if the socket is told, or if something is sent
\* to it: also by a session that waits for the client to read, except while the
\* session waits for a room that is stuck.  Nothing in the loop notices the silent
\* loss of a client that is sent nothing.
EndIsNoticed ==
    \A c \in Conns : LossShows(c) ~> pc[c] = "gone" \/ Stuck(c)

\* Whichever way the loop ends or must end, by a close, by a failure to read or amid
\* a write, the room that the session was in, and has not left since, gets the
\* Disconnect.
LastRoomIsTold ==
    \A c \in Conns, r \in Rooms \ Unresponsive :
        (/\ LossShows(c) \/ pc[c] = "end"
         /\ pc[c] # "gone" /\ current_room[c] = r /\ r \in exists)
            ~> \/ current_room[c] # r
               \/ \E i \in 1 .. Len(mailbox[r]) : mailbox[r][i] = Command("Disconnect", c)

\* However many pings the client and frames the rooms send at the same time,
\* every request of a client that reads what it is sent is answered or handed to
\* its room, unless the session ends, the client is lost without a word or the
\* session waits for a room that is stuck.
RequestsAreHandled ==
    \A c \in Conns :
        WF_vars(ClientReads(c)) =>
            (pending[c] ~> ~pending[c] \/ pc[c] = "gone" \/ peer[c] = "lost" \/ Stuck(c))
=============================================================================
