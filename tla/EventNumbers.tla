----------------------------- MODULE EventNumbers -----------------------------
(***************************************************************************)
(* The numbered frames of the server.  RoomTask says what a frame does to  *)
(* the view of a seat; here is every frame itself, with its event number,  *)
(* in the channel of the connection it is sent to, in the order in which   *)
(* the handlers of src/room.rs send their frames.  Beside the rooms, the   *)
(* gateway (src/ws.rs) numbers its own answers from a counter of           *)
(* src/app.rs that all connections share, and the room manager sends its   *)
(* rejections with the number 0.                                           *)
(*                                                                         *)
(* sent keeps whole histories: what a client has read at any time is a     *)
(* prefix of what was sent on its connection.  Numbers are not cut off     *)
(* here: a handler runs only while MaxSeq leaves it all its numbers.       *)
(* The copies of one broadcast differ in self_seat only, which is left     *)
(* out.                                                                    *)
(***************************************************************************)
EXTENDS RoomTask, Sequences, FiniteSets

CONSTANTS
    Gateway,      \* the source of the answers that a session gives itself
    Manager,      \* the source of the rejections that no room has seen
    OtherShare    \* bound: as many numbers of a room does a frame of these two cost

ASSUME GatewayAssumption == Gateway \notin Rooms
ASSUME ManagerAssumption == Manager \notin Rooms \cup {Gateway}
ASSUME OtherShareAssumption == OtherShare \in Nat

VARIABLES
    sent,              \* connection -> all frames ever put in its channel
    next_gateway_seq   \* AppState.next_event_seq

numbered == <<vars, sent, next_gateway_seq>>

Frames ==
    [ from : Rooms \cup {Gateway, Manager}, event_seq : Nat,
      payload : {"Answer", "SyncState", "PlayerConnectionChanged"},
      seat : Seats \cup {NoSeat}, table : Snapshots ]

Frame(from, n, payload, seat, table) ==
    [ from |-> from, event_seq |-> n, payload |-> payload, seat |-> seat,
      table |-> table ]

NumberedInit ==
    /\ Init
    /\ sent = [c \in Conns |-> <<>>]
    /\ next_gateway_seq = 1

-----------------------------------------------------------------------------
(* What a handler sends: for every connection the frames it is sent.       *)

\* One copy for each seat that is connected through connection c.
Copies(players, c) ==
    Cardinality({s \in Seats : players[s].connected /\ players[s].outbound_tx = c})

ToSeats(players, frame) ==
    [c \in Conns |-> [i \in 1 .. Copies(players, c) |-> frame]]

ToOne(c, frame) == [d \in Conns |-> IF d = c THEN <<frame>> ELSE <<>>]

\* JoinRoomResponse and ActionRejected.
AnswerTo(c, from, n) == ToOne(c, Frame(from, n, "Answer", NoSeat, NoView))

\* The frames below describe the room as the handler leaves it.
SyncFrame(r, n) ==
    Frame(r, n, "SyncState", NoSeat, Snapshot(players_by_seat'[r], phase'[r]))

ChangeFrame(r, s, n) ==
    Frame(r, n, "PlayerConnectionChanged", s, Changed(NoView, players_by_seat'[r][s], s))

BroadcastSync(r, n) == ToSeats(players_by_seat'[r], SyncFrame(r, n))
BroadcastChange(r, s, n) == ToSeats(players_by_seat'[r], ChangeFrame(r, s, n))

\* One batch of frames after the other.
Then(a, b) == [c \in Conns |-> a[c] \o b[c]]
Sends(batch) == sent' = Then(sent, batch)

\* The frames that no room has sent.
OtherFrames ==
    UNION {{c} \X {i \in 1 .. Len(sent[c]) : sent[c][i].from \notin Rooms} : c \in Conns}

\* There are k numbers left below the bound, which the other frames use up as well.
NumbersLeft(r, k) ==
    /\ next_event_seq[r] + k <= MaxSeq
    /\ OtherShare * Cardinality(OtherFrames) <= MaxSeq - (next_event_seq[r] + k)

\* There is room for another such frame.
OthersLeft == \A r \in Rooms : NumbersLeft(r, OtherShare)

-----------------------------------------------------------------------------
(* The handlers with their frames.                                         *)

\* Mutant of JoinRefused: the answer has the number that comes next.
JoinRefusedWithNext(r, c, u) ==
    /\ NumbersLeft(r, 1)
    /\ JoinAlreadyJoined(r, c, u) \/ JoinRoomFull(r, c, u)
    /\ Sends(AnswerTo(c, r, next_event_seq[r] + 1))

JoinRefused(r, c, u) ==
    /\ NumbersLeft(r, 1)
    /\ JoinAlreadyJoined(r, c, u) \/ JoinRoomFull(r, c, u)
    /\ Sends(AnswerTo(c, r, next_event_seq[r]))

JoinAccepted(r, c, u, s) ==
    LET n == next_event_seq[r]
    IN  /\ NumbersLeft(r, 3)
        /\ JoinSeated(r, c, u, s)
        /\ Sends(Then(AnswerTo(c, r, n),
                     Then(BroadcastSync(r, n + 1), BroadcastChange(r, s, n + 2))))

\* Ready and the auto play toggle end with a snapshot for everyone.
SeatUpdated(r, c) ==
    /\ NumbersLeft(r, 1)
    /\ \/ \E status \in {"Joined", "Ready"} : Ready(r, c, status)
       \/ \E enabled \in BOOLEAN : AutoPlayToggle(r, c, enabled)
    /\ Sends(BroadcastSync(r, next_event_seq[r]))

ResumeRefused(r, c, u) ==
    /\ NumbersLeft(r, 1)
    /\ ResumeUnknownUser(r, c, u) \/ ResumeBadToken(r, c, u)
    /\ Sends(AnswerTo(c, r, next_event_seq[r]))

\* Mutant of ResumeAccepted: the change is announced before the snapshot is sent.
ResumeAnnouncedFirst(r, c, u) ==
    LET n == next_event_seq[r]
    IN  /\ NumbersLeft(r, 2)
        /\ Resume(r, c, u)
        /\ Sends(Then(BroadcastChange(r, user_to_seat[r][u], n + 1), ToOne(c, SyncFrame(r, n))))

\* Mutant of ResumeAccepted: everyone is told but the connection that resumes.
ResumeWithoutSync(r, c, u) ==
    /\ NumbersLeft(r, 2)
    /\ Resume(r, c, u)
    /\ Sends(BroadcastChange(r, user_to_seat[r][u], next_event_seq[r] + 1))

ResumeAccepted(r, c, u) ==
    LET n == next_event_seq[r]
    IN  /\ NumbersLeft(r, 2)
        /\ Resume(r, c, u)
        /\ Sends(Then(ToOne(c, SyncFrame(r, n)), BroadcastChange(r, user_to_seat[r][u], n + 1)))

\* Mutant of DisconnectHandled: the two broadcasts share a number.
DisconnectUnderOneNumber(r, c) ==
    LET n == next_event_seq[r]
    IN  /\ NumbersLeft(r, 2)
        /\ Disconnect(r, c)
        /\ Sends(Then(BroadcastSync(r, n), BroadcastChange(r, SeatForConnection(r, c), n)))

DisconnectHandled(r, c) ==
    LET n == next_event_seq[r]
    IN  /\ NumbersLeft(r, 2)
        /\ Disconnect(r, c)
        /\ Sends(Then(BroadcastSync(r, n), BroadcastChange(r, SeatForConnection(r, c), n + 1)))

\* send_reject_to_connection, on the channel of the seat that c is routed to.
Rejected(r, c) ==
    /\ NumbersLeft(r, 1)
    /\ IF Routed(r, c) /\ players_by_seat[r][SeatForConnection(r, c)].outbound_tx # None
       THEN Sends(AnswerTo(players_by_seat[r][SeatForConnection(r, c)].outbound_tx,
                           r, next_event_seq[r]))
       ELSE UNCHANGED sent

RequestRejected(r, c) ==
    /\ ReadyUnregistered(r, c) \/ ActionUnregistered(r, c) \/ ActionRefused(r, c)
    /\ Rejected(r, c)

VerdictSent(r) == ActionVerdict(r) /\ Rejected(r, awaiting[r])

Silent(r, c) ==
    /\ ActionSubmitted(r, c) \/ DisconnectUnregistered(r, c)
    /\ UNCHANGED sent

RoomStep(r) ==
    \/ VerdictSent(r)
    \/ \E c \in Conns :
          \/ SeatUpdated(r, c) \/ RequestRejected(r, c) \/ Silent(r, c)
          \/ DisconnectHandled(r, c)
          \/ \E u \in Users :
                \/ JoinRefused(r, c, u) \/ ResumeRefused(r, c, u) \/ ResumeAccepted(r, c, u)
                \/ \E s \in Seats : JoinAccepted(r, c, u, s)

-----------------------------------------------------------------------------
(* The gateway and the manager.                                            *)

\* Mutant of GatewayAnswers: the counter is read, not advanced.
GatewayReadsCounter(c) ==
    /\ OthersLeft
    /\ Sends(AnswerTo(c, Gateway, next_gateway_seq))
    /\ UNCHANGED <<vars, next_gateway_seq>>

\* A Pong, or the rejection of a frame that the session does not understand.
GatewayAnswers(c) ==
    /\ OthersLeft
    /\ Sends(AnswerTo(c, Gateway, next_gateway_seq))
    /\ next_gateway_seq' = next_gateway_seq + 1
    /\ UNCHANGED vars

\* Mutant of ManagerRejects: the rejection has the first number of the gateway.
ManagerCountsFromOne(c) ==
    /\ OthersLeft
    /\ Sends(AnswerTo(c, Manager, 1))
    /\ UNCHANGED <<vars, next_gateway_seq>>

\* dispatch_ready, dispatch_resume and dispatch_player_action find no task for the
\* room that is named, one that is none of Rooms yet: it may be any.
ManagerRejects(c) ==
    /\ OthersLeft
    /\ Sends(AnswerTo(c, Manager, 0))
    /\ UNCHANGED <<vars, next_gateway_seq>>

NumberedNext ==
    \/ \E r \in Rooms : RoomStep(r) /\ UNCHANGED next_gateway_seq
    \/ \E c \in Conns : GatewayAnswers(c) \/ ManagerRejects(c)

NumberedSpec == NumberedInit /\ [][NumberedNext]_numbered

-----------------------------------------------------------------------------
(* Properties.                                                             *)

\* Channels hold frames with numbers that their source has given out, or with the
\* constant of the manager.
NumberedTypeOK ==
    /\ TypeOK
    /\ sent \in [Conns -> Seq(Frames)]
    /\ next_gateway_seq \in Nat
    /\ \A c \in Conns : \A i \in 1 .. Len(sent[c]) :
          LET frame == sent[c][i]
          IN  /\ frame.event_seq = 0 <=> frame.from = Manager
              /\ frame.from \in Rooms => frame.event_seq < next_event_seq[frame.from]
              /\ frame.from = Gateway => frame.event_seq < next_gateway_seq

\* A client that compares the numbers of one source sees its frames in the order
\* of the events: a number never goes back, although a handler sends several
\* frames and a connection may get them through the seats of several users.
FramesInOrder ==
    \A c \in Conns : \A i, j \in 1 .. Len(sent[c]) :
        i < j /\ sent[c][i].from = sent[c][j].from
            => sent[c][i].event_seq <= sent[c][j].event_seq

\* A number above 0 names one event: frames of one source that share it, on whatever
\* connections, are copies of one broadcast, and an answer is sent once.  The number 0
\* names none: whoever sent a frame with it, it is an answer, and any number of them
\* share it, so that a client that drops or repeats them misses no event.
NumberNamesEvent ==
    \A c, d \in Conns : \A i \in 1 .. Len(sent[c]), j \in 1 .. Len(sent[d]) :
        sent[c][i].event_seq = sent[d][j].event_seq =>
            IF sent[c][i].event_seq = 0
            THEN sent[c][i].payload = "Answer" /\ sent[d][j].payload = "Answer"
            ELSE sent[c][i].from = sent[d][j].from =>
                    /\ sent[c][i] = sent[d][j]
                    /\ sent[c][i].payload = "Answer" => c = d /\ i = j

\* What a client makes of a frame, as RoomTask says.
Apply(v, frame) ==
    IF frame.payload = "SyncState" THEN frame.table
    ELSE IF frame.payload = "PlayerConnectionChanged"
    THEN LET state == frame.table.players[frame.seat]
         IN  [v EXCEPT !.players[frame.seat] =
                 [state EXCEPT !.auto_play_enabled =
                     v.players[frame.seat].auto_play_enabled]]
    ELSE v

\* What a client knows of room r after so many of the frames, if it applies those
\* of the room with numbers up to n.
Readings(frames, r, n) ==
    LET known[i \in 0 .. Len(frames)] ==
            IF i = 0 THEN NoView
            ELSE IF frames[i].from = r /\ frames[i].event_seq <= n
            THEN Apply(known[i - 1], frames[i])
            ELSE known[i - 1]
    IN  known

\* The room r as the client of c knows it when it has read all up to number n.
ViewAt(c, r, n) == Readings(sent[c], r, n)[Len(sent[c])]

\* Two clients that have read up to the same number of a room see the same room,
\* whichever frames brought them there, a snapshot or a delta, and however often
\* they were disconnected or replaced in between.
SameNumberSameTable ==
    \A r \in Rooms, n \in 1 .. MaxSeq :
        LET reached == {c \in Conns : \E i \in 1 .. Len(sent[c]) :
                           sent[c][i].from = r /\ sent[c][i].event_seq = n}
        IN  Cardinality({ViewAt(c, r, n) : c \in reached}) <= 1

\* The frames themselves, read on the channel of a connected seat in the order in
\* which they were put there, give the room as it is: the view that RoomTask keeps
\* for the seat is what its client can know, also when the channel is shared by
\* two seats or was left and taken up again.
FramesTellTheTable ==
    \A r \in Rooms, s \in Seats :
        LET player == players_by_seat[r][s]
        IN  player.connected =>
                /\ ViewAt(player.outbound_tx, r, MaxSeq) = view[r][s]
                /\ view[r][s] = Snapshot(players_by_seat[r], phase[r])
=============================================================================
