----------------------------- MODULE RoomManager -----------------------------
(***************************************************************************)
(* RoomManager of src/room.rs, as the session tasks run it concurrently.   *)
(* A dispatch_* call of a session looks the room up under the read lock; a *)
(* join of an unknown room takes the write lock, looks again, spawns the   *)
(* room task and publishes its sender; then the command waits for a place  *)
(* in the task's bounded mailbox.  A room task takes one command at a time *)
(* and, for a player action, waits for the rule engine: first for one of   *)
(* the calls that the shared channel to the engine allows at a time, then  *)
(* for the answer.                                                         *)
(*                                                                         *)
(* The tasks of one room are numbered in the order they are spawned, so    *)
(* that two tasks for the same room would be told apart.                   *)
(***************************************************************************)
EXTENDS Integers, Sequences, FiniteSets

CONSTANTS
    Rooms,
    Sessions,      \* session tasks, one per websocket
    Visits,        \* <<session, room>>: the rooms that a session may name
    Buffer,        \* ROOM_COMMAND_BUFFER
    CallLimit,     \* concurrency_limit of the channel to the rule engine
    Unresponsive,  \* rooms whose call of the rule engine may never return
    Nobody         \* the write lock is free

ASSUME RoomsAssumption == "none" \notin Rooms
ASSUME VisitsAssumption == Visits \subseteq Sessions \X Rooms
ASSUME BufferAssumption == Buffer \in Nat \ {0}
ASSUME CallLimitAssumption == CallLimit \in Nat \ {0}
ASSUME UnresponsiveAssumption == Unresponsive \subseteq Rooms
ASSUME NobodyAssumption == Nobody \notin Sessions

\* A join creates the room; ready, resume, disconnect and player actions only
\* find it.  The last may make the task wait for the rule engine.
Commands == {"join", "find"}
Requests == [room : Rooms, kind : Commands]
NoRequest == [room |-> "none", kind |-> "none"]
NoTask == 0

VARIABLES
    rooms,    \* room -> number of the task whose sender is published, or NoTask
    spawned,  \* room -> how many tasks were spawned for it
    writer,   \* session that holds the write lock, or Nobody
    pc,       \* session -> where it stands in its dispatch_* call
    request,  \* session -> room and kind of the command it dispatches
    sender,   \* session -> task whose sender it holds, or NoTask
    mailbox,  \* room -> task -> commands that wait there
    calling   \* room -> task -> its call of the rule engine, if any

vars == <<rooms, spawned, writer, pc, request, sender, mailbox, calling>>

TaskIds == 1 .. 2    \* more than one task for a room is one too many

\* A call waits for the channel, or is with the engine.
CallStates == {"none", "queued", "sent"}
CallsSent == {t \in Rooms \X TaskIds : calling[t[1]][t[2]] = "sent"}

Locations == {"idle", "lookup", "lock", "recheck", "spawn", "insert", "send"}

Init ==
    /\ rooms = [r \in Rooms |-> NoTask]
    /\ spawned = [r \in Rooms |-> 0]
    /\ writer = Nobody
    /\ pc = [s \in Sessions |-> "idle"]
    /\ request = [s \in Sessions |-> NoRequest]
    /\ sender = [s \in Sessions |-> NoTask]
    /\ mailbox = [r \in Rooms |-> [k \in TaskIds |-> <<>>]]
    /\ calling = [r \in Rooms |-> [k \in TaskIds |-> "none"]]

-----------------------------------------------------------------------------
(* A session dispatches a command.                                         *)

Goto(s, l) == pc' = [pc EXCEPT ![s] = l]
Return(s) == Goto(s, "idle") /\ request' = [request EXCEPT ![s] = NoRequest]
Room(s) == request[s].room
HoldSender(s, k) == sender' = [sender EXCEPT ![s] = k]

\* dispatch_join, dispatch_ready, dispatch_resume, dispatch_player_action or
\* disconnect is called.
Dispatch(s, r, kind) ==
    /\ pc[s] = "idle"
    /\ <<s, r>> \in Visits
    /\ request' = [request EXCEPT ![s] = [room |-> r, kind |-> kind]]
    /\ Goto(s, "lookup")
    /\ UNCHANGED <<rooms, spawned, writer, sender, mailbox, calling>>

\* get_room_sender: the read lock is held for one lookup only.  Without a
\* task, a join goes on to create one and everything else is refused.
Lookup(s) ==
    /\ pc[s] = "lookup"
    /\ writer = Nobody
    /\ \/ /\ rooms[Room(s)] # NoTask
          /\ HoldSender(s, rooms[Room(s)])
          /\ Goto(s, "send") /\ UNCHANGED request
       \/ /\ rooms[Room(s)] = NoTask /\ request[s].kind = "join"
          /\ Goto(s, "lock") /\ UNCHANGED <<request, sender>>
       \/ /\ rooms[Room(s)] = NoTask /\ request[s].kind # "join"
          /\ Return(s) /\ UNCHANGED sender
    /\ UNCHANGED <<rooms, spawned, writer, mailbox, calling>>

\* get_or_create_room_sender: rooms.write().await
LockWrite(s) ==
    /\ pc[s] = "lock"
    /\ writer = Nobody
    /\ writer' = s
    /\ Goto(s, "recheck")
    /\ UNCHANGED <<rooms, spawned, request, sender, mailbox, calling>>

\* Mutant of Recheck: the lookup under the read lock is trusted.
NoRecheck(s) ==
    /\ pc[s] = "recheck"
    /\ Goto(s, "spawn")
    /\ UNCHANGED <<rooms, spawned, writer, request, sender, mailbox, calling>>

\* Another session may have created the room between the two locks.
Recheck(s) ==
    /\ pc[s] = "recheck"
    /\ IF rooms[Room(s)] # NoTask
       THEN /\ HoldSender(s, rooms[Room(s)])
            /\ writer' = Nobody
            /\ Goto(s, "send")
       ELSE /\ Goto(s, "spawn")
            /\ UNCHANGED <<writer, sender>>
    /\ UNCHANGED <<rooms, spawned, request, mailbox, calling>>

\* The channel is made and the task runs before its sender is published.
Spawn(s) ==
    /\ pc[s] = "spawn"
    /\ spawned' = [spawned EXCEPT ![Room(s)] = @ + 1]
    /\ Goto(s, "insert")
    /\ UNCHANGED <<rooms, writer, request, sender, mailbox, calling>>

\* Mutant of Insert: the lock is still held while the command is sent.
InsertKeepsLock(s) ==
    /\ pc[s] = "insert"
    /\ rooms' = [rooms EXCEPT ![Room(s)] = spawned[Room(s)]]
    /\ HoldSender(s, spawned[Room(s)])
    /\ Goto(s, "send")
    /\ UNCHANGED <<spawned, writer, request, mailbox, calling>>

Insert(s) ==
    /\ pc[s] = "insert"
    /\ rooms' = [rooms EXCEPT ![Room(s)] = spawned[Room(s)]]
    /\ HoldSender(s, spawned[Room(s)])
    /\ writer' = Nobody
    /\ Goto(s, "send")
    /\ UNCHANGED <<spawned, request, mailbox, calling>>

\* send_command: waits for a place in the mailbox.  It cannot fail, because
\* the manager's own sender keeps the task alive.
Send(s) ==
    LET r == Room(s)
        k == sender[s]
    IN  /\ pc[s] = "send"
        /\ Len(mailbox[r][k]) < Buffer
        /\ mailbox' = [mailbox EXCEPT ![r][k] = Append(@, request[s].kind)]
        /\ HoldSender(s, NoTask)
        /\ Return(s)
        /\ UNCHANGED <<rooms, spawned, writer, calling>>

-----------------------------------------------------------------------------
(* The room tasks.                                                         *)

\* run_room_task: the next command, handled without the rule engine.
Receive(r, k) ==
    /\ calling[r][k] = "none"
    /\ mailbox[r][k] # <<>>
    /\ mailbox' = [mailbox EXCEPT ![r][k] = Tail(@)]
    /\ UNCHANGED <<rooms, spawned, writer, pc, request, sender, calling>>

\* A player action that the rule engine is asked about.
ReceiveAction(r, k) ==
    /\ calling[r][k] = "none"
    /\ mailbox[r][k] # <<>>
    /\ Head(mailbox[r][k]) = "find"
    /\ calling' = [calling EXCEPT ![r][k] = "queued"]
    /\ mailbox' = [mailbox EXCEPT ![r][k] = Tail(@)]
    /\ UNCHANGED <<rooms, spawned, writer, pc, request, sender>>

\* Mutant of CallSent: the channel takes calls without a limit.
CallSentUnlimited(r, k) ==
    /\ calling[r][k] = "queued"
    /\ calling' = [calling EXCEPT ![r][k] = "sent"]
    /\ UNCHANGED <<rooms, spawned, writer, pc, request, sender, mailbox>>

\* The channel, which all rooms share, lets the call through.
CallSent(r, k) ==
    /\ calling[r][k] = "queued"
    /\ Cardinality(CallsSent) < CallLimit
    /\ calling' = [calling EXCEPT ![r][k] = "sent"]
    /\ UNCHANGED <<rooms, spawned, writer, pc, request, sender, mailbox>>

\* validate_action returns, with a verdict or an error.
EngineReturns(r, k) ==
    /\ calling[r][k] = "sent"
    /\ calling' = [calling EXCEPT ![r][k] = "none"]
    /\ UNCHANGED <<rooms, spawned, writer, pc, request, sender, mailbox>>

-----------------------------------------------------------------------------
Resolve(s) == Lookup(s) \/ LockWrite(s) \/ Recheck(s) \/ Spawn(s) \/ Insert(s)

Next ==
    \/ \E s \in Sessions :
          \/ \E r \in Rooms, kind \in Commands : Dispatch(s, r, kind)
          \/ Resolve(s)
          \/ Send(s)
    \/ \E r \in Rooms, k \in TaskIds :
          \/ Receive(r, k) \/ ReceiveAction(r, k)
          \/ CallSent(r, k) \/ EngineReturns(r, k)

Spec == Init /\ [][Next]_vars

\* tokio runs every task that can run, and queues waiters for a lock, for a
\* mailbox place and for the channel to the rule engine first come first served,
\* so that a waiter that can go on again and again does go on.  The rule engine
\* answers for some rooms only: the call has no timeout.
Fairness ==
    /\ \A s \in Sessions : WF_vars(Resolve(s)) /\ SF_vars(Send(s))
    /\ \A r \in Rooms :
          /\ WF_vars(\E k \in TaskIds : Receive(r, k) \/ ReceiveAction(r, k))
          /\ SF_vars(\E k \in TaskIds : CallSent(r, k))
    /\ \A r \in Rooms \ Unresponsive :
          WF_vars(\E k \in TaskIds : EngineReturns(r, k))

FairSpec == Spec /\ Fairness

-----------------------------------------------------------------------------
(* Properties.                                                             *)

\* Maps, lock and call positions have their types; mailboxes and the channel to
\* the rule engine keep their bounds.
TypeOK ==
    /\ rooms \in [Rooms -> TaskIds \cup {NoTask}]
    /\ spawned \in [Rooms -> Nat]
    /\ writer \in Sessions \cup {Nobody}
    /\ pc \in [Sessions -> Locations]
    /\ request \in [Sessions -> Requests \cup {NoRequest}]
    /\ \A s \in Sessions : pc[s] = "idle" <=> request[s] = NoRequest
    /\ sender \in [Sessions -> TaskIds \cup {NoTask}]
    /\ \A r \in Rooms, k \in TaskIds :
          /\ mailbox[r][k] \in Seq(Commands) /\ Len(mailbox[r][k]) <= Buffer
          /\ calling[r][k] \in CallStates
    /\ Cardinality(CallsSent) <= CallLimit

\* However many sessions join an unknown room at once, one task is spawned for
\* it, and it is the published one: no player ends up in a second copy.
OneTaskPerRoom ==
    \A r \in Rooms :
        /\ spawned[r] <= 1
        /\ rooms[r] # NoTask => rooms[r] = spawned[r]
        /\ (\A s \in Sessions : ~(Room(s) = r /\ pc[s] = "insert"))
           => spawned[r] = rooms[r]

\* Every command goes to the task that later commands will go to as well.
SendersArePublished ==
    \A s \in Sessions :
        pc[s] = "send" => sender[s] # NoTask /\ sender[s] = rooms[Room(s)]

\* A session gets past its call for a room that works, even when other rooms
\* wait for the rule engine for ever and their mailboxes are full, as long as
\* they are fewer than the calls that the channel to the engine allows.
StuckRoomHarmsOnlyItself ==
    \A s \in Sessions, r \in Rooms \ Unresponsive :
        pc[s] # "idle" /\ Room(s) = r ~> pc[s] = "idle"

-----------------------------------------------------------------------------
(* Refinement.                                                             *)

\* What a request asks of the directory.
Asked(q) == [room |-> q.room, create |-> q.kind = "join"]
Asks == [s \in Sessions |-> Asked(request[s])]

Directory ==
    INSTANCE RoomDirectory WITH directory <- rooms, asks <- Asks, handle <- sender

\* Lookup, lock, second lookup and insertion look like one atomic step.
ImplementsDirectory == Directory!Spec
=============================================================================
