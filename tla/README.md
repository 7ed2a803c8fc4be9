# A formal model of the GB Mahjong game server

The repository is the skeleton of a server for four-player GB Mahjong: a Rust
service (axum, tokio, tonic) that talks protobuf over websockets to the players,
and a C++ service that judges and settles winning hands. What the Rust service
does today is seat players in rooms, follow their readiness, survive their
reconnects and pass their actions to the rule engine; tiles are not dealt yet. This directory models
that behaviour in TLA+, checks it with TLC and proves the main results with TLAPS.

## 1. The system: parts, state, interaction

| part | source | state it keeps | operations |
|---|---|---|---|
| websocket session | `src/ws.rs` | `current_room_id`; its outbound channel | one per socket: a loop that reads a message or writes a frame, hands commands to the room manager, and tells the remembered room when the socket ends |
| application state | `src/app.rs` | counters for connection ids and gateway event numbers | `allocate_connection_id`, `next_event_seq` |
| room manager | `src/room.rs` 59-289 | map from room id to the sender of the room's mailbox, behind a read/write lock | `dispatch_join` creates rooms; `dispatch_ready`, `dispatch_resume`, `dispatch_player_action`, `disconnect` find them |
| room task | `src/room.rs` 291-781, 1039-1203 | `players_by_seat`, `user_to_seat`, `connection_to_user`, `phase`, `next_event_seq` | an actor: `Join`, `Ready`, `ResumeSession`, `PlayerAction`, `Disconnect`, one at a time |
| action translation | `src/room.rs` 783-1037, 1304-1403 | none | client action -> `ValidateActionRequest`, or a reject code |
| rule engine client | `src/engine.rs` | a channel to the engine | `validate_action`, without a timeout; `calculate_score` is never called |
| rule engine | `cpp_engine/src` | none | `ValidateAction`, `CalculateScore` |
| fan calculation | `cpp_engine/third_party/GB-Mahjong` | the prefixes seen, during a search | vendored: `JudgeHu`, `CountFan` |
| start-up, wire format, schema | `src/main.rs`, `proto/`, `sql/` | none at run time | the schema is used by no code yet |

A frame of a client is decoded by its session, which stays in the `dispatch_*`
call until the command lies in the room's mailbox (256 places). The session
holds the manager's lock only to look the room up or to insert it. The room task
takes commands in order; for a player action it awaits the rule engine inside the
handler and takes nothing else meanwhile. Frames go back through unbounded
channels, one per connection, that the room keeps in its player slots. Nothing
is persisted, and a room task lives as long as the server.

What is hard about it:

* **Two indexes and a table.** A command names a connection; `connection_to_user`
  and `user_to_seat` lead it to a slot, and the slot names a connection again.
  Four handlers change these in different ways, in any order, also for a client
  that uses one connection as two users, or resumes on the connection it is on.
* **Late commands.** A socket that was replaced by a resume still sends its
  `Disconnect` afterwards, through another session task.
* **Full and partial frames.** A resume sends a snapshot to one seat and a delta
  to the others.
* **Concurrent creation.** Joins of an unknown room race between the read and the
  write lock.
* **Waiting.** A bounded mailbox, a lock and a rule engine call without a timeout
  can all stop a session.
* **One loop for both directions.** While a session writes, or waits for a
  mailbox, it reads nothing, not even that its client has gone. A client that is lost
  without a word is noticed by a write at best: there is no timeout and no ping.
* **Numbers.** A handler sends several frames to several clients under numbers of
  its own; a client knows the order of events by them only.
* **A search that prunes.** Whether a hand wins, and what it is worth, hangs on a
  search that skips what it takes for known.
* **Remembered rooms.** A session remembers one room only, and overwrites it
  before the request is dispatched and whatever becomes of it.

`PROJECT.json` lists each hazard at its line, with the properties about it.

What makes each part correct: a room never has two seats for a user nor two
players for a seat, and acts for a seat only on behalf of the connection that
holds it; its phase follows readiness; connected players know the truth. The
manager never has two tasks for a room, and one stuck room stops nobody else.
Sessions get every request answered or handed on, end when their socket
fails, and release their seats then. Event numbers identify and order the frames, and two clients at
the same number know the same room. Translated actions mean what the client sent.
Settlements sum to zero and are about the tiles that were sent, and the search finds every
way to win.

## 2. The modules

```
   SeatTable  <-- refined by --  RoomTask        RoomManager  -- refines --> RoomDirectory
                                  ^    ^              :
                          extends |    | extends      : stands behind the atomic lookup of
                                  |    |              :
                      EventNumbers    Server  <.......:.......>  WebSocketSession
                                        (sessions in short)    (one session in full)

   ActionTranslation  -- extends -->  RuleEngine  <-- extends --  Settlement

   WinningHand   (what RuleEngine and Settlement leave open: does a hand win)
```

| module | models | TLC instance | proofs |
|---|---|---|---|
| `RoomTask` | the room task, every handler | `MCRoomTask` | `RoomTaskProofs` |
| `SeatTable` | what a room promises, without indexes and frames | through `RoomTask` | `RoomTaskProofs` |
| `EventNumbers` | the frames that the handlers send, with their numbers and channels | `MCEventNumbers` | `EventNumbersProofs` |
| `RoomManager` | concurrent `dispatch_*` calls, lock, mailboxes | `MCRoomManager` | `RoomManagerProofs` |
| `RoomDirectory` | what the manager promises: an atomic lookup | through `RoomManager` | `RoomManagerProofs` |
| `WebSocketSession` | the loop of one websocket | itself | `WebSocketSessionProofs` |
| `Server` | sessions, mailboxes and room tasks together | `MCServer` | `ServerProofs` |
| `ActionTranslation` | a player action on its way to the rule engine and back | `MCActionTranslation` | `ActionTranslationProofs` |
| `RuleEngine` | `ValidateAction` of the engine, as operators | through `ActionTranslation` | |
| `Settlement` | `CalculateScore` of the engine | `MCSettlement` | `SettlementProofs` |
| `WinningHand` | the search of the vendored library for sets and pairs | `MCWinningHand` | `WinningHandProofs` |

### RoomTask

Each variable is a function of the room. `players_by_seat`, `user_to_seat` and
`connection_to_user` are the maps of `RoomState`, total functions with `NoPlayer`,
`NoSeat` and `None` for a missing entry. A connection id stands for its outbound
channel too, since a session makes both together. Each handler is one action per
outcome: `HandleJoin` is `JoinAlreadyJoined`, `JoinRoomFull` or `JoinSeated`, and
so on; an early return of the code is a conjunct of the guard. A player action
takes two actions, `ActionSubmitted` and `ActionVerdict`, because the handler
waits for the rule engine between them; `awaiting` is the waiting connection, and
`Idle` keeps every other handler out. A resume token is abstracted to right
(`Resume`) or wrong (`ResumeBadToken`).

`view` is what the connected client of a seat knows if it applies the frames the
room sends it: `SyncState` replaces it (`SyncSent`), `PlayerConnectionChanged`
corrects user, status and connection of one seat (`ChangeSent`). Every frame that
carries table state is a `SyncState` or a `PlayerConnectionChanged`; the others
are answers.

Left out, because no handler looks at it: scores, winds, wall counters, names,
request ids and the contents of an action. The two "lost player seat mapping"
errors of `handle_resume` (541, 569) have no action: they would need a user with
a seat that has no slot, which `SeatIndexAgrees` excludes (the model's maps could
represent it).

### SeatTable

Seats with an owner, a holder, a ready mark, an auto play switch, and whether the
hand is dealt. `Take`, `Hold`, `Release`, `SetReady` and `SetAuto` are all that
can happen. It says at a glance what the indexes of the room task are for, and
`RoomTask!ImplementsSeatTable` is the refinement.

### RoomManager

One process per session, whose `pc` walks through `get_or_create_room_sender`:
`Lookup` (the read lock is held for the length of one lookup, so it is part of
the step and waits for a writer), `LockWrite`, `Recheck`, `Spawn`, `Insert`, then
`Send`, which waits for a place in the mailbox with no lock held. Tasks of a room
are numbered, so that a second one would show. Sessions send commands of two
kinds: a `join` creates the room, anything else (`find`) needs one. A room task
receives a command, and a `find` may be an action that it puts to the rule engine
(`ReceiveAction`). All rooms share one channel to the engine, which allows 32
calls at a time (`CallLimit`): a call is first `queued`, then `sent` (`CallSent`),
and ends with `EngineReturns`, which a room in `Unresponsive` may wait for in vain.

### RoomDirectory

`Found`, `Created` and `TurnedAway` as atomic steps: the promise that lets
`Server` treat the directory as a set `exists`.

### Server

Extends `RoomTask` with one session per connection and a mailbox per room.
`Handle(r)` takes the head of the mailbox and is the handler of `RoomTask` for
it. `Logins` says which client asks for which user and room. `waiting` is the
client's side: the kind of request it has not yet seen an answer for; a client of
the model sends its next request after an answer, or goes. `Close` may come at
any moment when the session is in its select loop; the session then still waits
for a mailbox place to deliver its `Disconnect`.

### EventNumbers

Extends `RoomTask`: each of its actions is a handler of `RoomTask` together with
what it puts into the channels, in the order of the code. `sent` is the whole
history of every channel; what a client has read is a prefix of it. A frame has its
source (a room, `Gateway` or `Manager`), its number, what it carries and, for a snapshot
or a delta, the table. `Copies` is one frame per connected seat, so a connection that
two users share gets two. The gateway's answers (`GatewayAnswers`) are numbered by
the counter of `src/app.rs`; the rejections of requests for a room without a task
(`ManagerRejects`, `src/room.rs` 133, 164, 195, 246) all have the
number 0. `view` of `RoomTask` is a summary that the model keeps; here
`FramesTellTheTable` compares it with what a client makes of the frames themselves.

Left out: `self_seat`, in which copies of a broadcast differ.

### WebSocketSession

`handle_socket` of one connection, with `pc` for the place where it waits: `select`,
`write` (a frame that the socket has yet to take), `dispatch` (a command that waits
for a mailbox place), `end` (its `Disconnect` waits) and `gone`. `TakeFrame` and `Read`
are the two branches of `select!`. A message is one of those whose
handling differs: `Gateway`, which the session answers itself (a heartbeat, and three
kinds it does not understand), `JoinRoom` and `FindRoom`, which name a room and of which
only the first creates it (the other is a resume or an action), `Ready`, which goes to
the remembered room, and the websocket's `Ping`, `Pong` and `Close`. `Dispatched` is the call of the
manager with its early return for a room without a task. The loop ends by `WriteFails`,
`ReadClose`, `ReceiveFails` (an error, or the end of the stream) and, for the pong that
a `Ping` asks for, by a failed write too; `Ends` is what follows.

The client sends at any time, reads when it likes, and may be lost at any time, with
what it had sent partly delivered: either the socket is told (`PeerGone`: the connection
is closed or reset), or it is not (`PeerLost`: a cable is pulled). The loop has no timeout
and sends no ping, so that in the second case the session learns of it only when the
socket does (`SocketReports`). A room's frames (`RoomSends`)
come at any time, and its task takes commands (`Take`) unless it is in `Unresponsive`.

### ActionTranslation and RuleEngine

What `RoomTask` abstracts to "accepted or refused", for one room and one request
at a time: reading the client's fields, the three parts of the request to the
engine (candidate action, recent action, claim window), the engine's verdict and
the reject code of the answer. `CandidateError`, `RecentActionError` and
`ClaimWindowError` are the error paths of the three builders, in the order in which
each reads its fields; `??` is Rust's `?`, the first error counts. A field is the
name of an enum value or `NotInEnum`. Both sides declare enum values of the same
names, so that the maps between them keep the name. A handler ends with
`HandlerReturns`; until then `Idle` keeps out every `OtherCommand`.

`RuleEngine` has the engine's answer as a set of possible outcomes. What
`Fan::JudgeHu` says of a complete hand is left open, as is everything that the
room does not look at. `melds` and `concealed` count the tiles that the request
shows of the actor's hand: always none, since no tiles are dealt.

Left out: rule configuration, round context, players' scores, texts. The handler
is entered with a connection that has a seat; the other case is in `RoomTask`.
The no-op engine of `src/engine.rs`, which accepts everything, is a default for
tests and not modelled.

### Settlement

Extends `RuleEngine` with `CalculateScore`: `FindWinnerHand`, the two kinds of
snapshot (thirteen tiles and the winning one apart, or fourteen with it) that are
brought into the order of the library (`Lipai`), and the points (`Delta`). What a
hand is worth is any of `Fans`. Requests are what the interface admits: hands in any
order, flagged or not, for seats that may come twice or not at all. Every exception is answered
`InvalidArgument`. `judged` is no part of the answer; it records what the library was
asked about.

Left out: flags for the library, fan details, settlement flags, and the width of the
points, which are far from 32 bits for the fans and base points of the game.

### WinningHand

`Fan::_Dfs` as `JudgeHu` and `CountFan` call it, over the places of the sorted tiles:
the lowest free tile starts a pair or a set with tiles near it (`Tries`, in the order
of the loops), a prefix of packs that was met before is skipped (`PacksHashcode` in
`seen`), and the first way is enough for `JudgeHu` (`Enough`). The calls of
`_Dfs_recursive` that have not returned are the stack `calls`, each with the tries that
its loops have left: `TryNext` is one round of the innermost loops, with the call that
it makes, and `Return` the end of a call. `phase` is the caller: `JudgeHu` looks for seven pairs, then
for sets and a pair (`NoQidui`), the hand is lost (`NoHu`) or `CountFan` searches it once more
(`Hu`, `CountEnds`), each with an empty `seen`. `Init` has every sorted hand of the
tiles that are left and every place of the winning tile. The tiles are numbered through,
as in the library, so that the last of a suit and the first of the next are
neighbours in number. The reference is below it: `WaysOfHand` are the bags of sets
and a pair that take exactly the tiles held, and `WithLast` marks the packs that may
have been completed by the winning tile.

Left out: thirteen orphans and knitted hands, the values of fans, and where open
melds came from (`Melds` only says how many sets are missing).

## 3. What is checked

All runs are exhaustive. `events` and `session` take two to three minutes, `hands`,
`manager_liveness` and `server_liveness` one to two, the others less.

| run | instance | properties |
|---|---|---|
| `room_safety` | 1 room of 3 seats, 4 users, 3 connections | `TypeOK`, `SeatIndexAgrees`, `RouteEndsAtOwnSeat`, `BindingConsistent`, `DealingIffAllReady`, `ViewsCurrent`, `AwaitingIsRouted`, `SeatingIsPermanent`, `OnlyOwnDisconnect`, `ImplementsSeatTable` |
| `room_one_user` | the same, one user per connection | `ConnectedSeatsAreRouted` |
| `events` | 1 room of 2 seats, 2 users, 2 connections, ten numbers | `NumberedTypeOK`, `FramesInOrder`, `NumberNamesEvent`, `SameNumberSameTable`, `FramesTellTheTable` |
| `manager_safety` | 2 rooms, 3 sessions that go anywhere, mailboxes of 1, 1 call at a time | `TypeOK`, `OneTaskPerRoom`, `SendersArePublished`, `ImplementsDirectory` |
| `manager_liveness` | 3 rooms, one of which may never get an answer from the engine, 2 sessions, one of which may go there, 2 calls at a time | `StuckRoomHarmsOnlyItself` |
| `session` | 1 connection, 2 rooms, one of which may be stuck, mailboxes of 1, 2 messages and a room's frame waiting | `TypeOK`, `NothingAfterDisconnect`, `EndIsNoticed`, `LastRoomIsTold`, `RequestsAreHandled` |
| `server_liveness` | 1 room, 2 users, 3 connections (one user comes back on another), mailbox of 1 | `JoinsAndResumesAreAnswered`, `ClosedConnectionsAreReleased` |
| `server_rooms` | 2 rooms, one connection that moves between them, another that stays | `LastRoomIsReleased` |
| `server_ready` | as `server_liveness` | `ReadiesAreAnswered`: **violated** |
| `translation` | 2 seats, 1 tile, every wire value of every field, 2 event numbers named by clients | `TypeOK`, `CandidateDecides`, `ContextsAgree`, `JudgedAsOfNow`, `TwoWaysToWinAgree`, `NoWinWithoutHand` |
| `settlement` | 4 lists of hands, 9 ways to fill them, every kind of win, winner and discarder, 2 fans | `SettlesToZero`, `TilesAreKept` |
| `hands` | all 1046 closed hands from 20 tiles of two suits and an honour, 14 places of the winning tile each | `JudgedRight`, `EveryWayIsCounted` |

What the main properties say:

* `RouteEndsAtOwnSeat`: a connection's command can only act on the seat whose slot
  names that connection. With `OnlyOwnDisconnect` it is why a late `Disconnect`
  of a replaced socket cannot put the player offline.
* `ViewsCurrent`: whoever is connected knows the phase and all seats as they are.
  It rests on a delta never following a change of what it does not carry.
* `ConnectedSeatsAreRouted` needs clients that use one connection as one user.
  Without that assumption it is false: a connection that joins as a second user
  loses the route to its first seat, which stays "connected" and silent until its
  user resumes. `room_safety` does not make the assumption, so that the other
  invariants hold for all clients.
* `FramesInOrder` and `NumberNamesEvent` are what a client may rely on when it orders
  and deduplicates by number. Both are per source, for the room and the gateway count
  apart, and the manager does not count: the number 0 names no event and is on answers
  only, any number of them. Frames that carry state come from the room alone, but an
  `ActionRejected` may come from any of the three and does not say which, so a client
  must not deduplicate rejections by their number.
  `SameNumberSameTable`: it does not matter by which frames a client got to a number.
* `EndIsNoticed`: a session that waits inside a branch of `select!` takes no message;
  still it ends when the socket is told that the client is gone, or when something is
  written, or waits to be written, to a client that was lost silently (`LossShows`). It
  does not notice a loss while it waits for the mailbox of a stuck room, nor, idle, the
  silent loss of a client that nothing is sent to: TLC shows that a session may then
  stay for ever, with its seat connected, as the loop of `ws.rs` 39-99 is written.
* `LastRoomIsTold` starts where `EndIsNoticed` does, or at a close of the client.
* `RequestsAreHandled` needs a client that reads (`WF_vars(ClientReads(c))` is part of
  the property): one that pings and never reads stops its own session.
* `NothingAfterDisconnect`: the session awaits each `dispatch_*`, so a request cannot
  overtake the `Disconnect` and take a seat that nobody will release.
* `StuckRoomHarmsOnlyItself`: a session that wants a room whose engine answers
  gets through, although another room never takes a command again, its mailbox is
  full and a session waits there. It rests on there being fewer such rooms than
  calls the channel allows: with `CallLimit = 1` TLC finds the stuck room's call
  holding the only place and the action of a healthy room queued behind it for
  ever. In the server the limit is 32, so 32 rooms whose call never returns stop
  the player actions of all the others.
* `ClosedConnectionsAreReleased` holds for clients that use one room and one user
  per connection. `LastRoomIsReleased` is what remains for a connection that
  moves from room to room: only the room it named last is told. A seat it took in
  an earlier room stays connected, which is how the session is written.
* `CandidateDecides`: recent action and claim window read nothing the candidate
  action has not read, so the reject code does not depend on whether the action
  came with a window id. `ContextsAgree` and `TwoWaysToWinAgree` are about what is
  then sent: three accounts of one action, built by three functions, and two ways
  to declare the same win.
* `NoWinWithoutHand`: as long as the room sends no hand, every win is refused
  (`InvalidContext`, which the client sees as `InvalidRequest`).

* `SettlesToZero`: the winner's points are computed from the number of hands, those
  of the others one by one. They match for a table of four (`FourAtTheTable`), and
  need not for a request that has a seat twice or no discarder.
* No property relates the hand that is judged to the seat that is paid: the code judges
  the first hand that is flagged *or* sits at the winner's seat, and pays the seat. A
  flag on another hand parts the two, and nothing says what a caller means by it.
* `JudgedRight`, `EveryWayIsCounted`: the comment at `_PacksHashcode` (`fan.cpp` 1199)
  counts on five packs of 11 bits. The search for seven pairs has prefixes of up to
  seven packs; their number does not fit into 64 bits, and the shift (1205) is then
  undefined in C++17. The model keeps the bits that compilers keep: no hand is lost, for
  the packs of a prefix start with ever higher tiles, and the lowest is the same in all.

### The violated property

`handle_ready` meets a connection without a seat with a `NotInRoom` rejection,
"connection is not registered in this room" (`src/room.rs` 485-489). It sends it
with `send_reject_to_connection`, which looks the connection up in
`connection_to_user` (1114), where it was just not found, and returns. The
rejection is never sent. TLC's trace: c1 resumes in a room that does not exist
(the session remembers the room all the same), c3 joins and so creates the room,
c1 sends a `ReadyRequest` and waits for ever. `handle_player_action` has the same
path (606-616).

### Bounds

* Three seats instead of four. No handler distinguishes seats but by the order in
  which they are filled and by "all of them"; three seats have a first, a last and
  one between. A fourth user finds the room full. Three connections are enough
  for a seat to be taken over twice and for one connection to be used by two
  users. The proofs hold for any numbers.
* `MaxSeq`: event numbers above it are not told apart (`Counted`). No handler reads
  the number, so no behaviour is cut off.
* `Buffer = 1` instead of 256: a full mailbox is the interesting case, and it needs
  one waiting command here.
* `TaskIds == 1..2` in `RoomManager`: one task is right, a second one is already a
  violation.
* `events`: `MaxSeq = 11` leaves the room ten numbers, just those of two joins, a
  disconnect and a resume, with every other sequence that needs no more. A handler
  runs only while it has all its numbers. A frame of the gateway or of the manager
  costs two of them (`OtherShare`), so that it meets every handler, before and after, and
  up to five of these frames meet each other.
* `session`: two messages in the socket make one wait while another is handled, and
  let a close come behind a request; one frame of a room beside the session's own
  answers makes both branches ready at once. Connections share nothing but mailboxes:
  what two of them do in one mailbox is left to `Server` and the proofs.
* `settlement`: the points depend on seats, the kind of win, the base points (below and
  above 1) and the number of hands; the judged hand on its place, the flags and its
  tiles. `MCRequests` crosses the two, and adds requests with one thing missing.
* `hands`: suits of four tiles have overlapping runs, and three of a kind three times
  in a row can be taken apart in two ways. `Left` bounds the copies of a tile that a
  hand may have; it leaves four of one (two equal pairs), seven different pairs, and tiles
  on both sides of the border of the suits.
* `server_*` have one seat per room: what differs with more of them is the room
  task's business, and `server_liveness` was also run with two (295993 states).
* `Visits` says which rooms the sessions of `RoomManager` may name. In
  `manager_liveness` each session has a room of its own, and one of them may also go
  to the stuck room, where it fills the mailbox and waits, or from where it comes
  back while the stuck room keeps its call.
* `CallLimit` is 1 in `manager_safety`, where two calls compete for it, and 2 in
  `manager_liveness`, one more than the stuck rooms.
* `translation`: two seats (actor and another), one real tile beside
  `Unspecified`, `Unknown` and `NotInEnum`: no translation compares two seats or two
  tiles, it only tells real values from these. `Consumed` has an empty list, a good
  one and one whose second tile is bad. `SourceSeqs` and `MaxSeq` are small because
  event numbers are passed on and never compared.
* Symmetry over users and connections, or rooms and sessions, is used only in runs
  without liveness properties.
* The server runs switch the deadlock check off: all clients may leave, and then
  nothing is left to do.

### Fairness

Liveness is claimed under what tokio gives. Every task that can run is run (weak
fairness of a session's steps and of a room's `Handle`/`Receive`). tokio's
`RwLock` and the permits of an `mpsc` channel queue their waiters in order of
arrival, so a sender of a mailbox that drains again and again gets its place
(strong fairness of `Send` and `Enqueue`). The limit of concurrent calls is a
semaphore of tokio as well (strong fairness of `CallSent`, per room). The rule engine answers, or fails, for
the rooms that are not in `Unresponsive`; nothing is assumed for the others,
because the call has no timeout. `select!` polls its branches in random order, so a branch that is ready again
and again is taken at last (strong fairness of `TakeFrame` and of `Read`, not of one
kind of message), and a write ends when the socket takes it or fails
(weak fairness of the two together). Of the operating system it is assumed that a
socket reports the end or the reset of a connection that it knows of (`ReceiveFails` is
part of `Read`), and that it gives up at last, as TCP does, a connection on which what
was written is not acknowledged (weak fairness of `SocketReports` while there is such a
frame). Nothing makes it find out about a client that is lost silently while nothing is
written. Of clients nothing is assumed: they need not send, read, close or say that they
leave.

## 4. What is proved

For every number of rooms, users, connections, seats and sessions, from the
assumptions that are named in the modules (`SeatCount` is a positive number,
`None` is no user or connection, `Nobody` is no session, a suit has a tile, and of a tile
there are four at most):

* `RoomTaskProofs!Invariant`. `IInv` is the conjunction of the seven invariants of
  `room_safety`. They are inductive only together: that a handler writes the slot
  it means to write needs `RouteEndsAtOwnSeat`; that `RouteEndsAtOwnSeat` survives
  a resume needs `SeatIndexAgrees` and `BindingConsistent` (the connection removed
  from the index is the one that held the seat); `ViewsCurrent` needs
  `BindingConsistent`. The proof treats all handlers alike. `SeatWritten` says
  what a step does that writes one slot and brings indexes and views up to date,
  `SeatStep` proves once that such a step preserves `IInv`, and a lemma per handler
  shows it is such a step. `TypeCorrect`, `SeatIndexCorrect`, `RoutesCorrect`,
  `BindingsCorrect`, `DealingCorrect`, `ViewsCorrect` and `VerdictsCorrect` follow.
* `RoomTaskProofs!RefinesSeatTable`: every handler is a step of `SeatTable` or
  changes nothing there, under `IInv`. `SeatingCorrect` and `DisconnectsCorrect`
  are the two action properties, from the same invariant.
* `RoomTaskProofs!NoGhostSeats`, under `SpecOneUser`: `ConnectedSeatsAreRouted`. It is
  inductive together with `IInv` (`OneUserIInv`): as every connected seat is routed and a
  connection speaks for one user, it holds one seat (`OneSeatPerConnection`), and no
  handler can take a route that another seat needs.
* `RoomManagerProofs!OneTask` and `SendersCorrect`. The strengthening says that past
  the write lock there is one session only (`LockIsHeld`), that it found no task
  (`CreatorIsAlone`), and that a spawned task is published but for that session's
  moment between the two (`SpawnedIsPublished`). `TypeCorrect` adds the bounds of
  mailboxes and of the calls, and `Refinement` is `ImplementsDirectory`: the atomic
  lookup happens when a session reads the map or publishes the task.
* `ServerProofs!ServerImplementsRooms`: `ServerSpec => Spec`. Sessions and mailboxes add
  to a room task nothing that `RoomTask` does not allow for, because what waits in a
  mailbox is a command with a connection and a user of the right kind (`GatewayOK`).
  All theorems about rooms hold for the server by it: `ServerRoutesCorrect`,
  `ServerViewsCorrect`, `ServerDisconnectsCorrect` and `ServerRefinesSeatTable` say so of
  `RouteEndsAtOwnSeat`, `ViewsCurrent`, `OnlyOwnDisconnect` and the refinement.
* `ServerProofs!EndingInvariant`, and from it `ServerIsOneUser`, `ServerHasNoGhostSeats`
  and `ReleaseIsOnItsWay`, for any rooms and mailboxes, if the logins of a connection name one
  user (`OneUserLogins`, as in both instances of `Server` that are run). What is in the
  mailboxes is part of it: a join or resume there has the user of its login, so that a
  connection keeps its user in every room (`LoginsAreKept`); behind a `Disconnect` there is
  nothing of its connection (`SessionsEnd`); and for a session that is gone the last room
  it asked for has either nothing of it left, bound or waiting, or its `Disconnect` in
  the mailbox (`GoneAreReleased`). That the `Disconnect` then frees every seat of the connection
  needs `ConnectedSeatsAreRouted`, without which it would find no route. `ReleaseIsOnItsWay` is
  what `LastRoomIsReleased` says but for the time that the room takes.
* `EventNumbersProofs!OrderCorrect`, `NumbersAreEvents`, `NumberedTypeCorrect`, for the
  frames of rooms, gateway and manager and for all
  numbers, of which `events` sees ten. A *batch* (`Batch`) is what a part of a handler
  sends: frames of one source with numbers from `lo` below `hi`, in order, and
  equal numbers only on copies of one frame. One frame is a batch (`OneBatch`), a
  broadcast is (`SeatsBatch`), and a batch behind a batch that goes on where the first
  ends is one as well (`ThenBatch`). So is each handler, and since all numbers sent before
  are below the counter (`GivenOut`), the channels keep the order when it is appended.
  The manager's answers are in none of this (`Uncounted`): since counters start at 1, no
  batch has the number 0, and nobody's numbers are touched (`ManagerNumbering`).
* `EventNumbersProofs!TellingInvariant`, and from it `FramesTellCorrect` and
  `SameTableCorrect`: what clients make of the frames themselves, however many there are.
  The reading of a channel is a recursive function over its frames. The library's
  induction cannot be used for it, so `UpTo` gives induction over a *set* of positions, from
  the well-foundedness of `<`; `ReadAfter` and `ReadNothing` are what it yields: a batch is
  read from where the channel ended, and frames of other sources or with later numbers tell
  nothing. What a handler puts on a channel is `Told`: answers, snapshots of the new
  table, and the change of a seat either behind a snapshot or for a client that
  knew the table before, where the change makes the difference. After such frames a
  client knows the new table once it has read one that is more than an answer, else what
  it knew (`ReadTold`). The
  strengthening `TellingIInv` adds to the numbering that the channel of every connected seat
  ends at the room's snapshot (`ChannelsTell`) and that equal numbers mean equal tables
  (`NumbersTell`). The delta of a resume is the hard case: it reaches clients that got
  no snapshot, and is right because they had the table (`ChannelsTell`) and only that
  seat has changed. `NumberedRooms` adds that rooms with their frames are still rooms.
* `WebSocketSessionProofs!TypeCorrect` and `DisconnectsAreLast`, for any bounds and with
  any rooms stuck. The strengthening says that a `Disconnect` is not what a session
  waits with inside its loop, that one in a mailbox is from a session that is gone
  (`DisconnectsAtTheEnd`), and that no command of its connection is behind it
  (`DisconnectsAreOrdered`).
* `ActionTranslationProofs!Invariant`: while the engine is asked, what it was asked is
  the translation of the request at hand at the present event number
  (`AskedAsTranslated`), and a handler that has answered asks no more
  (`AnsweredOnce`). All six invariants of `translation` follow, for any seats, tiles,
  lists of consumed tiles and event numbers: `NoNewErrors` says that the second and
  third translation find no error of their own, `OneStory` that the contexts agree
  for each kind of action, `SameContexts` that a claim and a declared win do,
  `TranslationType` that what is sent has the engine's types.
* `SettlementProofs!ZeroSum`, for all requests of the interface and all fans: with four
  hands at four seats the winner's sum and the payers' shares are the same terms for each
  kind of win.
* `WinningHandProofs!Searches`, and from it `HandsAreJudgedRight` and `EveryWayCounts`, for
  any suits, ranks and honours, 0 to 4 melds and any hand. A way is a sequence of packs that
  takes the tiles of the hand, with the winning tile in one of them (`FullWays`); what
  is found is a bag, for the order of packs does not count. The strengthening for the
  search of sets (`BasicInv`) says of every call that its packs and its free tiles are
  the hand (`BasicNode`), and of every prefix in `seen` that no way which starts with it is
  lost (`NothingLost`): the bag of such a way is found already, or a call *at least as deep
  as the prefix* has a try left that leads to a way of the same bag. It is the depth that
  makes this inductive. A try that is skipped was seen before, so its ways are found or come from a deeper
  call, never from the try that is skipped (`BasicTry`). A call that is new owes every way
  through its packs, and `NewCall` pays: of a way that is still open some pack holds the
  lowest free tile, that pack brought forward is a way of the same bag
  (`SwapFullWay`), and the loops try it (`SomeTry`), because what lies between its tiles
  is equal to one of them (`ShunziTry`, `EqualTry`) and no break comes before it. When no call is left,
  the empty prefix says that every way is found. Five packs have a number of their own, which is all
  that this search needs of `PacksHashcode`.
* The search for seven pairs is another matter (`PairInv`), for numbers of six and seven
  packs are not their own. It prunes nothing that matters because it never goes
  back on an even hand (`StraightOn`): the lowest free tile finds its equal next to it
  (`EvenGoesOn`), and no prefix of the packs of a straight search has the number of a shorter one
  (`NewPrefix`), since with at most four of a tile no three packs have the same middle (`NoThreeAlike`).
  A hand that is not even has no seven pairs whatever the search does (`PairsAreEven`).
* `SettlementProofs!TilesCorrect`, for hands of any length: taking out the first place
  of a tile and putting the tile at the end is a permutation of the places
  (`MovedTiles`), so the library gets the bag of tiles that the snapshot stands for.

Model-checked only:

Everything that needs fairness (`StuckRoomHarmsOnlyItself`, `EndIsNoticed`,
`LastRoomIsTold`, `RequestsAreHandled`, the liveness properties of `Server`), which the prover
does not reach.

This is all: every other property of a passing run is a theorem.

## 5. Not modelled, and the plan

Left out, with the reason:

* Start-up code (it reads the environment and binds ports), the wire format and the
  database schema (declarations; no code uses the schema), build scripts and the
  vendored console.
* The reconnect grace period and the action timeout. They are announced to clients
  and enforced by no code, so no step of the server is theirs; `SeatingIsPermanent`
  says what this means for a seat.
* What no part of the server decides by: scores, winds and wall counters, rule
  configuration, names, request ids, texts.
* The bound of the outbound channels: there is none, and a client that does not read
  lets frames pile up for as long as its socket lives.
* A network that comes back: a client that is lost silently stays lost.
* In the rule engine: derived actions, fan details, follow-ups, explanations. In the
  vendored library: the hands that are not made of sets and a pair, and what a fan is worth,
  which is a table of rules rather than a program with a state.

The modules were written in this order: the room task and its abstract table, the
manager and its directory, the server, the translation with the engine, then the
session, event numbers, settlement and search; then the proofs, the readings of a
channel, the tiles of a settlement and the search last. All that the plan had is done; what
could come next is the hands that are not made of sets, each a comparison with a pattern.
