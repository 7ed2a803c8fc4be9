-------------------------- MODULE RoomManagerProofs --------------------------
(* Proofs about the room manager for every number of rooms and sessions.   *)
EXTENDS RoomManager, FiniteSetTheorems, TLAPS

\* Types of what the directory is made of.
DirectoryType ==
    /\ rooms \in [Rooms -> {0, 1}]
    /\ spawned \in [Rooms -> {0, 1}]
    /\ writer \in Sessions \cup {Nobody}
    /\ pc \in [Sessions -> Locations]
    /\ request \in [Sessions -> Requests \cup {NoRequest}]
    /\ sender \in [Sessions -> TaskIds \cup {NoTask}]
    /\ \A s \in Sessions : pc[s] # "idle" => request[s] \in Requests

\* A session is past the write lock exactly while it holds it.
LockIsHeld ==
    \A s \in Sessions : pc[s] \in {"recheck", "spawn", "insert"} <=> writer = s

\* Who is about to spawn has seen no task under the lock; who is about to
\* publish has spawned the only one.
CreatorIsAlone ==
    \A s \in Sessions :
        /\ pc[s] = "spawn" => rooms[Room(s)] = 0
        /\ pc[s] = "insert" => rooms[Room(s)] = 0 /\ spawned[Room(s)] = 1

\* Tasks and published senders agree, but for the moment between the two.
SpawnedIsPublished ==
    \A r \in Rooms :
        spawned[r] = rooms[r] \/ \E s \in Sessions : pc[s] = "insert" /\ Room(s) = r

IInv ==
    /\ DirectoryType
    /\ LockIsHeld
    /\ CreatorIsAlone
    /\ SpawnedIsPublished
    /\ SendersArePublished

USE DEF NoTask, TaskIds, Goto, Return, HoldSender, Room

\* A request names a room.
LEMMA RequestHasRoom == ASSUME NEW q \in Requests PROVE q.room \in Rooms
BY DEF Requests

\* A manager without rooms satisfies the invariant.
LEMMA InitIInv == Init => IInv
BY NobodyAssumption DEF Init, IInv, DirectoryType, LockIsHeld, CreatorIsAlone,
   SpawnedIsPublished, SendersArePublished, Locations, NoRequest

-----------------------------------------------------------------------------
(* Steps that leave the directory alone.                                   *)

\* What a room task does, and a stutter.
LEMMA TaskStep ==
    ASSUME IInv, UNCHANGED <<rooms, spawned, writer, pc, request, sender>>
    PROVE  IInv'
BY DEF IInv, DirectoryType, LockIsHeld, CreatorIsAlone, SpawnedIsPublished,
   SendersArePublished

\* A dispatch_* call begins.
LEMMA DispatchStep ==
    ASSUME IInv, NEW s \in Sessions, NEW r \in Rooms, NEW kind \in Commands,
           Dispatch(s, r, kind)
    PROVE  IInv'
<1> USE DEF IInv, Dispatch, Locations, Requests
<1>1. DirectoryType'
  BY DEF DirectoryType
<1>2. LockIsHeld'
  BY DEF DirectoryType, LockIsHeld
<1>3. CreatorIsAlone'
  BY DEF DirectoryType, CreatorIsAlone
<1>4. SpawnedIsPublished'
  BY DEF DirectoryType, SpawnedIsPublished
<1>5. SendersArePublished'
  BY DEF DirectoryType, SendersArePublished
<1> QED
  BY <1>1, <1>2, <1>3, <1>4, <1>5

\* get_room_sender.
LEMMA LookupStep ==
    ASSUME IInv, NEW s \in Sessions, Lookup(s)
    PROVE  IInv'
<1>0. request[s].room \in Rooms
  BY RequestHasRoom DEF IInv, DirectoryType, Lookup
<1> USE <1>0 DEF IInv, Lookup, Locations
<1>1. DirectoryType'
  BY DEF DirectoryType
<1>2. LockIsHeld'
  BY DEF DirectoryType, LockIsHeld
<1>3. CreatorIsAlone'
  BY DEF DirectoryType, CreatorIsAlone
<1>4. SpawnedIsPublished'
  BY DEF DirectoryType, SpawnedIsPublished
<1>5. SendersArePublished'
  BY DEF DirectoryType, SendersArePublished
<1> QED
  BY <1>1, <1>2, <1>3, <1>4, <1>5

\* send_command ends the call.
LEMMA SendStep ==
    ASSUME IInv, NEW s \in Sessions, Send(s)
    PROVE  IInv'
<1> USE DEF IInv, Send, Locations
<1>1. DirectoryType'
  BY DEF DirectoryType
<1>2. LockIsHeld'
  BY DEF DirectoryType, LockIsHeld
<1>3. CreatorIsAlone'
  BY DEF DirectoryType, CreatorIsAlone
<1>4. SpawnedIsPublished'
  BY DEF DirectoryType, SpawnedIsPublished
<1>5. SendersArePublished'
  BY DEF DirectoryType, SendersArePublished
<1> QED
  BY <1>1, <1>2, <1>3, <1>4, <1>5

-----------------------------------------------------------------------------
(* Steps under the write lock.                                             *)

\* The write lock is taken.
LEMMA LockWriteStep ==
    ASSUME IInv, NEW s \in Sessions, LockWrite(s)
    PROVE  IInv'
<1> USE NobodyAssumption DEF IInv, LockWrite, Locations
<1>1. DirectoryType'
  BY DEF DirectoryType
<1>2. LockIsHeld'
  BY DEF DirectoryType, LockIsHeld
<1>3. CreatorIsAlone'
  BY DEF DirectoryType, CreatorIsAlone
<1>4. SpawnedIsPublished'
  BY DEF DirectoryType, SpawnedIsPublished
<1>5. SendersArePublished'
  BY DEF DirectoryType, SendersArePublished
<1> QED
  BY <1>1, <1>2, <1>3, <1>4, <1>5

\* The second lookup.
LEMMA RecheckStep ==
    ASSUME IInv, NEW s \in Sessions, Recheck(s)
    PROVE  IInv'
<1>0. request[s].room \in Rooms
  BY RequestHasRoom DEF IInv, DirectoryType, Recheck
<1> USE <1>0, NobodyAssumption DEF IInv, Recheck, Locations
<1>1. DirectoryType'
  BY DEF DirectoryType
<1>2. LockIsHeld'
  BY DEF DirectoryType, LockIsHeld
<1>3. CreatorIsAlone'
  BY DEF DirectoryType, CreatorIsAlone
<1>4. SpawnedIsPublished'
  BY DEF DirectoryType, SpawnedIsPublished
<1>5. SendersArePublished'
  BY DEF DirectoryType, SendersArePublished
<1> QED
  BY <1>1, <1>2, <1>3, <1>4, <1>5

\* The room task is spawned before its sender is published.
LEMMA SpawnStep ==
    ASSUME IInv, NEW s \in Sessions, Spawn(s)
    PROVE  IInv'
<1>0. request[s].room \in Rooms
  BY RequestHasRoom DEF IInv, DirectoryType, Spawn
<1>1. \A t \in Sessions : pc[t] = "insert" => t = s
  BY DEF IInv, LockIsHeld, Spawn
<1>2. rooms[request[s].room] = 0 /\ spawned[request[s].room] = 0
  BY <1>0, <1>1 DEF IInv, CreatorIsAlone, SpawnedIsPublished, Spawn
<1> USE <1>0, <1>2 DEF IInv, Spawn, Locations
<1>3. DirectoryType'
  BY DEF DirectoryType
<1>4. LockIsHeld'
  BY DEF DirectoryType, LockIsHeld
<1>5. CreatorIsAlone'
  BY <1>1 DEF DirectoryType, CreatorIsAlone, LockIsHeld
<1>6. SpawnedIsPublished'
  BY DEF DirectoryType, SpawnedIsPublished
<1>7. SendersArePublished'
  BY DEF DirectoryType, SendersArePublished
<1> QED
  BY <1>3, <1>4, <1>5, <1>6, <1>7

\* The sender is published and the lock released.
LEMMA InsertStep ==
    ASSUME IInv, NEW s \in Sessions, Insert(s)
    PROVE  IInv'
<1>0. request[s].room \in Rooms
  BY RequestHasRoom DEF IInv, DirectoryType, Insert
<1>1. \A t \in Sessions : pc[t] \in {"recheck", "spawn", "insert"} => t = s
  BY DEF IInv, LockIsHeld, Insert
<1>2. rooms[request[s].room] = 0 /\ spawned[request[s].room] = 1
  BY DEF IInv, CreatorIsAlone, Insert
<1> USE <1>0, <1>2, NobodyAssumption DEF IInv, Insert, Locations
<1>3. DirectoryType'
  BY DEF DirectoryType
<1>4. LockIsHeld'
  BY DEF DirectoryType, LockIsHeld
<1>5. CreatorIsAlone'
  BY <1>1 DEF DirectoryType, CreatorIsAlone
<1>6. SpawnedIsPublished'
  BY <1>1 DEF DirectoryType, SpawnedIsPublished
<1>7. SendersArePublished'
  BY DEF DirectoryType, SendersArePublished
<1> QED
  BY <1>3, <1>4, <1>5, <1>6, <1>7

-----------------------------------------------------------------------------
\* Every step preserves the invariant.
LEMMA NextIInv == ASSUME IInv, [Next]_vars PROVE IInv'
<1>1. CASE UNCHANGED vars
  BY <1>1, TaskStep DEF vars
<1>2. ASSUME NEW s \in Sessions,
             (\E r \in Rooms, kind \in Commands : Dispatch(s, r, kind))
               \/ Resolve(s) \/ Send(s)
      PROVE  IInv'
  BY <1>2, DispatchStep, LookupStep, LockWriteStep, RecheckStep, SpawnStep,
     InsertStep, SendStep DEF Resolve
<1>3. ASSUME NEW r \in Rooms, NEW k \in TaskIds,
             \/ Receive(r, k) \/ ReceiveAction(r, k)
             \/ CallSent(r, k) \/ EngineReturns(r, k)
      PROVE  IInv'
  BY <1>3, TaskStep DEF Receive, ReceiveAction, CallSent, EngineReturns
<1> QED
  BY <1>1, <1>2, <1>3 DEF Next

\* IInv holds in every reachable state, for every number of rooms and sessions.
THEOREM Invariant == Spec => []IInv
BY InitIInv, NextIInv, PTL DEF Spec

\* However many sessions join at once, a room has one task, the published one
\* (get_or_create_room_sender).
THEOREM OneTask == Spec => []OneTaskPerRoom
<1>1. IInv => OneTaskPerRoom
  <2> SUFFICES ASSUME IInv, NEW r \in Rooms
               PROVE  /\ spawned[r] <= 1
                      /\ rooms[r] # 0 => rooms[r] = spawned[r]
                      /\ (\A s \in Sessions : ~(request[s].room = r /\ pc[s] = "insert"))
                         => spawned[r] = rooms[r]
    BY DEF OneTaskPerRoom
  <2>1. spawned[r] \in {0, 1} /\ rooms[r] \in {0, 1}
    BY DEF IInv, DirectoryType
  <2>2. CASE spawned[r] = rooms[r]
    BY <2>1, <2>2
  <2>3. CASE \E s \in Sessions : pc[s] = "insert" /\ request[s].room = r
    BY <2>1, <2>3 DEF IInv, CreatorIsAlone
  <2> QED
    BY <2>2, <2>3 DEF IInv, SpawnedIsPublished
<1> QED
  BY <1>1, Invariant, PTL

\* Whoever holds a sender holds the one that everybody else finds
\* (get_room_sender, get_or_create_room_sender).
THEOREM SendersCorrect == Spec => []SendersArePublished
<1>1. IInv => SendersArePublished
  BY DEF IInv
<1> QED
  BY <1>1, Invariant, PTL

-----------------------------------------------------------------------------
(* Mailboxes and calls of the rule engine.                                 *)

\* The rest of the types: mailboxes and the channel to the rule engine within
\* their bounds, and no request while a session is idle.
QueueType ==
    /\ mailbox \in [Rooms -> [TaskIds -> Seq(Commands)]]
    /\ \A r \in Rooms, k \in TaskIds : Len(mailbox[r][k]) <= Buffer
    /\ calling \in [Rooms -> [TaskIds -> CallStates]]
    /\ \A s \in Sessions : pc[s] = "idle" <=> request[s] = NoRequest
    /\ IsFiniteSet(CallsSent)
    /\ Cardinality(CallsSent) <= CallLimit

\* A manager without rooms has empty mailboxes and no call.
LEMMA InitQueue == Init => QueueType
<1> SUFFICES ASSUME Init PROVE QueueType
  OBVIOUS
<1>1. CallsSent = {}
  BY DEF Init, CallsSent
<1>2. IsFiniteSet(CallsSent) /\ Cardinality(CallsSent) = 0
  BY <1>1, FS_EmptySet
<1> QED
  BY <1>2, BufferAssumption, CallLimitAssumption DEF Init, QueueType, CallStates

\* Calls that do not change stay within the limit.
LEMMA SameCalls ==
    ASSUME QueueType, UNCHANGED calling
    PROVE  IsFiniteSet(CallsSent)' /\ (Cardinality(CallsSent) <= CallLimit)'
<1>1. CallsSent' = CallsSent
  BY DEF CallsSent
<1> QED
  BY <1>1 DEF QueueType

\* A session that looks for its sender leaves the queues alone.
LEMMA ResolveQueue ==
    ASSUME IInv, QueueType, NEW s \in Sessions, Resolve(s)
    PROVE  QueueType'
<1>1. UNCHANGED <<mailbox, calling>>
  BY DEF Resolve, Lookup, LockWrite, Recheck, Spawn, Insert
<1>2. \A t \in Sessions : (pc[t] = "idle" <=> request[t] = NoRequest)'
  <2>1. /\ pc \in [Sessions -> Locations]
        /\ request \in [Sessions -> Requests \cup {NoRequest}]
        /\ \A t \in Sessions : pc[t] = "idle" <=> request[t] = NoRequest
    BY DEF IInv, DirectoryType, QueueType
  <2>2. \/ \E l \in {"lock", "recheck", "spawn", "insert", "send"} :
             Goto(s, l) /\ UNCHANGED request
        \/ Return(s)
    BY DEF Resolve, Lookup, LockWrite, Recheck, Spawn, Insert
  <2>3. pc[s] # "idle"
    BY DEF Resolve, Lookup, LockWrite, Recheck, Spawn, Insert
  <2> QED  BY <2>1, <2>2, <2>3
<1> QED
  BY <1>1, <1>2, SameCalls DEF QueueType

\* A new request is not NoRequest.
LEMMA DispatchQueue ==
    ASSUME IInv, QueueType, NEW s \in Sessions, NEW r \in Rooms, NEW kind \in Commands,
           Dispatch(s, r, kind)
    PROVE  QueueType'
<1>1. \A t \in Sessions : (pc[t] = "idle" <=> request[t] = NoRequest)'
  <2>1. [room |-> r, kind |-> kind] # NoRequest
    BY DEF NoRequest, Commands
  <2> QED  BY <2>1 DEF IInv, DirectoryType, QueueType, Dispatch
<1> QED
  BY <1>1, SameCalls DEF QueueType, Dispatch

\* send_command waits until the mailbox has a place.
LEMMA SendQueue ==
    ASSUME IInv, QueueType, NEW s \in Sessions, Send(s)
    PROVE  QueueType'
<1> DEFINE r == request[s].room
           k == sender[s]
           box == mailbox[r][k]
           command == request[s].kind
<1>1. r \in Rooms /\ command \in Commands
  <2>1. request[s] \in Requests
    BY DEF IInv, DirectoryType, Send
  <2> QED  BY <2>1 DEF Requests
<1>2. k \in TaskIds
  BY DEF IInv, DirectoryType, SendersArePublished, Send
<1>3. box \in Seq(Commands) /\ Len(box) < Buffer
  BY <1>1, <1>2 DEF QueueType, Send
<1>4. /\ Append(box, command) \in Seq(Commands)
      /\ Len(Append(box, command)) <= Buffer
  BY <1>1, <1>3, BufferAssumption
<1>5. mailbox' = [mailbox EXCEPT ![r][k] = Append(box, command)]
  BY DEF Send
<1>6. UNCHANGED calling /\ pc' = [pc EXCEPT ![s] = "idle"]
        /\ request' = [request EXCEPT ![s] = NoRequest]
  BY DEF Send
<1>7. \A t \in Sessions : (pc[t] = "idle" <=> request[t] = NoRequest)'
  BY <1>6 DEF IInv, DirectoryType, QueueType
<1> HIDE DEF r, k, box, command
<1>8. /\ mailbox' \in [Rooms -> [TaskIds -> Seq(Commands)]]
      /\ \A q \in Rooms, j \in TaskIds : Len(mailbox'[q][j]) <= Buffer
  BY <1>1, <1>2, <1>4, <1>5 DEF QueueType
<1> QED
  BY <1>6, <1>7, <1>8, SameCalls DEF QueueType

\* A command that is received makes its mailbox shorter.
LEMMA ReceiveQueue ==
    ASSUME QueueType, NEW r \in Rooms, NEW k \in TaskIds,
           mailbox[r][k] # <<>>,
           mailbox' = [mailbox EXCEPT ![r][k] = Tail(@)]
    PROVE  /\ mailbox' \in [Rooms -> [TaskIds -> Seq(Commands)]]
           /\ \A q \in Rooms, j \in TaskIds : Len(mailbox'[q][j]) <= Buffer
<1> DEFINE box == mailbox[r][k]
<1>1. box \in Seq(Commands) /\ box # <<>> /\ Len(box) <= Buffer
  BY DEF QueueType
<1>2. Tail(box) \in Seq(Commands) /\ Len(Tail(box)) <= Buffer
  BY <1>1, BufferAssumption
<1>3. mailbox' = [mailbox EXCEPT ![r][k] = Tail(box)]
  OBVIOUS
<1> HIDE DEF box
<1> QED
  BY <1>2, <1>3 DEF QueueType

\* One call changes its state: the calls that are sent gain or lose it at most.
LEMMA CallQueue ==
    ASSUME QueueType, NEW r \in Rooms, NEW k \in TaskIds, NEW state \in CallStates,
           calling' = [calling EXCEPT ![r][k] = state],
           state = "sent" => Cardinality(CallsSent) < CallLimit
    PROVE  /\ calling' \in [Rooms -> [TaskIds -> CallStates]]
           /\ IsFiniteSet(CallsSent)' /\ (Cardinality(CallsSent) <= CallLimit)'
<1>1. calling' \in [Rooms -> [TaskIds -> CallStates]]
  BY DEF QueueType
<1>2. \A t \in Rooms \X TaskIds : t # <<r, k>> =>
         calling'[t[1]][t[2]] = calling[t[1]][t[2]]
  BY DEF QueueType
<1>3. CallsSent' \subseteq CallsSent \cup {<<r, k>>}
  BY <1>2 DEF CallsSent
<1>4. calling'[r][k] = state
  BY DEF QueueType
<1>5. state # "sent" => CallsSent' \subseteq CallsSent
  BY <1>2, <1>4 DEF CallsSent
<1>6. Cardinality(CallsSent) \in Nat /\ IsFiniteSet(CallsSent)
        /\ Cardinality(CallsSent) <= CallLimit
  BY FS_CardinalityType DEF QueueType
<1>7. CASE state # "sent"
  <2>1. IsFiniteSet(CallsSent') /\ Cardinality(CallsSent') <= Cardinality(CallsSent)
           /\ Cardinality(CallsSent') \in Nat
    BY <1>5, <1>6, <1>7, FS_Subset, FS_CardinalityType
  <2> QED  BY <1>1, <1>6, <2>1, CallLimitAssumption
<1>8. CASE state = "sent"
  <2> DEFINE more == CallsSent \cup {<<r, k>>}
  <2>0. /\ IsFiniteSet(more)
        /\ Cardinality(more) \in {Cardinality(CallsSent), Cardinality(CallsSent) + 1}
    BY <1>6, FS_AddElement
  <2>1. IsFiniteSet(more) /\ Cardinality(more) <= Cardinality(CallsSent) + 1
           /\ Cardinality(more) \in Nat
    BY <1>6, <2>0
  <2>2. IsFiniteSet(CallsSent') /\ Cardinality(CallsSent') <= Cardinality(more)
           /\ Cardinality(CallsSent') \in Nat
    BY <1>3, <2>1, FS_Subset, FS_CardinalityType
  <2> HIDE DEF more
  <2> QED  BY <1>1, <1>6, <1>8, <2>1, <2>2, CallLimitAssumption
<1> QED
  BY <1>7, <1>8

\* What a room task does with its mailbox and its call.
LEMMA TaskQueue ==
    ASSUME QueueType, NEW r \in Rooms, NEW k \in TaskIds,
           \/ Receive(r, k) \/ ReceiveAction(r, k)
           \/ CallSent(r, k) \/ EngineReturns(r, k)
    PROVE  QueueType'
<1>1. UNCHANGED <<pc, request>>
  BY DEF Receive, ReceiveAction, CallSent, EngineReturns
<1>2. CASE Receive(r, k)
  BY <1>1, <1>2, ReceiveQueue, SameCalls DEF QueueType, Receive
<1>3. CASE ReceiveAction(r, k)
  BY <1>1, <1>3, ReceiveQueue, CallQueue DEF QueueType, ReceiveAction, CallStates
<1>4. CASE CallSent(r, k)
  BY <1>1, <1>4, CallQueue DEF QueueType, CallSent, CallStates
<1>5. CASE EngineReturns(r, k)
  BY <1>1, <1>5, CallQueue DEF QueueType, EngineReturns, CallStates
<1> QED
  BY <1>2, <1>3, <1>4, <1>5

\* Every step keeps the mailboxes and the channel within their bounds.
LEMMA QueueStep == ASSUME IInv, QueueType, [Next]_vars PROVE QueueType'
<1>1. CASE UNCHANGED vars
  BY <1>1, SameCalls DEF QueueType, vars
<1> QED  BY <1>1, DispatchQueue, ResolveQueue, SendQueue, TaskQueue DEF Next

\* Maps, lock and call positions have their types; mailboxes and the channel to
\* the rule engine keep their bounds (send_command, TonicRuleEngine::new).
THEOREM TypeCorrect == Spec => []TypeOK
<1>1. IInv /\ QueueType /\ [Next]_vars => QueueType'
  BY QueueStep
<1>2. IInv /\ QueueType => TypeOK
  <2> SUFFICES ASSUME DirectoryType, QueueType PROVE TypeOK
    BY DEF IInv
  <2>1. /\ rooms \in [Rooms -> TaskIds \cup {NoTask}]
        /\ spawned \in [Rooms -> Nat]
    BY DEF DirectoryType
  <2>2. /\ writer \in Sessions \cup {Nobody}
        /\ pc \in [Sessions -> Locations]
        /\ request \in [Sessions -> Requests \cup {NoRequest}]
        /\ sender \in [Sessions -> TaskIds \cup {NoTask}]
    BY DEF DirectoryType
  <2>3. \A r \in Rooms, k \in TaskIds :
          /\ mailbox[r][k] \in Seq(Commands) /\ Len(mailbox[r][k]) <= Buffer
          /\ calling[r][k] \in CallStates
    BY DEF QueueType
  <2> QED
    BY <2>1, <2>2, <2>3 DEF QueueType, TypeOK
<1>3. IInv /\ [Next]_vars => IInv'
  BY NextIInv
<1> QED
  BY InitIInv, InitQueue, <1>1, <1>2, <1>3, PTL DEF Spec

-----------------------------------------------------------------------------
(* The manager implements the directory.                                   *)

\* A sender is held from the moment it was found until the command is sent;
\* only a join gets past the first lookup without one.
HandlesAreHeld ==
    \A s \in Sessions :
        /\ pc[s] # "send" => sender[s] = 0
        /\ pc[s] \in {"lock", "recheck", "spawn", "insert"} => request[s].kind = "join"

RefinementIInv == IInv /\ QueueType /\ HandlesAreHeld

\* HandlesAreHeld is an invariant.
LEMMA HandlesStep ==
    ASSUME RefinementIInv, [Next]_vars
    PROVE  HandlesAreHeld'
<1>1. /\ pc \in [Sessions -> Locations]
      /\ request \in [Sessions -> Requests \cup {NoRequest}]
      /\ sender \in [Sessions -> TaskIds \cup {NoTask}]
      /\ HandlesAreHeld
  BY DEF RefinementIInv, IInv, DirectoryType
<1>2. CASE UNCHANGED vars
  BY <1>1, <1>2 DEF vars, HandlesAreHeld
<1>3. ASSUME NEW s \in Sessions, NEW r \in Rooms, NEW kind \in Commands,
             Dispatch(s, r, kind)
      PROVE  HandlesAreHeld'
  BY <1>1, <1>3 DEF Dispatch, HandlesAreHeld
<1>4. ASSUME NEW s \in Sessions, Resolve(s) PROVE HandlesAreHeld'
  BY <1>1, <1>4 DEF Resolve, Lookup, LockWrite, Recheck, Spawn, Insert, HandlesAreHeld
<1>5. ASSUME NEW s \in Sessions, Send(s) PROVE HandlesAreHeld'
  BY <1>1, <1>5 DEF Send, HandlesAreHeld
<1>6. ASSUME NEW r \in Rooms, NEW k \in TaskIds,
             \/ Receive(r, k) \/ ReceiveAction(r, k)
             \/ CallSent(r, k) \/ EngineReturns(r, k)
      PROVE  HandlesAreHeld'
  BY <1>1, <1>6 DEF Receive, ReceiveAction, CallSent, EngineReturns, HandlesAreHeld
<1> QED
  BY <1>2, <1>3, <1>4, <1>5, <1>6 DEF Next

\* A session that asks for nothing has no request, and the other way round.
LEMMA AskedNothing ==
    /\ Asked(NoRequest) = Directory!Nothing
    /\ \A q \in Requests : Asked(q) # Directory!Nothing /\ Asked(q) \in Directory!Requests
<1>1. Asked(NoRequest) = Directory!Nothing
  BY DEF Asked, NoRequest, Directory!Nothing
<1>2. ASSUME NEW q \in Requests
      PROVE  Asked(q) # Directory!Nothing /\ Asked(q) \in Directory!Requests
  <2>1. q.room \in Rooms
    BY DEF Requests
  <2>2. Asked(q).room = q.room /\ Directory!Nothing.room = "none"
    BY DEF Asked, Directory!Nothing
  <2>3. Asked(q) # Directory!Nothing
    BY <2>1, <2>2, RoomsAssumption
  <2>4. Asked(q) \in Directory!Requests
    BY <2>1, Zenon DEF Asked, Directory!Requests
  <2> QED  BY <2>3, <2>4
<1> QED
  BY <1>1, <1>2

\* A request that is written is what the session asks for.
LEMMA AsksWritten ==
    ASSUME NEW s \in Sessions, NEW q,
           request \in [Sessions -> Requests \cup {NoRequest}],
           request' = [request EXCEPT ![s] = q]
    PROVE  Asks' = [Asks EXCEPT ![s] = Asked(q)]
<1>1. \A t \in Sessions : Asked(request'[t]) = IF t = s THEN Asked(q) ELSE Asked(request[t])
  OBVIOUS
<1> HIDE DEF Asked
<1> QED
  BY <1>1 DEF Asks

\* Every step of the manager is one of the directory or a stutter.
LEMMA DirectoryStep ==
    ASSUME RefinementIInv, [Next]_vars
    PROVE  [Directory!Next]_(Directory!vars)
<1>1. /\ pc \in [Sessions -> Locations]
      /\ request \in [Sessions -> Requests \cup {NoRequest}]
      /\ sender \in [Sessions -> TaskIds \cup {NoTask}]
      /\ rooms \in [Rooms -> {0, 1}]
      /\ HandlesAreHeld
      /\ \A s \in Sessions : pc[s] = "idle" <=> request[s] = NoRequest
      /\ \A s \in Sessions : pc[s] # "idle" => request[s] \in Requests
  BY DEF RefinementIInv, IInv, DirectoryType, QueueType
<1>2. \A s \in Sessions : pc[s] # "idle" =>
         Asks[s] # Directory!Nothing /\ Asks[s].room = request[s].room
  BY <1>1, AskedNothing DEF Asks, Asked
<1>3. ASSUME UNCHANGED <<rooms, request, sender>> PROVE UNCHANGED Directory!vars
  BY <1>3 DEF Directory!vars, Asks
<1>4. CASE UNCHANGED vars
  BY <1>3, <1>4 DEF vars
<1>5. ASSUME NEW s \in Sessions, NEW r \in Rooms, NEW kind \in Commands,
             Dispatch(s, r, kind)
      PROVE  Directory!Next
  <2> DEFINE q == [room |-> r, kind |-> kind]
  <2>1. q \in Requests
    BY DEF Requests
  <2>2. Asks[s] = Directory!Nothing
    BY <1>1, <1>5, AskedNothing DEF Dispatch, Asks
  <2>3. Asks' = [Asks EXCEPT ![s] = Asked(q)]
    BY <1>1, <1>5, AsksWritten DEF Dispatch
  <2>4. UNCHANGED <<rooms, sender>>
    BY <1>5 DEF Dispatch
  <2> HIDE DEF q
  <2>5. Asked(q) \in Directory!Requests
    BY <2>1, AskedNothing
  <2>6. Directory!Ask(s, Asked(q))
    BY <2>2, <2>3, <2>4 DEF Directory!Ask
  <2> QED  BY <2>5, <2>6 DEF Directory!Next
<1>6. ASSUME NEW s \in Sessions, pc[s] # "idle", sender[s] = 0,
             rooms[Room(s)] # NoTask, HoldSender(s, rooms[Room(s)]),
             UNCHANGED <<rooms, request>>
      PROVE  Directory!Next
  <2>1. rooms[request[s].room] = 1
    BY <1>1, <1>6, RequestHasRoom
  <2>2. UNCHANGED Asks
    BY <1>6 DEF Asks
  <2>3. Directory!Found(s)
    BY <1>2, <1>6, <2>1, <2>2 DEF Directory!Found
  <2> QED  BY <2>3 DEF Directory!Next
<1>7. ASSUME NEW s \in Sessions, Lookup(s) PROVE [Directory!Next]_(Directory!vars)
  <2>0. pc[s] # "idle" /\ sender[s] = 0 /\ request[s] \in Requests /\ UNCHANGED rooms
    BY <1>1, <1>7 DEF Lookup, HandlesAreHeld
  <2>1. CASE rooms[Room(s)] # NoTask /\ HoldSender(s, rooms[Room(s)]) /\ UNCHANGED request
    BY <1>6, <2>0, <2>1
  <2>2. CASE UNCHANGED <<request, sender>>
    BY <1>3, <2>0, <2>2
  <2>3. CASE rooms[Room(s)] = NoTask /\ request[s].kind # "join" /\ Return(s)
             /\ UNCHANGED sender
    <3>1. Asks' = [Asks EXCEPT ![s] = Directory!Nothing]
      BY <1>1, <2>3, AsksWritten, AskedNothing
    <3>2. ~Asks[s].create
      BY <2>3 DEF Asks, Asked
    <3>3. Directory!TurnedAway(s)
      BY <1>2, <2>0, <2>3, <3>1, <3>2 DEF Directory!TurnedAway
    <3> QED  BY <3>3 DEF Directory!Next
  <2> QED  BY <1>7, <2>1, <2>2, <2>3 DEF Lookup
<1>8. ASSUME NEW s \in Sessions, Recheck(s) PROVE [Directory!Next]_(Directory!vars)
  <2>0. pc[s] # "idle" /\ sender[s] = 0 /\ UNCHANGED rooms /\ UNCHANGED request
    BY <1>1, <1>8 DEF Recheck, HandlesAreHeld
  <2>1. CASE rooms[Room(s)] # NoTask /\ HoldSender(s, rooms[Room(s)])
    BY <1>6, <2>0, <2>1
  <2>2. CASE UNCHANGED sender
    BY <1>3, <2>0, <2>2
  <2> QED  BY <1>8, <2>1, <2>2 DEF Recheck
<1>9. ASSUME NEW s \in Sessions, Insert(s) PROVE Directory!Next
  <2>0. pc[s] # "idle" /\ sender[s] = 0 /\ request[s].kind = "join"
    BY <1>1, <1>9 DEF Insert, HandlesAreHeld
  <2>1. rooms[request[s].room] = 0 /\ spawned[request[s].room] = 1
    BY <1>9 DEF RefinementIInv, IInv, CreatorIsAlone, Insert
  <2>2. Asks[s].create
    BY <2>0 DEF Asks, Asked
  <2>3. UNCHANGED Asks
    BY <1>9 DEF Asks, Insert
  <2>4. rooms' = [rooms EXCEPT ![Asks[s].room] = 1] /\ sender' = [sender EXCEPT ![s] = 1]
    BY <1>2, <1>9, <2>0, <2>1 DEF Insert
  <2>5. Directory!Created(s)
    BY <1>2, <2>0, <2>1, <2>2, <2>3, <2>4 DEF Directory!Created
  <2> QED  BY <2>5 DEF Directory!Next
<1>10. ASSUME NEW s \in Sessions, Send(s) PROVE Directory!Next
  <2>1. sender[s] = 1
    <3>1. request[s].room \in Rooms
      BY <1>1, <1>10, RequestHasRoom DEF Send
    <3> QED
      BY <1>1, <1>10, <3>1 DEF RefinementIInv, IInv, SendersArePublished, Send
  <2>2. Asks' = [Asks EXCEPT ![s] = Directory!Nothing]
    BY <1>1, <1>10, AsksWritten, AskedNothing DEF Send
  <2>3. Directory!Sent(s)
    BY <1>10, <2>1, <2>2 DEF Send, Directory!Sent
  <2> QED  BY <2>3 DEF Directory!Next
<1>11. ASSUME NEW s \in Sessions, LockWrite(s) \/ Spawn(s)
       PROVE  [Directory!Next]_(Directory!vars)
  BY <1>3, <1>11 DEF LockWrite, Spawn
<1>12. ASSUME NEW r \in Rooms, NEW k \in TaskIds,
              \/ Receive(r, k) \/ ReceiveAction(r, k)
              \/ CallSent(r, k) \/ EngineReturns(r, k)
       PROVE  [Directory!Next]_(Directory!vars)
  BY <1>3, <1>12 DEF Receive, ReceiveAction, CallSent, EngineReturns
<1> QED
  BY <1>4, <1>5, <1>7, <1>8, <1>9, <1>10, <1>11, <1>12 DEF Next, Resolve

\* Lookup, lock, second lookup and insertion look like one atomic step
\* (get_room_sender, get_or_create_room_sender).
THEOREM Refinement == Spec => ImplementsDirectory
<1>1. Init => RefinementIInv /\ Directory!Init
  <2> SUFFICES ASSUME Init PROVE RefinementIInv /\ Directory!Init
    OBVIOUS
  <2>1. HandlesAreHeld
    BY DEF Init, HandlesAreHeld
  <2>2. Directory!Init
    BY AskedNothing DEF Init, Directory!Init, Asks
  <2> QED  BY <2>1, <2>2, InitIInv, InitQueue DEF RefinementIInv
<1>2. RefinementIInv /\ [Next]_vars => RefinementIInv'
  <2> SUFFICES ASSUME RefinementIInv, [Next]_vars PROVE RefinementIInv'
    OBVIOUS
  <2> QED  BY HandlesStep, NextIInv, QueueStep DEF RefinementIInv
<1>3. RefinementIInv /\ [Next]_vars => [Directory!Next]_(Directory!vars)
  BY DirectoryStep
<1> QED
  BY <1>1, <1>2, <1>3, PTL DEF Spec, ImplementsDirectory, Directory!Spec
=============================================================================
