--------------------------- MODULE RoomTaskProofs ---------------------------
(* Proofs about the room task for every number of rooms, users,            *)
(* connections and seats.                                                  *)
EXTENDS RoomTask, TLAPS

\* Everything a handler may rely on when it starts.
IInv ==
    /\ TypeOK
    /\ SeatIndexAgrees
    /\ RouteEndsAtOwnSeat
    /\ BindingConsistent
    /\ DealingIffAllReady
    /\ ViewsCurrent
    /\ AwaitingIsRouted

-----------------------------------------------------------------------------
(* Frames.                                                                 *)

\* A snapshot has the type of a view.
LEMMA SnapshotType ==
    ASSUME NEW players \in [Seats -> PlayerSlot],
           NEW ph \in {"Unspecified", "Lobby", "Dealing"}
    PROVE  Snapshot(players, ph) \in Snapshots
BY DEF Snapshot, Snapshots, PlayerSlot, PlayerState, Public

\* PlayerConnectionChanged brings a snapshot up to date when nothing but the
\* announced seat changed, and there no more than the announced fields.
LEMMA ChangeUpdates ==
    ASSUME NEW old \in [Seats -> PlayerSlot],
           NEW players \in [Seats -> PlayerSlot],
           NEW s \in Seats, NEW t \in Seats, NEW vs, NEW ph,
           \A i \in Seats \ {s} : Public(players[i]) = Public(old[i]),
           players[s].auto_play_enabled = old[s].auto_play_enabled,
           vs[t] = Snapshot(old, ph),
           players[t].connected
    PROVE  ChangeSent(vs, players, s)[t] = Snapshot(players, ph)
<1>1. ChangeSent(vs, players, s)[t] = Changed(Snapshot(old, ph), players[s], s)
  BY DEF ChangeSent
<1>2. ASSUME NEW i \in Seats
      PROVE  Changed(Snapshot(old, ph), players[s], s).players[i] = Public(players[i])
  <2>1. CASE i = s
    BY <2>1 DEF Changed, Snapshot, Public
  <2>2. CASE i # s
    BY <2>2 DEF Changed, Snapshot
  <2> QED  BY <2>1, <2>2
<1>3. Changed(Snapshot(old, ph), players[s], s).players
        = [i \in Seats |-> Public(players[i])]
  BY <1>2 DEF Changed, Snapshot
<1>4. Changed(Snapshot(old, ph), players[s], s)
        = [phase |-> ph, players |-> Changed(Snapshot(old, ph), players[s], s).players]
  BY DEF Changed, Snapshot
<1> QED
  BY <1>1, <1>3, <1>4 DEF Snapshot

\* A snapshot sent to everyone and the change of one seat after it leave every
\* connected seat with the room as it is.
LEMMA SyncThenChange ==
    ASSUME NEW players \in [Seats -> PlayerSlot],
           NEW s \in Seats, NEW t \in Seats, NEW ph, players[t].connected
    PROVE  ChangeSent(SyncSent(players, ph), players, s)[t] = Snapshot(players, ph)
<1>1. SyncSent(players, ph)[t] = Snapshot(players, ph)
  BY DEF SyncSent
<1> QED
  BY <1>1, ChangeUpdates

\* SyncState leaves every seat with a view of the right type.
LEMMA SyncType ==
    ASSUME NEW players \in [Seats -> PlayerSlot], NEW ph \in {"Lobby", "Dealing"}
    PROVE  SyncSent(players, ph) \in [Seats -> Snapshots]
<1>1. NoPlayer \in PlayerSlot
  BY DEF NoPlayer, PlayerSlot
<1>2. NoView \in Snapshots
  BY <1>1, SnapshotType DEF NoView
<1> QED
  BY <1>2, SnapshotType DEF SyncSent

\* PlayerConnectionChanged keeps the type of the views.
LEMMA ChangeType ==
    ASSUME NEW players \in [Seats -> PlayerSlot], NEW s \in Seats,
           NEW vs \in [Seats -> Snapshots]
    PROVE  ChangeSent(vs, players, s) \in [Seats -> Snapshots]
<1>1. ASSUME NEW t \in Seats
      PROVE  Changed(vs[t], players[s], s) \in Snapshots
  <2>1. /\ vs[t].phase \in {"Unspecified", "Lobby", "Dealing"}
        /\ vs[t].players \in [Seats -> PlayerState]
    BY DEF Snapshots
  <2>2. vs[t].players[s].auto_play_enabled \in BOOLEAN
    BY <2>1 DEF PlayerState
  <2>3. [ user_id |-> players[s].user_id, status |-> players[s].status,
          is_connected |-> players[s].connected,
          auto_play_enabled |-> vs[t].players[s].auto_play_enabled ] \in PlayerState
    BY <2>2 DEF PlayerState, PlayerSlot
  <2> QED  BY <2>1, <2>3 DEF Changed, Snapshots
<1> QED
  BY <1>1 DEF ChangeSent

-----------------------------------------------------------------------------
(* Routes.                                                                 *)

\* A routed connection leads to a seat, which it holds itself.
LEMMA RouteSeat ==
    ASSUME IInv, NEW r \in Rooms, NEW c \in Conns, Routed(r, c)
    PROVE  /\ SeatForConnection(r, c) \in Seats
           /\ players_by_seat[r][SeatForConnection(r, c)].connection_id = c
           /\ players_by_seat[r][SeatForConnection(r, c)].outbound_tx = c
           /\ players_by_seat[r][SeatForConnection(r, c)].connected
           /\ players_by_seat[r][SeatForConnection(r, c)].user_id
                = connection_to_user[r][c]
           /\ connection_to_user[r][c] \in Users
<1>1. PICK s \in Seats : /\ players_by_seat[r][s].user_id = connection_to_user[r][c]
                         /\ players_by_seat[r][s].connection_id = c
  BY DEF IInv, RouteEndsAtOwnSeat
<1>2. connection_to_user[r][c] \in Users
  BY DEF IInv, TypeOK, Routed
<1>3. SeatForConnection(r, c) = s
  BY <1>1, <1>2 DEF IInv, SeatIndexAgrees, SeatForConnection
<1>4. c # None
  BY NoneAssumption
<1> QED
  BY <1>1, <1>2, <1>3, <1>4 DEF IInv, BindingConsistent, TypeOK, PlayerSlot

\* A user the room knows has the seat that the index says.
LEMMA UserSeat ==
    ASSUME IInv, NEW r \in Rooms, NEW u \in Users, user_to_seat[r][u] # NoSeat
    PROVE  /\ user_to_seat[r][u] \in Seats
           /\ players_by_seat[r][user_to_seat[r][u]].user_id = u
<1>1. user_to_seat[r][u] \in Seats
  BY DEF IInv, TypeOK
<1> QED
  BY <1>1 DEF IInv, SeatIndexAgrees

-----------------------------------------------------------------------------
(* Steps that only answer.                                                 *)

\* A step that changes neither the tables nor the views, and lets no asking
\* connection lose its route, keeps the invariant.
LEMMA QuietStep ==
    ASSUME IInv, UNCHANGED <<tables, view>>,
           next_event_seq' \in [Rooms -> Nat],
           awaiting' \in [Rooms -> Conns \cup {None}],
           \A r \in Rooms : awaiting'[r] # None => Routed(r, awaiting'[r])
    PROVE  IInv'
<1>1. TypeOK'
  BY DEF IInv, TypeOK, tables
<1>2. SeatIndexAgrees' /\ RouteEndsAtOwnSeat' /\ BindingConsistent'
  BY DEF IInv, SeatIndexAgrees, RouteEndsAtOwnSeat, BindingConsistent, Routed, tables
<1>3. DealingIffAllReady' /\ ViewsCurrent'
  BY DEF IInv, DealingIffAllReady, AllReady, ViewsCurrent, tables
<1>4. AwaitingIsRouted'
  BY DEF AwaitingIsRouted, Idle, Routed, tables
<1> QED
  BY <1>1, <1>2, <1>3, <1>4 DEF IInv

\* Event numbers stay natural numbers (allocate_event_seq).
LEMMA AllocateType ==
    ASSUME TypeOK, NEW r \in Rooms, NEW n \in Nat, Allocate(r, n)
    PROVE  next_event_seq' \in [Rooms -> Nat]
BY MaxSeqAssumption DEF TypeOK, Allocate, Counted

\* Refused joins and resumes.
LEMMA OnlyAnswerStep ==
    ASSUME IInv, NEW r \in Rooms, OnlyAnswer(r)
    PROVE  IInv'
<1>1. next_event_seq' \in [Rooms -> Nat]
  BY AllocateType DEF OnlyAnswer, IInv
<1> QED
  BY <1>1, QuietStep DEF OnlyAnswer, IInv, TypeOK, AwaitingIsRouted, Idle

\* A rejection allocates at most one event number.
LEMMA RejectSentType ==
    ASSUME IInv, NEW r \in Rooms, NEW c \in Conns, RejectSent(r, c)
    PROVE  next_event_seq' \in [Rooms -> Nat]
BY AllocateType DEF IInv, TypeOK, RejectSent

\* A rejected ready or player action.
LEMMA RejectStep ==
    ASSUME IInv, NEW r \in Rooms, NEW c \in Conns, RejectSent(r, c),
           UNCHANGED awaiting
    PROVE  IInv'
BY RejectSentType, QuietStep DEF RejectSent, IInv, TypeOK, AwaitingIsRouted, Idle

\* A player action goes to the rule engine: its connection has a route.
LEMMA SubmitStep ==
    ASSUME IInv, NEW r \in Rooms, NEW c \in Conns, ActionSubmitted(r, c)
    PROVE  IInv'
<1>1. \A q \in Rooms : awaiting'[q] # None => Routed(q, awaiting'[q])
  BY DEF ActionSubmitted, IInv, TypeOK, AwaitingIsRouted, Idle
<1> QED
  BY <1>1, QuietStep DEF ActionSubmitted, IInv, TypeOK

\* The rule engine has answered or failed.
LEMMA VerdictStep ==
    ASSUME IInv, NEW r \in Rooms, ActionVerdict(r)
    PROVE  IInv'
<1>1. awaiting[r] \in Conns
  BY DEF ActionVerdict, IInv, TypeOK, Idle
<1>2. next_event_seq' \in [Rooms -> Nat]
  BY <1>1, RejectSentType DEF ActionVerdict
<1>3. \A q \in Rooms : awaiting'[q] # None => Routed(q, awaiting'[q])
  BY DEF ActionVerdict, IInv, TypeOK, AwaitingIsRouted, Idle
<1> QED
  BY <1>2, <1>3, QuietStep DEF ActionVerdict, RejectSent, IInv, TypeOK

-----------------------------------------------------------------------------
(* Steps that change one seat.                                             *)

\* The step writes slot s of room r and leaves the room with the slots players,
\* the phase ph and the views vs: the new slot is consistent, the indexes follow
\* it and its news have reached every connected seat.
SeatWritten(r, s, players, ph, vs) ==
    /\ Idle(r)
    /\ players \in [Seats -> PlayerSlot]
    /\ ph \in {"Lobby", "Dealing"}
    /\ vs \in [Seats -> Snapshots]
    /\ \A t \in Seats \ {s} : players[t] = players_by_seat[r][t]
    /\ players_by_seat' = [players_by_seat EXCEPT ![r] = players]
    /\ phase' = [phase EXCEPT ![r] = ph]
    /\ view' = [view EXCEPT ![r] = vs]
    /\ next_event_seq' \in [Rooms -> Nat]
    /\ awaiting' = awaiting
    /\ user_to_seat' \in [Rooms -> [Users -> Seats \cup {NoSeat}]]
    /\ connection_to_user' \in [Rooms -> [Conns -> Users \cup {None}]]
    /\ \A q \in Rooms \ {r} : /\ user_to_seat'[q] = user_to_seat[q]
                              /\ connection_to_user'[q] = connection_to_user[q]
    /\ players[s].connected <=> players[s].connection_id # None
    /\ players[s].outbound_tx = players[s].connection_id
    /\ players[s].user_id # None
    /\ players[s].status # "Absent"
    /\ \A u \in Users : user_to_seat'[r][u] = s <=> players[s].user_id = u
    /\ \A u \in Users, t \in Seats \ {s} :
           user_to_seat'[r][u] = t <=> user_to_seat[r][u] = t
    /\ \A c \in Conns : connection_to_user'[r][c] # None =>
           \/ /\ connection_to_user'[r][c] = players[s].user_id
              /\ players[s].connection_id = c
           \/ /\ connection_to_user'[r][c] = connection_to_user[r][c]
              /\ players_by_seat[r][s].connection_id # c
    /\ ph = "Dealing" <=> AllReady(players)
    /\ \A t \in Seats : players[t].connected => vs[t] = Snapshot(players, ph)

\* The invariant survives such a step.
LEMMA SeatStep ==
    ASSUME IInv, NEW r \in Rooms, NEW s \in Seats, NEW players, NEW ph, NEW vs,
           SeatWritten(r, s, players, ph, vs)
    PROVE  IInv'
<1> USE DEF SeatWritten
<1>0. TypeOK
  BY DEF IInv
<1>1. TypeOK'
  BY <1>0 DEF TypeOK
<1>2. SeatIndexAgrees'
  <2> SUFFICES ASSUME NEW q \in Rooms, NEW t \in Seats, NEW u \in Users
               PROVE  user_to_seat'[q][u] = t <=> players_by_seat'[q][t].user_id = u
    BY DEF SeatIndexAgrees
  <2>1. user_to_seat[q][u] = t <=> players_by_seat[q][t].user_id = u
    BY DEF IInv, SeatIndexAgrees
  <2> QED  BY <1>0, <2>1 DEF TypeOK
<1>3. RouteEndsAtOwnSeat'
  <2> SUFFICES ASSUME NEW q \in Rooms, NEW c \in Conns, connection_to_user'[q][c] # None
               PROVE  \E t \in Seats :
                        /\ players_by_seat'[q][t].user_id = connection_to_user'[q][c]
                        /\ players_by_seat'[q][t].connection_id = c
    BY DEF RouteEndsAtOwnSeat, Routed
  <2>1. CASE q # r
    <3>1. Routed(q, c)
      BY <2>1 DEF Routed
    <3> QED  BY <2>1, <3>1, <1>0 DEF IInv, RouteEndsAtOwnSeat, TypeOK
  <2>2. CASE q = r /\ connection_to_user'[r][c] = players[s].user_id
                   /\ players[s].connection_id = c
    BY <2>2, <1>0 DEF TypeOK
  <2>3. CASE q = r /\ connection_to_user'[r][c] = connection_to_user[r][c]
                   /\ players_by_seat[r][s].connection_id # c
    <3>1. Routed(r, c)
      BY <2>3 DEF Routed
    <3>2. PICK t \in Seats : /\ players_by_seat[r][t].user_id = connection_to_user[r][c]
                             /\ players_by_seat[r][t].connection_id = c
      BY <3>1 DEF IInv, RouteEndsAtOwnSeat
    <3>3. t # s /\ players[t] = players_by_seat[r][t]
      BY <2>3, <3>2
    <3> QED  BY <2>3, <3>2, <3>3, <1>0 DEF TypeOK
  <2> QED  BY <2>1, <2>2, <2>3
<1>4. BindingConsistent'
  <2> SUFFICES ASSUME NEW q \in Rooms, NEW t \in Seats
               PROVE  LET player == players_by_seat'[q][t]
                      IN  /\ player.connected <=> player.connection_id # None
                          /\ player.outbound_tx = player.connection_id
                          /\ player.user_id = None => player = NoPlayer
                          /\ player.user_id # None => player.status # "Absent"
    BY DEF BindingConsistent
  <2>1. CASE q = r /\ t = s
    <3>1. players_by_seat'[q][t] = players[s]
      BY <2>1, <1>0 DEF TypeOK
    <3> QED  BY <3>1
  <2>2. CASE ~(q = r /\ t = s)
    <3>1. players_by_seat'[q][t] = players_by_seat[q][t]
      BY <2>2, <1>0 DEF TypeOK
    <3> QED  BY <3>1 DEF IInv, BindingConsistent
  <2> QED  BY <2>1, <2>2
<1>5. DealingIffAllReady'
  <2> SUFFICES ASSUME NEW q \in Rooms
               PROVE  phase'[q] = "Dealing" <=> AllReady(players_by_seat'[q])
    BY DEF DealingIffAllReady, AllReady
  <2>1. CASE q = r
    BY <2>1, <1>0 DEF TypeOK
  <2>2. CASE q # r
    BY <2>2, <1>0 DEF TypeOK, IInv, DealingIffAllReady
  <2> QED  BY <2>1, <2>2
<1>6. ViewsCurrent'
  <2> SUFFICES ASSUME NEW q \in Rooms, NEW t \in Seats,
                      players_by_seat'[q][t].connected
               PROVE  view'[q][t] = Snapshot(players_by_seat'[q], phase'[q])
    BY DEF ViewsCurrent, Snapshot
  <2>1. CASE q = r
    BY <2>1, <1>0 DEF TypeOK
  <2>2. CASE q # r
    BY <2>2, <1>0 DEF TypeOK, IInv, ViewsCurrent
  <2> QED  BY <2>1, <2>2
<1>7. AwaitingIsRouted'
  BY DEF IInv, AwaitingIsRouted, Idle, Routed
<1> QED
  BY <1>1, <1>2, <1>3, <1>4, <1>5, <1>6, <1>7 DEF IInv

\* handle_join seats a user.
LEMMA JoinStep ==
    ASSUME IInv, NEW r \in Rooms, NEW c \in Conns, NEW u \in Users, NEW s \in Seats,
           JoinSeated(r, c, u, s)
    PROVE  IInv'
<1> DEFINE joined == [ user_id |-> u, status |-> "Joined", connected |-> TRUE,
                       auto_play_enabled |-> FALSE,
                       connection_id |-> c, outbound_tx |-> c ]
           players == [players_by_seat[r] EXCEPT ![s] = joined]
           vs == ChangeSent(SyncSent(players, phase[r]), players, s)
<1>0. /\ TypeOK /\ Idle(r) /\ u # None /\ c # None
      /\ players_by_seat[r][s].user_id = None
      /\ players_by_seat[r][s] = NoPlayer
      /\ user_to_seat[r][u] = NoSeat
  BY NoneAssumption DEF IInv, JoinSeated, HasNoSeat, IsNextOpenSeat, Occupied,
                        BindingConsistent
<1>1. players \in [Seats -> PlayerSlot] /\ phase[r] \in {"Lobby", "Dealing"}
  <2>1. joined \in PlayerSlot
    BY DEF PlayerSlot
  <2> QED  BY <1>0, <2>1 DEF TypeOK
<1>2. vs \in [Seats -> Snapshots]
  BY <1>1, SyncType, ChangeType
<1>3. \A t \in Seats : players[t].connected => vs[t] = Snapshot(players, phase[r])
  <2> HIDE DEF players
  <2> QED  BY <1>1, SyncThenChange
<1>4. phase[r] = "Dealing" <=> AllReady(players)
  <2>1. players[s].status # "Ready" /\ players_by_seat[r][s].status # "Ready"
    BY <1>0 DEF TypeOK, NoPlayer
  <2> QED  BY <2>1 DEF AllReady, IInv, DealingIffAllReady
<1>5. \A v \in Users : user_to_seat[r][v] # s
  BY <1>0, NoneAssumption DEF IInv, SeatIndexAgrees
<1>6. \A d \in Conns : players_by_seat[r][s].connection_id # d
  BY <1>0, NoneAssumption DEF NoPlayer
<1>7. next_event_seq' \in [Rooms -> Nat]
  BY AllocateType, <1>0 DEF JoinSeated
<1>8. /\ user_to_seat' = [user_to_seat EXCEPT ![r][u] = s]
      /\ connection_to_user' = [connection_to_user EXCEPT ![r][c] = u]
      /\ players_by_seat' = [players_by_seat EXCEPT ![r] = players]
      /\ phase' = [phase EXCEPT ![r] = phase[r]]
      /\ view' = [view EXCEPT ![r] = vs]
      /\ user_to_seat[r][u] = NoSeat
      /\ UNCHANGED awaiting
  BY <1>0 DEF JoinSeated, HasNoSeat, TypeOK
<1>9. /\ user_to_seat' \in [Rooms -> [Users -> Seats \cup {NoSeat}]]
      /\ connection_to_user' \in [Rooms -> [Conns -> Users \cup {None}]]
      /\ \A q \in Rooms \ {r} : /\ user_to_seat'[q] = user_to_seat[q]
                                /\ connection_to_user'[q] = connection_to_user[q]
  BY <1>0, <1>8 DEF TypeOK
<1>10. players[s] = joined /\ \A t \in Seats \ {s} : players[t] = players_by_seat[r][t]
  BY <1>0 DEF TypeOK
<1>11. /\ \A v \in Users : user_to_seat'[r][v] = s <=> players[s].user_id = v
       /\ \A v \in Users, t \in Seats \ {s} :
             user_to_seat'[r][v] = t <=> user_to_seat[r][v] = t
  BY <1>0, <1>5, <1>8, <1>10 DEF TypeOK, NoSeat, Seats
<1>12. \A d \in Conns : connection_to_user'[r][d] # None =>
         \/ connection_to_user'[r][d] = players[s].user_id /\ players[s].connection_id = d
         \/ /\ connection_to_user'[r][d] = connection_to_user[r][d]
            /\ players_by_seat[r][s].connection_id # d
  BY <1>0, <1>6, <1>8, <1>10 DEF TypeOK, Routed
<1> HIDE DEF players, vs, joined
<1>13. /\ players[s].connected <=> players[s].connection_id # None
       /\ players[s].outbound_tx = players[s].connection_id
       /\ players[s].user_id # None /\ players[s].status # "Absent"
  BY <1>0, <1>10 DEF joined
<1> QED
  <2>1. SeatWritten(r, s, players, phase[r], vs)
    BY <1>0, <1>1, <1>2, <1>3, <1>4, <1>7, <1>8, <1>9, <1>10, <1>11, <1>12, <1>13
       DEF SeatWritten
  <2> QED  BY <2>1, SeatStep

\* handle_ready sets a status and the phase that follows from it.
LEMMA ReadyStep ==
    ASSUME IInv, NEW r \in Rooms, NEW c \in Conns, NEW status \in {"Joined", "Ready"},
           Ready(r, c, status)
    PROVE  IInv'
<1> DEFINE s == SeatForConnection(r, c)
           players == [players_by_seat[r] EXCEPT ![s].status = status]
           ph == PhaseFor(players)
           vs == SyncSent(players, ph)
<1>0. TypeOK /\ Idle(r) /\ Routed(r, c)
  BY DEF IInv, Ready
<1>1. s \in Seats
  BY <1>0, RouteSeat
<1>2. players \in [Seats -> PlayerSlot] /\ ph \in {"Lobby", "Dealing"}
  <2>0. players_by_seat[r][s] \in PlayerSlot
    BY <1>0, <1>1 DEF TypeOK
  <2>1. [players_by_seat[r][s] EXCEPT !.status = status] \in PlayerSlot
    BY <2>0 DEF PlayerSlot
  <2> QED  BY <1>0, <1>1, <2>1 DEF TypeOK, PhaseFor
<1>3. vs \in [Seats -> Snapshots]
  BY <1>2, SyncType
<1>4. \A t \in Seats : players[t].connected => vs[t] = Snapshot(players, ph)
  BY DEF SyncSent
<1>5. ph = "Dealing" <=> AllReady(players)
  BY DEF PhaseFor
<1>6. next_event_seq' \in [Rooms -> Nat]
  BY AllocateType, <1>0 DEF Ready
<1>7. /\ players_by_seat' = [players_by_seat EXCEPT ![r] = players]
      /\ phase' = [phase EXCEPT ![r] = ph]
      /\ view' = [view EXCEPT ![r] = vs]
      /\ UNCHANGED user_to_seat /\ UNCHANGED connection_to_user /\ UNCHANGED awaiting
  BY DEF Ready
<1>8. /\ \A t \in Seats \ {s} : players[t] = players_by_seat[r][t]
      /\ players[s].connected = players_by_seat[r][s].connected
      /\ players[s].connection_id = players_by_seat[r][s].connection_id
      /\ players[s].outbound_tx = players_by_seat[r][s].outbound_tx
      /\ players[s].user_id = players_by_seat[r][s].user_id
      /\ players[s].status # "Absent"
  BY <1>0, <1>1 DEF TypeOK, PlayerSlot
<1> HIDE DEF players, vs, ph, s
<1>9. /\ players[s].connected <=> players[s].connection_id # None
      /\ players[s].outbound_tx = players[s].connection_id
      /\ players[s].user_id # None
  BY <1>0, <1>1, <1>8, RouteSeat DEF IInv, BindingConsistent, Routed, s
<1>10. \A u \in Users : user_to_seat'[r][u] = s <=> players[s].user_id = u
  BY <1>1, <1>7, <1>8 DEF IInv, SeatIndexAgrees
<1>11. \A d \in Conns : connection_to_user'[r][d] # None =>
         \/ connection_to_user'[r][d] = players[s].user_id /\ players[s].connection_id = d
         \/ /\ connection_to_user'[r][d] = connection_to_user[r][d]
            /\ players_by_seat[r][s].connection_id # d
  <2> SUFFICES ASSUME NEW d \in Conns, Routed(r, d),
                      players_by_seat[r][s].connection_id = d
               PROVE  connection_to_user[r][d] = players[s].user_id
    BY <1>7, <1>8 DEF Routed
  <2>1. d = c
    BY <1>0, RouteSeat DEF s
  <2> QED  BY <1>0, <1>8, <2>1, RouteSeat DEF s
<1>12. /\ user_to_seat' \in [Rooms -> [Users -> Seats \cup {NoSeat}]]
       /\ connection_to_user' \in [Rooms -> [Conns -> Users \cup {None}]]
  BY <1>0, <1>7 DEF TypeOK
<1> QED
  <2>1. SeatWritten(r, s, players, ph, vs)
    BY <1>0, <1>1, <1>2, <1>3, <1>4, <1>5, <1>6, <1>7, <1>8, <1>9, <1>10, <1>11, <1>12
       DEF SeatWritten
  <2> QED  BY <1>1, <2>1, SeatStep

\* handle_auto_play_toggle.
LEMMA ToggleStep ==
    ASSUME IInv, NEW r \in Rooms, NEW c \in Conns, NEW enabled \in BOOLEAN,
           AutoPlayToggle(r, c, enabled)
    PROVE  IInv'
<1> DEFINE s == SeatForConnection(r, c)
           players == [players_by_seat[r] EXCEPT ![s].auto_play_enabled = enabled]
           vs == SyncSent(players, phase[r])
<1>0. TypeOK /\ Idle(r) /\ Routed(r, c)
  BY DEF IInv, AutoPlayToggle
<1>1. s \in Seats
  BY <1>0, RouteSeat
<1>2. players \in [Seats -> PlayerSlot] /\ phase[r] \in {"Lobby", "Dealing"}
  <2>0. players_by_seat[r][s] \in PlayerSlot
    BY <1>0, <1>1 DEF TypeOK
  <2>1. [players_by_seat[r][s] EXCEPT !.auto_play_enabled = enabled] \in PlayerSlot
    BY <2>0 DEF PlayerSlot
  <2> QED  BY <1>0, <1>1, <2>1 DEF TypeOK
<1>3. vs \in [Seats -> Snapshots]
  BY <1>2, SyncType
<1>4. \A t \in Seats : players[t].connected => vs[t] = Snapshot(players, phase[r])
  BY DEF SyncSent
<1>5. /\ players_by_seat' = [players_by_seat EXCEPT ![r] = players]
      /\ phase' = [phase EXCEPT ![r] = phase[r]]
      /\ view' = [view EXCEPT ![r] = vs]
      /\ UNCHANGED user_to_seat /\ UNCHANGED connection_to_user /\ UNCHANGED awaiting
  BY <1>0 DEF AutoPlayToggle, TypeOK
<1>6. next_event_seq' \in [Rooms -> Nat]
  BY AllocateType, <1>0 DEF AutoPlayToggle
<1>7. /\ \A t \in Seats \ {s} : players[t] = players_by_seat[r][t]
      /\ \A t \in Seats : players[t].status = players_by_seat[r][t].status
      /\ players[s].connected = players_by_seat[r][s].connected
      /\ players[s].connection_id = players_by_seat[r][s].connection_id
      /\ players[s].outbound_tx = players_by_seat[r][s].outbound_tx
      /\ players[s].user_id = players_by_seat[r][s].user_id
  BY <1>0, <1>1 DEF TypeOK, PlayerSlot
<1> HIDE DEF players, vs, s
<1>8. phase[r] = "Dealing" <=> AllReady(players)
  BY <1>7 DEF AllReady, IInv, DealingIffAllReady
<1>9. /\ players[s].connected <=> players[s].connection_id # None
      /\ players[s].outbound_tx = players[s].connection_id
      /\ players[s].user_id # None
      /\ players[s].status # "Absent"
  BY <1>0, <1>1, <1>7, RouteSeat DEF IInv, BindingConsistent, Routed, s
<1>10. \A u \in Users : user_to_seat'[r][u] = s <=> players[s].user_id = u
  BY <1>1, <1>5, <1>7 DEF IInv, SeatIndexAgrees
<1>11. \A d \in Conns : connection_to_user'[r][d] # None =>
         \/ connection_to_user'[r][d] = players[s].user_id /\ players[s].connection_id = d
         \/ /\ connection_to_user'[r][d] = connection_to_user[r][d]
            /\ players_by_seat[r][s].connection_id # d
  <2> SUFFICES ASSUME NEW d \in Conns, Routed(r, d),
                      players_by_seat[r][s].connection_id = d
               PROVE  connection_to_user[r][d] = players[s].user_id
    BY <1>5, <1>7 DEF Routed
  <2>1. d = c
    BY <1>0, RouteSeat DEF s
  <2> QED  BY <1>0, <1>7, <2>1, RouteSeat DEF s
<1>12. /\ user_to_seat' \in [Rooms -> [Users -> Seats \cup {NoSeat}]]
       /\ connection_to_user' \in [Rooms -> [Conns -> Users \cup {None}]]
  BY <1>0, <1>5 DEF TypeOK
<1> QED
  <2>1. SeatWritten(r, s, players, phase[r], vs)
    BY <1>0, <1>1, <1>2, <1>3, <1>4, <1>5, <1>6, <1>7, <1>8, <1>9, <1>10, <1>11, <1>12
       DEF SeatWritten
  <2> QED  BY <1>1, <2>1, SeatStep

\* handle_resume moves a seat and its route to another connection.
LEMMA ResumeStep ==
    ASSUME IInv, NEW r \in Rooms, NEW c \in Conns, NEW u \in Users, Resume(r, c, u)
    PROVE  IInv'
<1> DEFINE s == user_to_seat[r][u]
           was == players_by_seat[r]
           old == was[s].connection_id
           players == [was EXCEPT ![s].connection_id = c,
                                  ![s].outbound_tx = c,
                                  ![s].connected = TRUE]
           synced == [view[r] EXCEPT ![s] = Snapshot(players, phase[r])]
           vs == ChangeSent(synced, players, s)
<1>0. TypeOK /\ Idle(r) /\ user_to_seat[r][u] # NoSeat /\ c # None /\ u # None
  BY NoneAssumption DEF IInv, Resume
<1>1. s \in Seats /\ was[s].user_id = u
  BY <1>0, UserSeat
<1>2. was \in [Seats -> PlayerSlot] /\ was[s] \in PlayerSlot
  BY <1>0, <1>1 DEF TypeOK
<1>3. [was[s] EXCEPT !.connection_id = c, !.outbound_tx = c, !.connected = TRUE]
        \in PlayerSlot
  BY <1>2 DEF PlayerSlot
<1>4. players \in [Seats -> PlayerSlot] /\ phase[r] \in {"Lobby", "Dealing"}
  BY <1>0, <1>1, <1>2, <1>3 DEF TypeOK
<1>5. /\ \A t \in Seats \ {s} : players[t] = was[t]
      /\ \A t \in Seats : players[t].status = was[t].status
      /\ players[s].auto_play_enabled = was[s].auto_play_enabled
      /\ players[s].user_id = u
      /\ players[s].connected
      /\ players[s].connection_id = c
      /\ players[s].outbound_tx = c
  BY <1>1, <1>2 DEF PlayerSlot
<1>6. /\ players_by_seat' = [players_by_seat EXCEPT ![r] = players]
      /\ phase' = [phase EXCEPT ![r] = phase[r]]
      /\ view' = [view EXCEPT ![r] = vs]
      /\ connection_to_user' = [connection_to_user EXCEPT ![r] =
           RoutesAfterResume(r, c, old, players[s].user_id)]
      /\ UNCHANGED user_to_seat /\ UNCHANGED awaiting
  BY <1>0 DEF Resume, TypeOK
<1>7. next_event_seq' \in [Rooms -> Nat]
  BY AllocateType, <1>0 DEF Resume
<1> HIDE DEF players, vs
<1>8. synced \in [Seats -> Snapshots]
  BY <1>0, <1>1, <1>4, SnapshotType DEF TypeOK
<1>9. vs \in [Seats -> Snapshots]
  BY <1>1, <1>4, <1>8, ChangeType DEF vs
<1>10. ASSUME NEW t \in Seats, players[t].connected
       PROVE  vs[t] = Snapshot(players, phase[r])
  <2>1. CASE t = s
    <3>1. synced[t] = Snapshot(players, phase[r])
      BY <1>0, <1>1, <2>1 DEF TypeOK
    <3> HIDE DEF synced
    <3> QED  BY <1>1, <1>4, <1>10, <3>1, ChangeUpdates DEF vs
  <2>2. CASE t # s
    <3>1. synced[t] = Snapshot(was, phase[r])
      BY <1>0, <1>1, <1>5, <1>10, <2>2 DEF TypeOK, IInv, ViewsCurrent
    <3>2. \A i \in Seats \ {s} : Public(players[i]) = Public(was[i])
      BY <1>5
    <3> HIDE DEF synced, was
    <3> QED  BY <1>1, <1>2, <1>4, <1>5, <1>10, <3>1, <3>2, ChangeUpdates DEF vs
  <2> QED  BY <2>1, <2>2
<1>11. phase[r] = "Dealing" <=> AllReady(players)
  BY <1>5 DEF AllReady, IInv, DealingIffAllReady
<1>12. players[s].status # "Absent"
  BY <1>0, <1>1, <1>5 DEF IInv, BindingConsistent
<1>13. \A v \in Users : user_to_seat'[r][v] = s <=> players[s].user_id = v
  BY <1>1, <1>5, <1>6 DEF IInv, SeatIndexAgrees
<1>14. \A d \in Conns : connection_to_user'[r][d] # None =>
         \/ connection_to_user'[r][d] = players[s].user_id /\ players[s].connection_id = d
         \/ /\ connection_to_user'[r][d] = connection_to_user[r][d]
            /\ players_by_seat[r][s].connection_id # d
  BY <1>0, <1>5, <1>6 DEF TypeOK, RoutesAfterResume
<1>15. /\ user_to_seat' \in [Rooms -> [Users -> Seats \cup {NoSeat}]]
       /\ connection_to_user' \in [Rooms -> [Conns -> Users \cup {None}]]
       /\ \A q \in Rooms \ {r} : /\ user_to_seat'[q] = user_to_seat[q]
                                 /\ connection_to_user'[q] = connection_to_user[q]
  BY <1>0, <1>5, <1>6 DEF TypeOK, RoutesAfterResume
<1> QED
  <2>1. SeatWritten(r, s, players, phase[r], vs)
    BY <1>0, <1>1, <1>4, <1>5, <1>6, <1>7, <1>9, <1>10, <1>11, <1>12, <1>13, <1>14,
       <1>15 DEF SeatWritten
  <2> QED  BY <1>1, <2>1, SeatStep

\* handle_disconnect frees the seat of its connection and drops the route.
LEMMA DisconnectStep ==
    ASSUME IInv, NEW r \in Rooms, NEW c \in Conns, Disconnect(r, c)
    PROVE  IInv'
<1> DEFINE s == SeatForConnection(r, c)
           was == players_by_seat[r]
           players == [was EXCEPT ![s] = Unbound(@)]
           vs == ChangeSent(SyncSent(players, phase[r]), players, s)
<1>0. TypeOK /\ Idle(r) /\ Routed(r, c)
  BY DEF IInv, Disconnect
<1>1. s \in Seats /\ was[s].connection_id = c /\ was[s].user_id # None
  BY <1>0, RouteSeat DEF Routed
<1>2. was \in [Seats -> PlayerSlot] /\ was[s] \in PlayerSlot
  BY <1>0, <1>1 DEF TypeOK
<1>3. Unbound(was[s]) \in PlayerSlot
  BY <1>2 DEF PlayerSlot, Unbound
<1>4. players \in [Seats -> PlayerSlot] /\ phase[r] \in {"Lobby", "Dealing"}
  BY <1>0, <1>1, <1>2, <1>3 DEF TypeOK
<1>5. /\ \A t \in Seats \ {s} : players[t] = was[t]
      /\ \A t \in Seats : players[t].status = was[t].status
      /\ players[s].user_id = was[s].user_id
      /\ ~players[s].connected
      /\ players[s].connection_id = None
      /\ players[s].outbound_tx = None
  BY <1>1, <1>2 DEF PlayerSlot, Unbound
<1>6. /\ players_by_seat' = [players_by_seat EXCEPT ![r] = players]
      /\ phase' = [phase EXCEPT ![r] = phase[r]]
      /\ view' = [view EXCEPT ![r] = vs]
      /\ connection_to_user' = [connection_to_user EXCEPT ![r][c] = None]
      /\ UNCHANGED user_to_seat /\ UNCHANGED awaiting
  BY <1>0 DEF Disconnect, TypeOK
<1>7. next_event_seq' \in [Rooms -> Nat]
  BY AllocateType, <1>0 DEF Disconnect
<1> HIDE DEF players, vs, s
<1>8. vs \in [Seats -> Snapshots]
  BY <1>1, <1>4, SyncType, ChangeType DEF vs
<1>9. \A t \in Seats : players[t].connected => vs[t] = Snapshot(players, phase[r])
  BY <1>1, <1>4, SyncThenChange DEF vs
<1>10. phase[r] = "Dealing" <=> AllReady(players)
  BY <1>5 DEF AllReady, IInv, DealingIffAllReady
<1>11. players[s].status # "Absent"
  BY <1>1, <1>5 DEF IInv, BindingConsistent
<1>12. \A v \in Users : user_to_seat'[r][v] = s <=> players[s].user_id = v
  BY <1>1, <1>5, <1>6 DEF IInv, SeatIndexAgrees
<1>13. \A d \in Conns : connection_to_user'[r][d] # None =>
         /\ connection_to_user'[r][d] = connection_to_user[r][d]
         /\ players_by_seat[r][s].connection_id # d
  BY <1>0, <1>1, <1>6 DEF TypeOK
<1>14. /\ user_to_seat' \in [Rooms -> [Users -> Seats \cup {NoSeat}]]
       /\ connection_to_user' \in [Rooms -> [Conns -> Users \cup {None}]]
       /\ \A q \in Rooms \ {r} : /\ user_to_seat'[q] = user_to_seat[q]
                                 /\ connection_to_user'[q] = connection_to_user[q]
  BY <1>0, <1>6 DEF TypeOK
<1> QED
  <2>1. SeatWritten(r, s, players, phase[r], vs)
    BY <1>0, <1>1, <1>4, <1>5, <1>6, <1>7, <1>8, <1>9, <1>10, <1>11, <1>12, <1>13,
       <1>14 DEF SeatWritten
  <2> QED  BY <1>1, <2>1, SeatStep

-----------------------------------------------------------------------------
(* The inductive invariant.                                                *)

\* A new room satisfies the invariant (RoomState::new).
LEMMA InitIInv == Init => IInv
<1> SUFFICES ASSUME Init PROVE IInv
  OBVIOUS
<1>0. /\ NoPlayer \in PlayerSlot
      /\ NoView \in Snapshots
  BY SnapshotType DEF NoPlayer, PlayerSlot, NoView
<1>1. TypeOK
  BY <1>0 DEF Init, TypeOK
<1>2. SeatIndexAgrees /\ RouteEndsAtOwnSeat /\ BindingConsistent
  BY NoneAssumption DEF Init, SeatIndexAgrees, RouteEndsAtOwnSeat, Routed,
                        BindingConsistent, NoPlayer, Seats, NoSeat
<1>3. DealingIffAllReady
  <2>1. 1 \in Seats
    BY SeatCountAssumption DEF Seats
  <2> QED  BY <2>1 DEF Init, DealingIffAllReady, AllReady, NoPlayer
<1>4. ViewsCurrent /\ AwaitingIsRouted
  BY DEF Init, ViewsCurrent, AwaitingIsRouted, Idle, NoPlayer
<1> QED
  BY <1>1, <1>2, <1>3, <1>4 DEF IInv

\* A Disconnect without a route changes nothing.
LEMMA StutterIInv == ASSUME IInv, UNCHANGED vars PROVE IInv'
<1>1. /\ UNCHANGED tables
      /\ UNCHANGED next_event_seq /\ UNCHANGED awaiting /\ UNCHANGED view
  BY DEF vars
<1> QED
  BY <1>1, QuietStep DEF IInv, TypeOK, AwaitingIsRouted, Idle

\* Every handler preserves the invariant.
LEMMA NextIInv == ASSUME IInv, Next PROVE IInv'
<1>1. ASSUME NEW r \in Rooms, ActionVerdict(r) PROVE IInv'
  BY <1>1, VerdictStep
<1>2. ASSUME NEW r \in Rooms, NEW c \in Conns, HandleReady(r, c) PROVE IInv'
  BY <1>2, RejectStep, ReadyStep DEF HandleReady, ReadyUnregistered
<1>3. ASSUME NEW r \in Rooms, NEW c \in Conns, HandlePlayerAction(r, c) PROVE IInv'
  BY <1>3, RejectStep, ToggleStep, SubmitStep
     DEF HandlePlayerAction, ActionUnregistered, ActionRefused
<1>4. ASSUME NEW r \in Rooms, NEW c \in Conns, HandleDisconnect(r, c) PROVE IInv'
  BY <1>4, StutterIInv, DisconnectStep DEF HandleDisconnect, DisconnectUnregistered
<1>5. ASSUME NEW r \in Rooms, NEW c \in Conns, NEW u \in Users, HandleJoin(r, c, u)
      PROVE  IInv'
  BY <1>5, OnlyAnswerStep, JoinStep DEF HandleJoin, JoinAlreadyJoined, JoinRoomFull
<1>6. ASSUME NEW r \in Rooms, NEW c \in Conns, NEW u \in Users, HandleResume(r, c, u)
      PROVE  IInv'
  BY <1>6, OnlyAnswerStep, ResumeStep
     DEF HandleResume, ResumeUnknownUser, ResumeBadToken
<1> QED
  BY <1>1, <1>2, <1>3, <1>4, <1>5, <1>6 DEF Next

\* IInv holds in every reachable state, for every number of rooms, users,
\* connections and seats.
THEOREM Invariant == Spec => []IInv
<1>1. IInv /\ [Next]_vars => IInv'
  BY NextIInv, StutterIInv
<1> QED
  BY InitIInv, <1>1, PTL DEF Spec

\* The maps and slots of RoomState always have their types.
THEOREM TypeCorrect == Spec => []TypeOK
<1>1. IInv => TypeOK
  BY DEF IInv
<1> QED
  BY <1>1, Invariant, PTL

\* The seat index and the slots name each other (handle_join, handle_resume).
THEOREM SeatIndexCorrect == Spec => []SeatIndexAgrees
<1>1. IInv => SeatIndexAgrees
  BY DEF IInv
<1> QED
  BY <1>1, Invariant, PTL

\* A routed connection holds the seat it is routed to (seat_for_connection).
THEOREM RoutesCorrect == Spec => []RouteEndsAtOwnSeat
<1>1. IInv => RouteEndsAtOwnSeat
  BY DEF IInv
<1> QED
  BY <1>1, Invariant, PTL

\* The hand is dealt exactly while everyone is seated and ready (handle_ready).
THEOREM DealingCorrect == Spec => []DealingIffAllReady
<1>1. IInv => DealingIffAllReady
  BY DEF IInv
<1> QED
  BY <1>1, Invariant, PTL

\* The frames sent to a connected player add up to the room (broadcast_sync_state,
\* broadcast_connection_changed and the snapshot of handle_resume).
THEOREM ViewsCorrect == Spec => []ViewsCurrent
<1>1. IInv => ViewsCurrent
  BY DEF IInv
<1> QED
  BY <1>1, Invariant, PTL

\* A slot is online exactly while it is bound to a connection, and to that
\* connection's own channel (handle_join, handle_resume, handle_disconnect).
THEOREM BindingsCorrect == Spec => []BindingConsistent
<1>1. IInv => BindingConsistent
  BY DEF IInv
<1> QED
  BY <1>1, Invariant, PTL

\* The connection that waits for the rule engine keeps its route, so that the
\* verdict reaches it (handle_player_action).
THEOREM VerdictsCorrect == Spec => []AwaitingIsRouted
<1>1. IInv => AwaitingIsRouted
  BY DEF IInv
<1> QED
  BY <1>1, Invariant, PTL

-----------------------------------------------------------------------------
(* Clients that use one connection for one user.                           *)

\* What such clients add to the invariant.
OneUserIInv == IInv /\ ConnectedSeatsAreRouted

\* The step writes slot s of room r, routes its connection to it and takes no
\* route from the connection of another seat.
SeatRouted(r, s, players) ==
    /\ players_by_seat' = [players_by_seat EXCEPT ![r] = players]
    /\ \A q \in Rooms \ {r} : connection_to_user'[q] = connection_to_user[q]
    /\ \A t \in Seats \ {s} :
          players[t].connected =>
             /\ players[t] = players_by_seat[r][t]
             /\ connection_to_user'[r][players[t].connection_id]
                  = connection_to_user[r][players[t].connection_id]
    /\ players[s].connected =>
          connection_to_user'[r][players[s].connection_id] = players[s].user_id

\* Such a step keeps every connected seat routed.
LEMMA RoutedStep ==
    ASSUME OneUserIInv, NEW r \in Rooms, NEW s \in Seats, NEW players,
           SeatRouted(r, s, players)
    PROVE  ConnectedSeatsAreRouted'
<1> USE DEF SeatRouted
<1>0. TypeOK /\ ConnectedSeatsAreRouted
  BY DEF OneUserIInv, IInv
<1> SUFFICES ASSUME NEW q \in Rooms, NEW t \in Seats, players_by_seat'[q][t].connected
             PROVE  connection_to_user'[q][players_by_seat'[q][t].connection_id]
                      = players_by_seat'[q][t].user_id
  BY DEF ConnectedSeatsAreRouted
<1>1. CASE q # r
  <2>1. players_by_seat'[q] = players_by_seat[q] /\ connection_to_user'[q] = connection_to_user[q]
    BY <1>0, <1>1 DEF TypeOK
  <2> QED  BY <2>1, <1>0 DEF ConnectedSeatsAreRouted
<1>2. CASE q = r
  <2>1. players_by_seat'[q] = players
    BY <1>0, <1>2 DEF TypeOK
  <2>2. CASE t = s  BY <1>2, <2>1, <2>2
  <2>3. CASE t # s  BY <1>0, <1>2, <2>1, <2>3 DEF ConnectedSeatsAreRouted
  <2> QED  BY <2>2, <2>3
<1> QED  BY <1>1, <1>2

\* Only one seat is connected through a connection: two would have one user.
LEMMA OneSeatPerConnection ==
    ASSUME OneUserIInv, NEW r \in Rooms, NEW s \in Seats, NEW t \in Seats,
           players_by_seat[r][s].connected, players_by_seat[r][t].connected,
           players_by_seat[r][s].connection_id = players_by_seat[r][t].connection_id
    PROVE  s = t
<1>1. players_by_seat[r][s].user_id = players_by_seat[r][t].user_id
  BY DEF OneUserIInv, ConnectedSeatsAreRouted
<1>2. players_by_seat[r][s].user_id \in Users
  BY DEF OneUserIInv, IInv, TypeOK, PlayerSlot, BindingConsistent, NoPlayer
<1> QED
  BY <1>1, <1>2 DEF OneUserIInv, IInv, SeatIndexAgrees

\* handle_join: no other seat is connected through the connection that joins.
LEMMA JoinRouted ==
    ASSUME OneUserIInv, NEW r \in Rooms, NEW c \in Conns, NEW u \in Users, NEW s \in Seats,
           OneUserPerConnection(r, c, u), JoinSeated(r, c, u, s)
    PROVE  ConnectedSeatsAreRouted'
<1> DEFINE joined == [ user_id |-> u, status |-> "Joined", connected |-> TRUE,
                       auto_play_enabled |-> FALSE,
                       connection_id |-> c, outbound_tx |-> c ]
           players == [players_by_seat[r] EXCEPT ![s] = joined]
<1>1. /\ TypeOK /\ ConnectedSeatsAreRouted
      /\ players_by_seat' = [players_by_seat EXCEPT ![r] = players]
      /\ connection_to_user' = [connection_to_user EXCEPT ![r][c] = u]
      /\ user_to_seat[r][u] = NoSeat
  BY DEF OneUserIInv, IInv, JoinSeated, HasNoSeat
<1>2. players[s] = joined /\ \A t \in Seats \ {s} : players[t] = players_by_seat[r][t]
  BY <1>1 DEF TypeOK
<1>3. connection_to_user'[r][c] = u
  BY <1>1 DEF TypeOK
<1>4. ASSUME NEW t \in Seats \ {s}, players_by_seat[r][t].connected
      PROVE  connection_to_user'[r][players_by_seat[r][t].connection_id]
               = connection_to_user[r][players_by_seat[r][t].connection_id]
  <2> DEFINE d == players_by_seat[r][t].connection_id
  <2>1. connection_to_user[r][d] = players_by_seat[r][t].user_id
    BY <1>1, <1>4 DEF ConnectedSeatsAreRouted
  <2>2. players_by_seat[r][t].user_id \in Users /\ d \in Conns
    BY <1>4 DEF OneUserIInv, IInv, TypeOK, PlayerSlot, BindingConsistent, NoPlayer
  <2>3. players_by_seat[r][t].user_id # u
    BY <1>1 DEF OneUserIInv, IInv, SeatIndexAgrees, Seats, NoSeat
  <2>4. d # c
    BY <2>1, <2>2, <2>3, NoneAssumption DEF OneUserPerConnection
  <2> QED  BY <1>1, <2>2, <2>4 DEF TypeOK
<1>5. \A q \in Rooms \ {r} : connection_to_user'[q] = connection_to_user[q]
  BY <1>1 DEF TypeOK
<1>6. \A t \in Seats \ {s} : players[t].connected =>
         /\ players[t] = players_by_seat[r][t]
         /\ connection_to_user'[r][players[t].connection_id]
              = connection_to_user[r][players[t].connection_id]
  BY <1>2, <1>4
<1>7. connection_to_user'[r][players[s].connection_id] = players[s].user_id
  BY <1>2, <1>3
<1> HIDE DEF players
<1> QED
  <2>1. SeatRouted(r, s, players)
    BY <1>1, <1>5, <1>6, <1>7 DEF SeatRouted
  <2> QED  BY <2>1, RoutedStep

\* handle_resume: neither the connection that comes nor the one that goes is
\* another seat's.
LEMMA ResumeRouted ==
    ASSUME OneUserIInv, NEW r \in Rooms, NEW c \in Conns, NEW u \in Users,
           OneUserPerConnection(r, c, u), Resume(r, c, u)
    PROVE  ConnectedSeatsAreRouted'
<1> DEFINE s == user_to_seat[r][u]
           was == players_by_seat[r]
           old == was[s].connection_id
           players == [was EXCEPT ![s].connection_id = c,
                                  ![s].outbound_tx = c,
                                  ![s].connected = TRUE]
<1>1. /\ TypeOK /\ ConnectedSeatsAreRouted
      /\ players_by_seat' = [players_by_seat EXCEPT ![r] = players]
      /\ connection_to_user' = [connection_to_user EXCEPT ![r] =
           RoutesAfterResume(r, c, old, players[s].user_id)]
      /\ user_to_seat[r][u] # NoSeat
  BY DEF OneUserIInv, IInv, Resume
<1>2. s \in Seats /\ was[s].user_id = u
  BY <1>1, UserSeat DEF OneUserIInv
<1>3. /\ \A t \in Seats \ {s} : players[t] = was[t]
      /\ players[s].user_id = u
      /\ players[s].connection_id = c
  BY <1>1, <1>2 DEF TypeOK, PlayerSlot
<1>4. /\ \A q \in Rooms \ {r} : connection_to_user'[q] = connection_to_user[q]
      /\ connection_to_user'[r] = RoutesAfterResume(r, c, old, u)
  BY <1>1, <1>3 DEF TypeOK
<1>5. connection_to_user'[r][c] = u
  BY <1>4 DEF RoutesAfterResume
<1>6. ASSUME NEW t \in Seats \ {s}, was[t].connected
      PROVE  connection_to_user'[r][was[t].connection_id]
               = connection_to_user[r][was[t].connection_id]
  <2> DEFINE d == was[t].connection_id
  <2>1. connection_to_user[r][d] = was[t].user_id
    BY <1>1, <1>6 DEF ConnectedSeatsAreRouted
  <2>2. was[t].user_id \in Users /\ d \in Conns
    BY <1>6 DEF OneUserIInv, IInv, TypeOK, PlayerSlot, BindingConsistent, NoPlayer
  <2>3. was[t].user_id # u
    BY <1>2 DEF OneUserIInv, IInv, SeatIndexAgrees
  <2>4. d # c
    BY <2>1, <2>2, <2>3, NoneAssumption DEF OneUserPerConnection
  <2>5. d # old
    <3>1. SUFFICES ASSUME d = old PROVE FALSE
      OBVIOUS
    <3>2. was[s].connected
      BY <1>2, <2>2, <3>1, NoneAssumption DEF OneUserIInv, IInv, BindingConsistent
    <3> QED  BY <1>2, <1>6, <3>1, <3>2, OneSeatPerConnection
  <2> QED  BY <1>4, <2>2, <2>4, <2>5 DEF RoutesAfterResume
<1> HIDE DEF players, s, was, old
<1>7. \A t \in Seats \ {s} : players[t].connected =>
         /\ players[t] = players_by_seat[r][t]
         /\ connection_to_user'[r][players[t].connection_id]
              = connection_to_user[r][players[t].connection_id]
  BY <1>3, <1>6 DEF was
<1>8. connection_to_user'[r][players[s].connection_id] = players[s].user_id
  BY <1>3, <1>5
<1> QED
  <2>1. SeatRouted(r, s, players)
    BY <1>1, <1>2, <1>4, <1>7, <1>8 DEF SeatRouted
  <2> QED  BY <1>2, <2>1, RoutedStep

\* handle_disconnect: no other seat is connected through the connection.
LEMMA DisconnectRouted ==
    ASSUME OneUserIInv, NEW r \in Rooms, NEW c \in Conns, Disconnect(r, c)
    PROVE  ConnectedSeatsAreRouted'
<1> DEFINE s == SeatForConnection(r, c)
           was == players_by_seat[r]
           players == [was EXCEPT ![s] = Unbound(@)]
<1>1. /\ TypeOK /\ ConnectedSeatsAreRouted /\ Routed(r, c)
      /\ players_by_seat' = [players_by_seat EXCEPT ![r] = players]
      /\ connection_to_user' = [connection_to_user EXCEPT ![r][c] = None]
  BY DEF OneUserIInv, IInv, Disconnect
<1>2. s \in Seats /\ was[s].connection_id = c /\ was[s].connected
  BY <1>1, RouteSeat DEF OneUserIInv
<1>3. /\ \A t \in Seats \ {s} : players[t] = was[t]
      /\ ~players[s].connected
  <2>1. was \in [Seats -> PlayerSlot]
    BY <1>1 DEF TypeOK
  <2> QED  BY <1>2, <2>1 DEF Unbound, PlayerSlot
<1>4. \A q \in Rooms \ {r} : connection_to_user'[q] = connection_to_user[q]
  BY <1>1 DEF TypeOK
<1>5. ASSUME NEW t \in Seats \ {s}, was[t].connected
      PROVE  connection_to_user'[r][was[t].connection_id]
               = connection_to_user[r][was[t].connection_id]
  <2>1. was[t].connection_id # c
    BY <1>2, <1>5, OneSeatPerConnection
  <2> QED  BY <1>1, <2>1 DEF TypeOK
<1> HIDE DEF players, s, was
<1>6. \A t \in Seats \ {s} : players[t].connected =>
         /\ players[t] = players_by_seat[r][t]
         /\ connection_to_user'[r][players[t].connection_id]
              = connection_to_user[r][players[t].connection_id]
  BY <1>3, <1>5 DEF was
<1> QED
  <2>1. SeatRouted(r, s, players)
    BY <1>1, <1>2, <1>3, <1>4, <1>6 DEF SeatRouted
  <2> QED  BY <1>2, <2>1, RoutedStep

\* A change of a status or of the auto play switch moves no seat and no route.
LEMMA FlagRouted ==
    ASSUME OneUserIInv, NEW r \in Rooms, NEW c \in Conns,
           \/ \E status \in {"Joined", "Ready"} : Ready(r, c, status)
           \/ \E enabled \in BOOLEAN : AutoPlayToggle(r, c, enabled)
    PROVE  ConnectedSeatsAreRouted'
<1> DEFINE s == SeatForConnection(r, c)
<1>1. TypeOK /\ ConnectedSeatsAreRouted /\ Routed(r, c)
  BY DEF OneUserIInv, IInv, Ready, AutoPlayToggle
<1>2. s \in Seats
  BY <1>1, RouteSeat DEF OneUserIInv
<1>3. PICK players :
         /\ players_by_seat' = [players_by_seat EXCEPT ![r] = players]
         /\ \/ \E status \in {"Joined", "Ready"} :
                  players = [players_by_seat[r] EXCEPT ![s].status = status]
            \/ \E enabled \in BOOLEAN :
                  players = [players_by_seat[r] EXCEPT ![s].auto_play_enabled = enabled]
  BY DEF Ready, AutoPlayToggle
<1>4. UNCHANGED connection_to_user
  BY DEF Ready, AutoPlayToggle
<1>5. \A t \in Seats :
         /\ players[t].connected = players_by_seat[r][t].connected
         /\ players[t].connection_id = players_by_seat[r][t].connection_id
         /\ players[t].user_id = players_by_seat[r][t].user_id
         /\ t # s => players[t] = players_by_seat[r][t]
  <2>1. players_by_seat[r] \in [Seats -> PlayerSlot]
    BY <1>1 DEF TypeOK
  <2>2. CASE \E status \in {"Joined", "Ready"} :
                players = [players_by_seat[r] EXCEPT ![s].status = status]
    BY <1>2, <2>1, <2>2 DEF PlayerSlot
  <2>3. CASE \E enabled \in BOOLEAN :
                players = [players_by_seat[r] EXCEPT ![s].auto_play_enabled = enabled]
    BY <1>2, <2>1, <2>3 DEF PlayerSlot
  <2> QED  BY <1>3, <2>2, <2>3
<1>6. players[s].connected =>
         connection_to_user'[r][players[s].connection_id] = players[s].user_id
  BY <1>1, <1>2, <1>4, <1>5 DEF ConnectedSeatsAreRouted
<1> HIDE DEF s
<1> QED
  <2>1. SeatRouted(r, s, players)
    BY <1>1, <1>2, <1>3, <1>4, <1>5, <1>6 DEF SeatRouted
  <2> QED  BY <1>2, <2>1, RoutedStep

\* Every step of such clients is a step of the room task.
LEMMA OneUserIsNext == ASSUME NextOneUser PROVE Next
BY DEF NextOneUser, Next

\* A step that leaves the tables alone leaves the seats routed.
LEMMA TablesRouted ==
    ASSUME ConnectedSeatsAreRouted, UNCHANGED tables
    PROVE  ConnectedSeatsAreRouted'
BY DEF tables, ConnectedSeatsAreRouted

\* At first nobody is connected.
LEMMA OneUserInit == Init => OneUserIInv
BY InitIInv DEF OneUserIInv, Init, ConnectedSeatsAreRouted, NoPlayer

\* Every step of such clients keeps the connected seats routed.
LEMMA OneUserStep == ASSUME OneUserIInv, [NextOneUser]_vars PROVE OneUserIInv'
<1>1. IInv'
  BY NextIInv, StutterIInv, OneUserIsNext DEF OneUserIInv
<1>2. CASE UNCHANGED vars
  BY <1>1, <1>2, TablesRouted DEF vars, OneUserIInv
<1>3. ASSUME NEW r \in Rooms, ActionVerdict(r) PROVE OneUserIInv'
  BY <1>1, <1>3, TablesRouted DEF OneUserIInv, ActionVerdict, RejectSent
<1>4. ASSUME NEW r \in Rooms, NEW c \in Conns, HandleReady(r, c) PROVE OneUserIInv'
  BY <1>1, <1>4, TablesRouted, FlagRouted
     DEF OneUserIInv, HandleReady, ReadyUnregistered, RejectSent
<1>5. ASSUME NEW r \in Rooms, NEW c \in Conns, HandlePlayerAction(r, c) PROVE OneUserIInv'
  BY <1>1, <1>5, TablesRouted, FlagRouted
     DEF OneUserIInv, HandlePlayerAction, ActionUnregistered, ActionRefused,
         ActionSubmitted, RejectSent
<1>6. ASSUME NEW r \in Rooms, NEW c \in Conns, HandleDisconnect(r, c) PROVE OneUserIInv'
  BY <1>1, <1>6, TablesRouted, DisconnectRouted
     DEF OneUserIInv, HandleDisconnect, DisconnectUnregistered, vars
<1>7. ASSUME NEW r \in Rooms, NEW c \in Conns, NEW u \in Users,
             OneUserPerConnection(r, c, u), HandleJoin(r, c, u)
      PROVE  OneUserIInv'
  BY <1>1, <1>7, TablesRouted, JoinRouted
     DEF OneUserIInv, HandleJoin, JoinAlreadyJoined, JoinRoomFull, OnlyAnswer
<1>8. ASSUME NEW r \in Rooms, NEW c \in Conns, NEW u \in Users,
             OneUserPerConnection(r, c, u), HandleResume(r, c, u)
      PROVE  OneUserIInv'
  BY <1>1, <1>8, TablesRouted, ResumeRouted
     DEF OneUserIInv, HandleResume, ResumeUnknownUser, ResumeBadToken, OnlyAnswer
<1> QED  BY <1>2, <1>3, <1>4, <1>5, <1>6, <1>7, <1>8 DEF NextOneUser

\* With clients that use one connection for one user the connection of every
\* connected seat is routed to it (seat_for_connection).
THEOREM NoGhostSeats == SpecOneUser => []ConnectedSeatsAreRouted
<1>1. OneUserIInv /\ [NextOneUser]_vars => OneUserIInv'
  BY OneUserStep
<1>2. OneUserIInv => ConnectedSeatsAreRouted
  BY DEF OneUserIInv
<1> QED
  BY <1>1, <1>2, OneUserInit, PTL DEF SpecOneUser

-----------------------------------------------------------------------------
(* The room task implements the seat table, and two things a step of it    *)
(* may never do: move a player, or take a player offline for a connection  *)
(* that does not hold the seat.                                            *)

\* A step that keeps the slots and the phase is no step of the seat table.
LEMMA TableStutter ==
    ASSUME UNCHANGED players_by_seat, UNCHANGED phase
    PROVE  UNCHANGED Table!vars
BY DEF Table!vars, Owners, Holders, ReadySeats, AutoSeats, IsDealing

\* The step gives room r the slots players, which differ in slot s at most.
SlotWritten(r, s, players) ==
    /\ \A t \in Seats \ {s} : players[t] = players_by_seat[r][t]
    /\ players_by_seat \in [Rooms -> [Seats -> PlayerSlot]]
    /\ players_by_seat' = [players_by_seat EXCEPT ![r] = players]

\* What a step that writes one slot means for the seat table.
LEMMA TableWrite ==
    ASSUME NEW r \in Rooms, NEW s \in Seats, NEW players, SlotWritten(r, s, players)
    PROVE  /\ Owners' = [Owners EXCEPT ![r][s] = players[s].user_id]
           /\ Holders' = [Holders EXCEPT ![r][s] = players[s].connection_id]
           /\ ReadySeats' = [ReadySeats EXCEPT ![r] =
                IF players[s].status = "Ready" THEN @ \cup {s} ELSE @ \ {s}]
           /\ AutoSeats' = [AutoSeats EXCEPT ![r] =
                IF players[s].auto_play_enabled THEN @ \cup {s} ELSE @ \ {s}]
<1>1. \A q \in Rooms, t \in Seats :
        players_by_seat'[q][t] =
          IF q = r THEN IF t = s THEN players[s] ELSE players_by_seat[q][t]
          ELSE players_by_seat[q][t]
  BY DEF SlotWritten
<1>2. Owners' = [Owners EXCEPT ![r][s] = players[s].user_id]
  BY <1>1 DEF Owners, SlotWritten
<1>3. Holders' = [Holders EXCEPT ![r][s] = players[s].connection_id]
  BY <1>1 DEF Holders, SlotWritten
<1>4. ReadySeats' = [ReadySeats EXCEPT ![r] =
        IF players[s].status = "Ready" THEN @ \cup {s} ELSE @ \ {s}]
  <2>1. \A q \in Rooms \ {r} : ReadySeats'[q] = ReadySeats[q]
    BY <1>1 DEF ReadySeats
  <2>2. ASSUME players[s].status = "Ready"
        PROVE  ReadySeats'[r] = ReadySeats[r] \cup {s}
    BY <1>1, <2>2 DEF ReadySeats
  <2>3. ASSUME ~(players[s].status = "Ready")
        PROVE  ReadySeats'[r] = ReadySeats[r] \ {s}
    BY <1>1, <2>3 DEF ReadySeats
  <2>4. ReadySeats' = [q \in Rooms |-> ReadySeats'[q]] /\ ReadySeats = [q \in Rooms |-> ReadySeats[q]]
    BY DEF ReadySeats
  <2> QED  BY <2>1, <2>2, <2>3, <2>4
<1>5. AutoSeats' = [AutoSeats EXCEPT ![r] =
        IF players[s].auto_play_enabled THEN @ \cup {s} ELSE @ \ {s}]
  <2>1. \A q \in Rooms \ {r} : AutoSeats'[q] = AutoSeats[q]
    BY <1>1 DEF AutoSeats
  <2>2. ASSUME players[s].auto_play_enabled
        PROVE  AutoSeats'[r] = AutoSeats[r] \cup {s}
    BY <1>1, <2>2 DEF AutoSeats
  <2>3. ASSUME ~(players[s].auto_play_enabled)
        PROVE  AutoSeats'[r] = AutoSeats[r] \ {s}
    BY <1>1, <2>3 DEF AutoSeats
  <2>4. AutoSeats' = [q \in Rooms |-> AutoSeats'[q]] /\ AutoSeats = [q \in Rooms |-> AutoSeats[q]]
    BY DEF AutoSeats
  <2> QED  BY <2>1, <2>2, <2>3, <2>4
<1> QED
  BY <1>2, <1>3, <1>4, <1>5

\* What a step leaves alone in every slot, it leaves alone in the seat table.
LEMMA TableKept ==
    /\ (\A q \in Rooms, t \in Seats :
            players_by_seat'[q][t].user_id = players_by_seat[q][t].user_id)
       => UNCHANGED Owners
    /\ (\A q \in Rooms, t \in Seats :
            players_by_seat'[q][t].connection_id = players_by_seat[q][t].connection_id)
       => UNCHANGED Holders
    /\ (\A q \in Rooms, t \in Seats :
            players_by_seat'[q][t].status = "Ready"
                <=> players_by_seat[q][t].status = "Ready")
       => UNCHANGED ReadySeats
    /\ (\A q \in Rooms, t \in Seats :
            players_by_seat'[q][t].auto_play_enabled
                <=> players_by_seat[q][t].auto_play_enabled)
       => UNCHANGED AutoSeats
    /\ UNCHANGED phase => UNCHANGED IsDealing
BY DEF Owners, Holders, ReadySeats, AutoSeats, IsDealing

-----------------------------------------------------------------------------
(* Every handler is a step of the seat table.                              *)

\* A seated join takes the first free seat.
LEMMA JoinTakes ==
    ASSUME IInv, NEW r \in Rooms, NEW c \in Conns, NEW u \in Users, NEW s \in Seats,
           JoinSeated(r, c, u, s)
    PROVE  Table!Take(r, s, u, c)
<1> DEFINE joined == [ user_id |-> u, status |-> "Joined", connected |-> TRUE,
                       auto_play_enabled |-> FALSE,
                       connection_id |-> c, outbound_tx |-> c ]
           players == [players_by_seat[r] EXCEPT ![s] = joined]
<1>1. players_by_seat \in [Rooms -> [Seats -> PlayerSlot]]
  BY DEF IInv, TypeOK
<1>2. /\ players_by_seat[r][s] = NoPlayer
      /\ \A t \in Seats : t < s => players_by_seat[r][t].user_id # None
      /\ \A t \in Seats : players_by_seat[r][t].user_id # u
  BY DEF JoinSeated, HasNoSeat, IsNextOpenSeat, Occupied, IInv, BindingConsistent,
         SeatIndexAgrees, NoSeat, Seats
<1>3. /\ players_by_seat' = [players_by_seat EXCEPT ![r] = players]
      /\ UNCHANGED phase
  BY DEF JoinSeated
<1>4. players[s] = joined /\ \A t \in Seats \ {s} : players[t] = players_by_seat[r][t]
  BY <1>1
<1>5. \A q \in Rooms, t \in Seats :
        players_by_seat'[q][t] = IF q = r /\ t = s THEN joined ELSE players_by_seat[q][t]
  BY <1>1, <1>3, <1>4
<1>6. /\ Owners' = [Owners EXCEPT ![r][s] = u]
      /\ Holders' = [Holders EXCEPT ![r][s] = c]
  <2>1. SlotWritten(r, s, players)
    BY <1>1, <1>3, <1>4 DEF SlotWritten
  <2>2. players[s].user_id = u /\ players[s].connection_id = c
    BY <1>4
  <2> HIDE DEF players
  <2> QED  BY <2>1, <2>2, TableWrite
<1>7. UNCHANGED ReadySeats /\ UNCHANGED AutoSeats /\ UNCHANGED IsDealing
  BY <1>2, <1>3, <1>5, TableKept DEF NoPlayer
<1>8. \A t \in Seats : Owners[r][t] = players_by_seat[r][t].user_id
  BY DEF Owners
<1> QED
  BY <1>2, <1>6, <1>7, <1>8, NoneAssumption DEF Table!Take, Table!Seats, Seats, NoPlayer

\* A ready request sets the readiness of a held seat.
LEMMA ReadySets ==
    ASSUME IInv, NEW r \in Rooms, NEW c \in Conns, NEW status \in {"Joined", "Ready"},
           Ready(r, c, status)
    PROVE  Table!SetReady(r, SeatForConnection(r, c), status = "Ready")
<1> DEFINE s == SeatForConnection(r, c)
           players == [players_by_seat[r] EXCEPT ![s].status = status]
<1>1. players_by_seat \in [Rooms -> [Seats -> PlayerSlot]]
  BY DEF IInv, TypeOK
<1>2. s \in Seats /\ players_by_seat[r][s].connection_id = c /\ c # None
  BY RouteSeat, NoneAssumption DEF Ready
<1>3. /\ players_by_seat' = [players_by_seat EXCEPT ![r] = players]
      /\ phase' = [phase EXCEPT ![r] = PhaseFor(players)]
  BY DEF Ready
<1>4. /\ players[s].status = status
      /\ players[s].user_id = players_by_seat[r][s].user_id
      /\ players[s].connection_id = players_by_seat[r][s].connection_id
      /\ players[s].auto_play_enabled = players_by_seat[r][s].auto_play_enabled
      /\ \A t \in Seats \ {s} : players[t] = players_by_seat[r][t]
  BY <1>1, <1>2 DEF PlayerSlot
<1> HIDE DEF players, s
<1>5. ReadySeats' = [ReadySeats EXCEPT ![r] =
        IF status = "Ready" THEN @ \cup {s} ELSE @ \ {s}]
  <2>1. SlotWritten(r, s, players)
    BY <1>1, <1>3, <1>4 DEF SlotWritten
  <2> QED  BY <1>2, <1>4, <2>1, TableWrite
<1>6. \A q \in Rooms, t \in Seats :
        /\ players_by_seat'[q][t].user_id = players_by_seat[q][t].user_id
        /\ players_by_seat'[q][t].connection_id = players_by_seat[q][t].connection_id
        /\ players_by_seat'[q][t].auto_play_enabled = players_by_seat[q][t].auto_play_enabled
  BY <1>1, <1>2, <1>3, <1>4
<1>7. UNCHANGED Owners /\ UNCHANGED Holders /\ UNCHANGED AutoSeats
  BY <1>6, TableKept
<1>8. ReadySeats'[r] = {t \in Seats : players[t].status = "Ready"}
  BY <1>1, <1>3 DEF ReadySeats
<1>9. AllReady(players) <=> ReadySeats'[r] = Seats
  BY <1>8 DEF AllReady
<1>10. IsDealing' = [IsDealing EXCEPT ![r] = (ReadySeats'[r] = Seats)]
  <2>1. phase \in [Rooms -> {"Lobby", "Dealing"}]
    BY DEF IInv, TypeOK
  <2>2. \A q \in Rooms : q # r => phase'[q] = phase[q]
    BY <1>3, <2>1
  <2>3. phase'[r] = "Dealing" <=> ReadySeats'[r] = Seats
    BY <1>3, <1>9, <2>1 DEF PhaseFor
  <2>4. (phase'[r] = "Dealing") = (ReadySeats'[r] = Seats)
    BY <2>3
  <2> QED  BY <2>2, <2>4, Zenon DEF IsDealing
<1>11. Holders[r][s] = players_by_seat[r][s].connection_id
  BY <1>2 DEF Holders
<1> QED
  BY <1>2, <1>5, <1>7, <1>10, <1>11 DEF Table!SetReady, Table!Seats, Seats, s

\* An auto play toggle sets the switch of a held seat.
LEMMA ToggleSets ==
    ASSUME IInv, NEW r \in Rooms, NEW c \in Conns, NEW enabled \in BOOLEAN,
           AutoPlayToggle(r, c, enabled)
    PROVE  Table!SetAuto(r, SeatForConnection(r, c), enabled)
<1> DEFINE s == SeatForConnection(r, c)
           players == [players_by_seat[r] EXCEPT ![s].auto_play_enabled = enabled]
<1>1. players_by_seat \in [Rooms -> [Seats -> PlayerSlot]]
  BY DEF IInv, TypeOK
<1>2. s \in Seats /\ players_by_seat[r][s].connection_id = c /\ c # None
  BY RouteSeat, NoneAssumption DEF AutoPlayToggle
<1>3. /\ players_by_seat' = [players_by_seat EXCEPT ![r] = players]
      /\ UNCHANGED phase
  BY DEF AutoPlayToggle
<1>4. /\ players[s].auto_play_enabled <=> enabled
      /\ players[s].user_id = players_by_seat[r][s].user_id
      /\ players[s].connection_id = players_by_seat[r][s].connection_id
      /\ players[s].status = players_by_seat[r][s].status
      /\ \A t \in Seats \ {s} : players[t] = players_by_seat[r][t]
  BY <1>1, <1>2 DEF PlayerSlot
<1> HIDE DEF players, s
<1>5. AutoSeats' = [AutoSeats EXCEPT ![r] = IF enabled THEN @ \cup {s} ELSE @ \ {s}]
  <2>1. SlotWritten(r, s, players)
    BY <1>1, <1>3, <1>4 DEF SlotWritten
  <2> QED  BY <1>2, <1>4, <2>1, TableWrite
<1>6. \A q \in Rooms, t \in Seats :
        /\ players_by_seat'[q][t].user_id = players_by_seat[q][t].user_id
        /\ players_by_seat'[q][t].connection_id = players_by_seat[q][t].connection_id
        /\ players_by_seat'[q][t].status = players_by_seat[q][t].status
  BY <1>1, <1>2, <1>3, <1>4
<1>7. UNCHANGED Owners /\ UNCHANGED Holders /\ UNCHANGED ReadySeats
      /\ UNCHANGED IsDealing
  BY <1>3, <1>6, TableKept
<1>8. Holders[r][s] = players_by_seat[r][s].connection_id
  BY <1>2 DEF Holders
<1> QED
  BY <1>2, <1>5, <1>7, <1>8 DEF Table!SetAuto, Table!Seats, Seats, s

\* A resume hands a taken seat to another connection.
LEMMA ResumeHolds ==
    ASSUME IInv, NEW r \in Rooms, NEW c \in Conns, NEW u \in Users, Resume(r, c, u)
    PROVE  Table!Hold(r, user_to_seat[r][u], c)
<1> DEFINE s == user_to_seat[r][u]
           players == [players_by_seat[r] EXCEPT ![s].connection_id = c,
                                                 ![s].outbound_tx = c,
                                                 ![s].connected = TRUE]
<1>1. players_by_seat \in [Rooms -> [Seats -> PlayerSlot]]
  BY DEF IInv, TypeOK
<1>2. s \in Seats /\ players_by_seat[r][s].user_id = u /\ u # None
  BY UserSeat, NoneAssumption DEF Resume
<1>3. /\ players_by_seat' = [players_by_seat EXCEPT ![r] = players]
      /\ UNCHANGED phase
  BY DEF Resume
<1>4. /\ players[s].connection_id = c
      /\ players[s].user_id = players_by_seat[r][s].user_id
      /\ players[s].status = players_by_seat[r][s].status
      /\ players[s].auto_play_enabled = players_by_seat[r][s].auto_play_enabled
      /\ \A t \in Seats \ {s} : players[t] = players_by_seat[r][t]
  BY <1>1, <1>2 DEF PlayerSlot
<1> HIDE DEF players
<1>5. Holders' = [Holders EXCEPT ![r][s] = c]
  <2>1. SlotWritten(r, s, players)
    BY <1>1, <1>3, <1>4 DEF SlotWritten
  <2> QED  BY <1>2, <1>4, <2>1, TableWrite
<1>6. \A q \in Rooms, t \in Seats :
        /\ players_by_seat'[q][t].user_id = players_by_seat[q][t].user_id
        /\ players_by_seat'[q][t].status = players_by_seat[q][t].status
        /\ players_by_seat'[q][t].auto_play_enabled = players_by_seat[q][t].auto_play_enabled
  BY <1>1, <1>2, <1>3, <1>4
<1>7. UNCHANGED Owners /\ UNCHANGED ReadySeats /\ UNCHANGED AutoSeats
      /\ UNCHANGED IsDealing
  BY <1>3, <1>6, TableKept
<1>8. Owners[r][s] = players_by_seat[r][s].user_id
  BY <1>2 DEF Owners
<1> QED
  BY <1>2, <1>5, <1>7, <1>8 DEF Table!Hold

\* A disconnect releases a held seat.
LEMMA DisconnectReleases ==
    ASSUME IInv, NEW r \in Rooms, NEW c \in Conns, Disconnect(r, c)
    PROVE  Table!Release(r, SeatForConnection(r, c))
<1> DEFINE s == SeatForConnection(r, c)
           players == [players_by_seat[r] EXCEPT ![s] = Unbound(@)]
<1>1. players_by_seat \in [Rooms -> [Seats -> PlayerSlot]]
  BY DEF IInv, TypeOK
<1>2. s \in Seats /\ players_by_seat[r][s].connection_id = c /\ c # None
  BY RouteSeat, NoneAssumption DEF Disconnect
<1>3. /\ players_by_seat' = [players_by_seat EXCEPT ![r] = players]
      /\ UNCHANGED phase
  BY DEF Disconnect
<1>4. /\ players[s].connection_id = None
      /\ players[s].user_id = players_by_seat[r][s].user_id
      /\ players[s].status = players_by_seat[r][s].status
      /\ players[s].auto_play_enabled = players_by_seat[r][s].auto_play_enabled
      /\ \A t \in Seats \ {s} : players[t] = players_by_seat[r][t]
  BY <1>1, <1>2 DEF PlayerSlot, Unbound
<1> HIDE DEF players, s
<1>5. Holders' = [Holders EXCEPT ![r][s] = None]
  <2>1. SlotWritten(r, s, players)
    BY <1>1, <1>3, <1>4 DEF SlotWritten
  <2> QED  BY <1>2, <1>4, <2>1, TableWrite
<1>6. \A q \in Rooms, t \in Seats :
        /\ players_by_seat'[q][t].user_id = players_by_seat[q][t].user_id
        /\ players_by_seat'[q][t].status = players_by_seat[q][t].status
        /\ players_by_seat'[q][t].auto_play_enabled = players_by_seat[q][t].auto_play_enabled
  BY <1>1, <1>2, <1>3, <1>4
<1>7. UNCHANGED Owners /\ UNCHANGED ReadySeats /\ UNCHANGED AutoSeats
      /\ UNCHANGED IsDealing
  BY <1>3, <1>6, TableKept
<1>8. Holders[r][s] = players_by_seat[r][s].connection_id
  BY <1>2 DEF Holders
<1> QED
  BY <1>2, <1>5, <1>7, <1>8 DEF Table!Release, s

-----------------------------------------------------------------------------
(* The refinement.                                                         *)

\* A new room is an empty seat table.
LEMMA TableInit == Init => Table!Init
<1> SUFFICES ASSUME Init PROVE Table!Init
  OBVIOUS
<1>1. Owners = [r \in Rooms |-> [s \in Seats |-> None]]
  BY DEF Init, Owners, NoPlayer
<1>2. Holders = [r \in Rooms |-> [s \in Seats |-> None]]
  BY DEF Init, Holders, NoPlayer
<1>3. ReadySeats = [r \in Rooms |-> {}]
  BY DEF Init, ReadySeats, NoPlayer
<1>4. AutoSeats = [r \in Rooms |-> {}]
  BY DEF Init, AutoSeats, NoPlayer
<1>5. IsDealing = [r \in Rooms |-> FALSE]
  BY DEF Init, IsDealing
<1> QED
  BY <1>1, <1>2, <1>3, <1>4, <1>5 DEF Table!Init, Table!Seats, Seats

\* Every step of the room task is a step of the seat table or a stutter.
LEMMA TableStep ==
    ASSUME IInv, [Next]_vars
    PROVE  Table!Next \/ UNCHANGED Table!vars
<1>1. CASE UNCHANGED vars
  BY <1>1, TableStutter DEF vars, tables
<1>2. ASSUME NEW r \in Rooms, ActionVerdict(r)
      PROVE  UNCHANGED Table!vars
  BY <1>2, TableStutter DEF ActionVerdict, RejectSent, tables
<1>3. ASSUME NEW r \in Rooms, NEW c \in Conns, HandleReady(r, c)
      PROVE  Table!Next \/ UNCHANGED Table!vars
  <2>1. CASE ReadyUnregistered(r, c)
    BY <2>1, TableStutter DEF ReadyUnregistered, RejectSent, tables
  <2>2. ASSUME NEW status \in {"Joined", "Ready"}, Ready(r, c, status)
        PROVE  Table!Next
    <3>1. Table!SetReady(r, SeatForConnection(r, c), status = "Ready")
      BY <2>2, ReadySets
    <3>2. SeatForConnection(r, c) \in Table!Seats
      BY <2>2, RouteSeat DEF Ready, Table!Seats, Seats
    <3>3. (status = "Ready") \in BOOLEAN
      OBVIOUS
    <3> QED  BY <3>1, <3>2, <3>3, Zenon DEF Table!Next
  <2> QED  BY <1>3, <2>1, <2>2 DEF HandleReady
<1>4. ASSUME NEW r \in Rooms, NEW c \in Conns, HandlePlayerAction(r, c)
      PROVE  Table!Next \/ UNCHANGED Table!vars
  <2>1. CASE ActionUnregistered(r, c) \/ ActionRefused(r, c)
    BY <2>1, TableStutter DEF ActionUnregistered, ActionRefused, RejectSent, tables
  <2>2. CASE ActionSubmitted(r, c)
    BY <2>2, TableStutter DEF ActionSubmitted, tables
  <2>3. ASSUME NEW enabled \in BOOLEAN, AutoPlayToggle(r, c, enabled)
        PROVE  Table!Next
    <3>1. Table!SetAuto(r, SeatForConnection(r, c), enabled)
      BY <2>3, ToggleSets
    <3>2. SeatForConnection(r, c) \in Table!Seats
      BY <2>3, RouteSeat DEF AutoPlayToggle, Table!Seats, Seats
    <3> QED  BY <3>1, <3>2, Zenon DEF Table!Next
  <2> QED  BY <1>4, <2>1, <2>2, <2>3 DEF HandlePlayerAction
<1>5. ASSUME NEW r \in Rooms, NEW c \in Conns, HandleDisconnect(r, c)
      PROVE  Table!Next \/ UNCHANGED Table!vars
  <2>1. CASE DisconnectUnregistered(r, c)
    BY <2>1, TableStutter DEF DisconnectUnregistered, vars, tables
  <2>2. CASE Disconnect(r, c)
    <3>1. Table!Release(r, SeatForConnection(r, c))
      BY <2>2, DisconnectReleases
    <3>2. SeatForConnection(r, c) \in Table!Seats
      BY <2>2, RouteSeat DEF Disconnect, Table!Seats, Seats
    <3> QED  BY <3>1, <3>2, Zenon DEF Table!Next
  <2> QED  BY <1>5, <2>1, <2>2 DEF HandleDisconnect
<1>6. ASSUME NEW r \in Rooms, NEW c \in Conns, NEW u \in Users, HandleJoin(r, c, u)
      PROVE  Table!Next \/ UNCHANGED Table!vars
  <2>1. CASE JoinAlreadyJoined(r, c, u) \/ JoinRoomFull(r, c, u)
    BY <2>1, TableStutter DEF JoinAlreadyJoined, JoinRoomFull, OnlyAnswer, tables
  <2>2. ASSUME NEW s \in Seats, JoinSeated(r, c, u, s)
        PROVE  Table!Next
    <3>1. Table!Take(r, s, u, c) /\ s \in Table!Seats
      BY <2>2, JoinTakes DEF Table!Seats, Seats
    <3> QED  BY <3>1, Zenon DEF Table!Next
  <2> QED  BY <1>6, <2>1, <2>2 DEF HandleJoin
<1>7. ASSUME NEW r \in Rooms, NEW c \in Conns, NEW u \in Users, HandleResume(r, c, u)
      PROVE  Table!Next \/ UNCHANGED Table!vars
  <2>1. CASE ResumeUnknownUser(r, c, u) \/ ResumeBadToken(r, c, u)
    BY <2>1, TableStutter DEF ResumeUnknownUser, ResumeBadToken, OnlyAnswer, tables
  <2>2. CASE Resume(r, c, u)
    <3>1. Table!Hold(r, user_to_seat[r][u], c)
      BY <2>2, ResumeHolds
    <3>2. user_to_seat[r][u] \in Table!Seats
      BY <2>2, UserSeat DEF Resume, Table!Seats, Seats
    <3> QED  BY <3>1, <3>2, Zenon DEF Table!Next
  <2> QED  BY <1>7, <2>1, <2>2 DEF HandleResume
<1> QED
  BY <1>1, <1>2, <1>3, <1>4, <1>5, <1>6, <1>7 DEF Next

\* The room task implements the seat table: a seat once taken stays with its
\* user, one connection holds it, and only its holder plays for it.
THEOREM RefinesSeatTable == Spec => ImplementsSeatTable
<1>1. IInv /\ [Next]_vars => [Table!Next]_Table!vars
  BY TableStep
<1> QED
  BY TableInit, <1>1, Invariant, PTL DEF Spec, ImplementsSeatTable, Table!Spec

-----------------------------------------------------------------------------
(* Action properties.                                                      *)

\* No step of a room takes a seat away from its user.
LEMMA SeatingStep ==
    ASSUME IInv, [Next]_vars, NEW r \in Rooms, NEW s \in Seats, Occupied(r, s)
    PROVE  players_by_seat'[r][s].user_id = players_by_seat[r][s].user_id
<1>1. /\ Owners[r][s] = players_by_seat[r][s].user_id
      /\ Owners'[r][s] = players_by_seat'[r][s].user_id
  BY DEF Owners
<1>2. CASE UNCHANGED Table!vars
  BY <1>1, <1>2 DEF Table!vars
<1>3. CASE Table!Next
  <2>1. ASSUME NEW q \in Rooms, NEW t \in Seats, NEW u \in Users, NEW c \in Conns,
               Table!Take(q, t, u, c)
        PROVE  Owners'[r][s] = Owners[r][s]
    <3>1. Owners[q][t] = None /\ Owners' = [Owners EXCEPT ![q][t] = u]
      BY <2>1 DEF Table!Take
    <3>2. ~(q = r /\ t = s)
      BY <1>1, <3>1 DEF Occupied
    <3>3. r \in DOMAIN Owners /\ s \in DOMAIN Owners[r]
      BY DEF Owners
    <3> QED  BY <3>1, <3>2, <3>3
  <2>2. \/ UNCHANGED Owners
        \/ \E q \in Rooms, t \in Seats, u \in Users, c \in Conns : Table!Take(q, t, u, c)
    BY <1>3 DEF Table!Next, Table!Hold, Table!Release, Table!SetReady, Table!SetAuto,
                Table!Seats, Seats
  <2> QED  BY <1>1, <2>1, <2>2
<1> QED
  BY <1>2, <1>3, TableStep

\* Nobody is moved or put off a seat, whatever the handlers are sent.
THEOREM SeatingCorrect == Spec => SeatingIsPermanent
<1>1. IInv /\ [Next]_vars =>
        [\A r \in Rooms, s \in Seats :
            Occupied(r, s) =>
              players_by_seat'[r][s].user_id = players_by_seat[r][s].user_id]_vars
  BY SeatingStep
<1> QED
  BY <1>1, Invariant, PTL DEF Spec, SeatingIsPermanent

\* Only a Disconnect takes a player offline.
LEMMA StaysConnected ==
    ASSUME IInv, Next, NEW r \in Rooms, NEW s \in Seats,
           players_by_seat[r][s].connected, ~players_by_seat'[r][s].connected
    PROVE  \E c \in Conns : Disconnect(r, c) /\ s = SeatForConnection(r, c)
<1>0. players_by_seat \in [Rooms -> [Seats -> PlayerSlot]]
  BY DEF IInv, TypeOK
<1>1. players_by_seat' # players_by_seat
  OBVIOUS
<1>2. PICK q \in Rooms, c \in Conns :
        \/ \E status \in {"Joined", "Ready"} : Ready(q, c, status)
        \/ \E enabled \in BOOLEAN : AutoPlayToggle(q, c, enabled)
        \/ Disconnect(q, c)
        \/ \E u \in Users : \E t \in Seats : JoinSeated(q, c, u, t)
        \/ \E u \in Users : Resume(q, c, u)
  BY <1>1 DEF Next, HandleReady, HandlePlayerAction, HandleDisconnect, HandleJoin,
     HandleResume, ReadyUnregistered, ActionUnregistered, ActionRefused, ActionSubmitted,
     ActionVerdict, DisconnectUnregistered, JoinAlreadyJoined, JoinRoomFull,
     ResumeUnknownUser, ResumeBadToken, OnlyAnswer, RejectSent, tables, vars
<1>3. ASSUME NEW status \in {"Joined", "Ready"}, Ready(q, c, status)
      PROVE  FALSE
  <2>1. SeatForConnection(q, c) \in Seats
    BY <1>3, RouteSeat DEF Ready
  <2> QED  BY <1>0, <1>3, <2>1 DEF Ready, PlayerSlot
<1>4. ASSUME NEW enabled \in BOOLEAN, AutoPlayToggle(q, c, enabled)
      PROVE  FALSE
  <2>1. SeatForConnection(q, c) \in Seats
    BY <1>4, RouteSeat DEF AutoPlayToggle
  <2> QED  BY <1>0, <1>4, <2>1 DEF AutoPlayToggle, PlayerSlot
<1>5. ASSUME NEW u \in Users, NEW t \in Seats, JoinSeated(q, c, u, t)
      PROVE  FALSE
  BY <1>0, <1>5 DEF JoinSeated
<1>6. ASSUME NEW u \in Users, Resume(q, c, u)
      PROVE  FALSE
  BY <1>0, <1>6 DEF Resume, PlayerSlot
<1>7. CASE Disconnect(q, c)
  <2>1. SeatForConnection(q, c) \in Seats
    BY <1>7, RouteSeat DEF Disconnect
  <2>2. q = r /\ s = SeatForConnection(q, c)
    BY <1>0, <1>7, <2>1 DEF Disconnect, PlayerSlot, Unbound
  <2> QED  BY <1>7, <2>2
<1> QED
  BY <1>2, <1>3, <1>4, <1>5, <1>6, <1>7

\* A replaced connection that closes late leaves the player online
\* (handle_resume against handle_disconnect).
THEOREM DisconnectsCorrect == Spec => OnlyOwnDisconnect
<1> DEFINE own == \A r \in Rooms, s \in Seats :
                    LET c == players_by_seat[r][s].connection_id
                    IN  players_by_seat[r][s].connected /\ ~players_by_seat'[r][s].connected
                        => /\ connection_to_user[r][c] = players_by_seat[r][s].user_id
                           /\ connection_to_user'[r][c] = None
<1>1. ASSUME IInv, [Next]_vars PROVE [own]_vars
  <2> SUFFICES ASSUME Next, NEW r \in Rooms, NEW s \in Seats,
                      players_by_seat[r][s].connected, ~players_by_seat'[r][s].connected
               PROVE  LET c == players_by_seat[r][s].connection_id
                      IN  /\ connection_to_user[r][c] = players_by_seat[r][s].user_id
                          /\ connection_to_user'[r][c] = None
    BY <1>1
  <2>1. PICK c \in Conns : Disconnect(r, c) /\ s = SeatForConnection(r, c)
    BY <1>1, StaysConnected
  <2>2. Routed(r, c)
    BY <2>1 DEF Disconnect
  <2>3. /\ players_by_seat[r][s].connection_id = c
        /\ players_by_seat[r][s].user_id = connection_to_user[r][c]
    BY <1>1, <2>1, <2>2, RouteSeat
  <2>4. connection_to_user'[r][c] = None
    BY <1>1, <2>1 DEF Disconnect, IInv, TypeOK
  <2> QED  BY <2>3, <2>4
<1>2. IInv /\ [Next]_vars => [own]_vars
  BY <1>1
<1> QED
  BY <1>2, Invariant, PTL DEF Spec, OnlyOwnDisconnect
=============================================================================
