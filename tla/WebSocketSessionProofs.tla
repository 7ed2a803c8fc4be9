------------------------ MODULE WebSocketSessionProofs ------------------------
(* Proofs about the websocket sessions, for every number of connections    *)
(* and rooms and all bounds.                                               *)
EXTENDS WebSocketSession, SequenceTheorems, TLAPS

\* A session sends its Disconnect when it is at its end, and nothing else then;
\* once the Disconnect lies in a mailbox the session is gone.
DisconnectsAtTheEnd ==
    /\ \A c \in Conns : pc[c] = "dispatch" => sending[c].kind # "Disconnect"
    /\ \A r \in Rooms : \A i \in 1 .. Len(mailbox[r]) :
          mailbox[r][i].kind = "Disconnect" => pc[mailbox[r][i].conn] = "gone"

\* Behind a Disconnect no command of the same connection waits.
DisconnectsAreOrdered ==
    \A r \in Rooms : \A i, j \in 1 .. Len(mailbox[r]) :
        i < j /\ mailbox[r][i].kind = "Disconnect" =>
            mailbox[r][j].conn # mailbox[r][i].conn

IInv == TypeOK /\ DisconnectsAtTheEnd /\ DisconnectsAreOrdered

USE DEF Goto

\* Nothing has happened yet.
LEMMA InitIInv == Init => IInv
BY NoneAssumption, BufferAssumption DEF Init, IInv, TypeOK, DisconnectsAtTheEnd, DisconnectsAreOrdered, Locations

-----------------------------------------------------------------------------
(* Types.                                                                  *)

\* The end of the loop.
LEMMA EndsType ==
    ASSUME TypeOK, NEW c \in Conns, pc[c] \in {"select", "write"}, Ends(c),
           incoming' \in [Conns -> Seq(Messages)]
    PROVE  TypeOK'
<1>1. /\ Command("Disconnect", c) \in Commands
      /\ Command("Disconnect", c).conn = c
  BY DEF Command, Commands
<1> DEFINE none == <<>>
<1>2. none \in Seq(Frames)
  OBVIOUS
<1> HIDE DEF none
<1>0. /\ writing' = [writing EXCEPT ![c] = None]
      /\ outbound' = [outbound EXCEPT ![c] = none]
      /\ UNCHANGED <<current_room, wire, peer, pending, exists, mailbox>>
  BY DEF Ends, none
<1>3. CASE current_room[c] \in exists
  <2>1. /\ sending' = [sending EXCEPT ![c] = Command("Disconnect", c)]
        /\ pc' = [pc EXCEPT ![c] = "end"]
    BY <1>3 DEF Ends
  <2> QED
    BY <1>0, <1>1, <1>2, <1>3, <2>1 DEF TypeOK, Locations
<1>4. CASE current_room[c] \notin exists
  <2>1. UNCHANGED sending /\ pc' = [pc EXCEPT ![c] = "gone"]
    BY <1>4 DEF Ends
  <2> QED
    BY <1>0, <1>2, <2>1 DEF TypeOK, Locations
<1> QED
  BY <1>3, <1>4

\* A prefix of the messages of a client is left.
LEMMA LosesLastType ==
    ASSUME TypeOK, NEW c \in Conns, LosesLast(c)
    PROVE  incoming' \in [Conns -> Seq(Messages)]
<1>1. PICK n \in 0 .. Len(incoming[c]) :
          incoming' = [incoming EXCEPT ![c] = SubSeq(incoming[c], 1, n)]
  BY DEF LosesLast
<1>2. SubSeq(incoming[c], 1, n) \in Seq(Messages)
  BY SubSeqProperties DEF TypeOK
<1> QED
  BY <1>1, <1>2 DEF TypeOK

\* The client and its network.
LEMMA ClientType ==
    ASSUME TypeOK, NEW c \in Conns,
           \/ \E m \in Messages : ClientSends(c, m)
           \/ ClientReads(c) \/ PeerGone(c) \/ PeerLost(c) \/ SocketReports(c)
    PROVE  TypeOK'
<1>1. ASSUME NEW m \in Messages, ClientSends(c, m) PROVE TypeOK'
  BY <1>1 DEF TypeOK, ClientSends
<1>2. CASE ClientReads(c)
  BY <1>2 DEF TypeOK, ClientReads
<1>3. CASE PeerGone(c)
  BY <1>3, LosesLastType DEF TypeOK, PeerGone
<1>4. CASE PeerLost(c)
  <2>1. incoming' \in [Conns -> Seq(Messages)] /\ wire' \in [Conns -> Frames \cup {None}]
    BY <1>4, LosesLastType DEF TypeOK, PeerLost
  <2> QED
    BY <1>4, <2>1 DEF TypeOK, PeerLost
<1>5. CASE SocketReports(c)
  BY <1>5 DEF TypeOK, SocketReports
<1> QED
  BY <1>1, <1>2, <1>3, <1>4, <1>5

\* The session's loop.
LEMMA LoopType ==
    ASSUME TypeOK, NEW c \in Conns,
           Open(c) \/ TakeFrame(c) \/ Written(c) \/ WriteFails(c) \/ Read(c)
    PROVE  TypeOK'
<1>0. /\ incoming[c] \in Seq(Messages)
      /\ outbound[c] \in Seq(Frames)
      /\ "Answer" \in Frames /\ "Pong" \in Frames
      /\ None \notin Rooms /\ None \notin Frames
  BY NoneAssumption DEF TypeOK, Frames
<1>1. CASE Open(c)
  BY <1>1 DEF TypeOK, Open, Locations, client
<1>2. CASE TakeFrame(c)
  BY <1>0, <1>2 DEF TypeOK, TakeFrame, MayWrite, Locations, client
<1>3. CASE Written(c)
  BY <1>3 DEF TypeOK, Written, Locations
<1>4. CASE WriteFails(c)
  BY <1>4, EndsType DEF TypeOK, WriteFails
<1>5. CASE ReadGatewayRequest(c)
  BY <1>0, <1>5 DEF TypeOK, ReadGatewayRequest, Reads, AnswersItself
<1>6. CASE ReadNamingRequest(c)
  <2>1. /\ Head(incoming[c]).kind \in NamingRequests
        /\ Head(incoming[c]) \in Messages
    BY <1>0, <1>6 DEF ReadNamingRequest, Reads
  <2>2. Head(incoming[c]).room \in Rooms
    BY <2>1 DEF Messages, Requests, ControlMessages, NamingRequests, GatewayRequests
  <2>3. Command(Head(incoming[c]).kind, c) \in Commands
        /\ Command(Head(incoming[c]).kind, c).conn = c
    BY <2>1 DEF Command, Commands
  <2> DEFINE m == Head(incoming[c])
  <2>4. /\ pc[c] = "select"
        /\ incoming' = [incoming EXCEPT ![c] = Tail(incoming[c])]
        /\ Tail(incoming[c]) \in Seq(Messages)
        /\ current_room' = [current_room EXCEPT ![c] = m.room]
        /\ exists' \subseteq Rooms /\ exists \subseteq exists'
        /\ UNCHANGED <<writing, wire, peer, pending, mailbox>>
    BY <1>0, <1>6, <2>2 DEF TypeOK, ReadNamingRequest, Reads
  <2>5. CASE m.room \in exists'
    <3>1. /\ sending' = [sending EXCEPT ![c] = Command(m.kind, c)]
          /\ pc' = [pc EXCEPT ![c] = "dispatch"]
          /\ UNCHANGED outbound
      BY <1>6, <2>5 DEF ReadNamingRequest, Dispatched
    <3> HIDE DEF m
    <3> QED
      BY <2>2, <2>3, <2>4, <2>5, <3>1 DEF TypeOK, Locations, m
  <2>6. CASE m.room \notin exists'
    <3>1. /\ outbound' = [outbound EXCEPT ![c] = Append(outbound[c], "Answer")]
          /\ UNCHANGED <<pc, sending>>
      BY <1>6, <2>6 DEF ReadNamingRequest, Dispatched, AnswersItself
    <3> QED
      BY <1>0, <2>2, <2>4, <3>1 DEF TypeOK
  <2> QED
    BY <2>5, <2>6
<1>7. CASE ReadReady(c)
  <2>1. Command("Ready", c) \in Commands /\ Command("Ready", c).conn = c
    BY DEF Command, Commands
  <2>2. /\ pc[c] = "select"
        /\ incoming' = [incoming EXCEPT ![c] = Tail(incoming[c])]
        /\ Tail(incoming[c]) \in Seq(Messages)
        /\ UNCHANGED <<current_room, writing, wire, peer, pending, exists, mailbox>>
    BY <1>0, <1>7 DEF TypeOK, ReadReady, Reads
  <2>3. \/ /\ outbound' = [outbound EXCEPT ![c] = Append(outbound[c], "Answer")]
           /\ UNCHANGED <<pc, sending>>
        \/ /\ current_room[c] \in exists
           /\ sending' = [sending EXCEPT ![c] = Command("Ready", c)]
           /\ pc' = [pc EXCEPT ![c] = "dispatch"]
           /\ UNCHANGED outbound
    BY <1>7 DEF ReadReady, Dispatched, AnswersItself
  <2>4. CASE /\ outbound' = [outbound EXCEPT ![c] = Append(outbound[c], "Answer")]
             /\ UNCHANGED <<pc, sending>>
    BY <1>0, <2>2, <2>4 DEF TypeOK
  <2>5. CASE /\ current_room[c] \in exists
             /\ sending' = [sending EXCEPT ![c] = Command("Ready", c)]
             /\ pc' = [pc EXCEPT ![c] = "dispatch"]
             /\ UNCHANGED outbound
    BY <2>1, <2>2, <2>5 DEF TypeOK, Locations
  <2> QED
    BY <2>3, <2>4, <2>5
<1>8. CASE ReadPing(c)
  BY <1>0, <1>8 DEF TypeOK, ReadPing, Reads, Locations
<1>9. CASE ReadPong(c)
  BY <1>0, <1>9 DEF TypeOK, ReadPong, Reads
<1>10. CASE ReadClose(c)
  BY <1>0, <1>10, EndsType DEF TypeOK, ReadClose, Reads
<1>11. CASE ReceiveFails(c)
  BY <1>11, EndsType DEF TypeOK, ReceiveFails
<1> QED
  BY <1>1, <1>2, <1>3, <1>4, <1>5, <1>6, <1>7, <1>8, <1>9, <1>10, <1>11 DEF Read

\* The mailboxes and the rooms.
LEMMA RoomsType ==
    ASSUME TypeOK,
           \/ \E c \in Conns : Enqueue(c) \/ RoomSends(c)
           \/ \E r \in Rooms : Take(r)
    PROVE  TypeOK'
<1>1. ASSUME NEW c \in Conns, Enqueue(c) PROVE TypeOK'
  <2>1. current_room[c] \in Rooms /\ sending[c] \in Commands
    BY <1>1 DEF TypeOK, Enqueue
  <2> QED
    BY <1>1, <2>1, BufferAssumption DEF TypeOK, Enqueue, Locations
<1>2. ASSUME NEW c \in Conns, RoomSends(c) PROVE TypeOK'
  BY <1>2 DEF TypeOK, RoomSends, Frames, client
<1>3. ASSUME NEW r \in Rooms, Take(r) PROVE TypeOK'
  BY <1>3, BufferAssumption DEF TypeOK, Take, client
<1> QED
  BY <1>1, <1>2, <1>3

-----------------------------------------------------------------------------
(* The order of what rooms hear.                                           *)

\* What lies in a mailbox is a command of some connection.
LEMMA MailboxType ==
    ASSUME TypeOK, NEW r \in Rooms, NEW i \in 1 .. Len(mailbox[r])
    PROVE  mailbox[r][i] \in Commands /\ mailbox[r][i].conn \in Conns
<1>1. mailbox[r] \in Seq(Commands)
  BY DEF TypeOK
<1>2. mailbox[r][i] \in Commands
  BY <1>1
<1> QED
  BY <1>2 DEF Commands

\* A step that leaves the mailboxes alone, and lets no session that is gone come
\* back, keeps the order.
LEMMA MailboxKept ==
    ASSUME IInv, UNCHANGED mailbox,
           \A c \in Conns : pc[c] = "gone" => pc'[c] = "gone",
           \A c \in Conns : pc'[c] = "dispatch" => sending'[c].kind # "Disconnect"
    PROVE  DisconnectsAtTheEnd' /\ DisconnectsAreOrdered'
<1>1. ASSUME NEW r \in Rooms, NEW i \in 1 .. Len(mailbox[r])
      PROVE  mailbox[r][i].conn \in Conns
  BY MailboxType DEF IInv
<1> QED
  BY <1>1 DEF IInv, DisconnectsAtTheEnd, DisconnectsAreOrdered

\* A session at its end comes last; one that is not has sent no Disconnect yet.
LEMMA EnqueueOrder ==
    ASSUME IInv, NEW c \in Conns, Enqueue(c)
    PROVE  DisconnectsAtTheEnd' /\ DisconnectsAreOrdered'
<1> DEFINE r == current_room[c]
           box == mailbox[r]
<1>1. /\ r \in Rooms /\ box \in Seq(Commands)
      /\ sending[c] \in Commands /\ sending[c].conn = c
      /\ pc[c] # "gone"
      /\ mailbox' = [mailbox EXCEPT ![r] = Append(box, sending[c])]
      /\ pc' = [pc EXCEPT ![c] = IF pc[c] = "dispatch" THEN "select" ELSE "gone"]
      /\ sending' = [sending EXCEPT ![c] = NoCommand]
  BY DEF IInv, TypeOK, Enqueue
<1>2. /\ Len(mailbox'[r]) = Len(box) + 1
      /\ \A i \in 1 .. Len(box) : mailbox'[r][i] = box[i]
      /\ mailbox'[r][Len(box) + 1] = sending[c]
  BY <1>1 DEF IInv, TypeOK
<1>3. \A q \in Rooms \ {r} : mailbox'[q] = mailbox[q]
  BY <1>1 DEF IInv, TypeOK
<1>4. \A d \in Conns : pc[d] = "gone" => pc'[d] = "gone"
  BY <1>1 DEF IInv, TypeOK
<1>5. ASSUME NEW q \in Rooms, NEW i \in 1 .. Len(mailbox[q])
      PROVE  mailbox[q][i] \in Commands /\ mailbox[q][i].conn \in Conns
  BY MailboxType DEF IInv
<1>6. \A i \in 1 .. Len(box) : box[i].kind = "Disconnect" => box[i].conn # c
  BY <1>1, <1>5 DEF IInv, DisconnectsAtTheEnd
<1>7. sending[c].kind = "Disconnect" => pc'[c] = "gone"
  BY <1>1 DEF IInv, TypeOK, DisconnectsAtTheEnd, Enqueue
<1>8. DisconnectsAtTheEnd'
  <2>1. \A d \in Conns : pc'[d] = "dispatch" => sending'[d].kind # "Disconnect"
    BY <1>1 DEF IInv, TypeOK, DisconnectsAtTheEnd
  <2>2. ASSUME NEW q \in Rooms, NEW i \in 1 .. Len(mailbox'[q]),
               mailbox'[q][i].kind = "Disconnect"
        PROVE  pc'[mailbox'[q][i].conn] = "gone"
    <3>1. CASE q # r
      BY <1>3, <1>4, <1>5, <2>2, <3>1 DEF IInv, DisconnectsAtTheEnd
    <3>2. CASE q = r /\ i = Len(box) + 1
      BY <1>1, <1>2, <1>7, <2>2, <3>2
    <3>3. CASE q = r /\ i \in 1 .. Len(box)
      BY <1>1, <1>2, <1>4, <1>5, <2>2, <3>3 DEF IInv, DisconnectsAtTheEnd
    <3> QED
      BY <1>1, <1>2, <3>1, <3>2, <3>3
  <2> QED
    BY <2>1, <2>2 DEF DisconnectsAtTheEnd
<1>9. DisconnectsAreOrdered'
  <2> SUFFICES ASSUME NEW q \in Rooms,
                      NEW i \in 1 .. Len(mailbox'[q]), NEW j \in 1 .. Len(mailbox'[q]),
                      i < j, mailbox'[q][i].kind = "Disconnect"
               PROVE  mailbox'[q][j].conn # mailbox'[q][i].conn
    BY DEF DisconnectsAreOrdered
  <2>1. CASE q # r
    BY <1>3, <2>1 DEF IInv, DisconnectsAreOrdered
  <2>2. CASE q = r /\ j = Len(box) + 1
    <3>1. i \in 1 .. Len(box)
      BY <1>1, <1>2, <2>2
    <3> QED
      BY <1>1, <1>2, <1>6, <2>2, <3>1
  <2>3. CASE q = r /\ j \in 1 .. Len(box)
    <3>1. i \in 1 .. Len(box)
      BY <1>1, <1>2, <2>3
    <3> QED
      BY <1>1, <1>2, <2>3, <3>1 DEF IInv, DisconnectsAreOrdered
  <2> QED
    BY <1>1, <1>2, <2>1, <2>2, <2>3
<1> QED
  BY <1>8, <1>9

\* The commands behind the first keep their order.
LEMMA TakeOrder ==
    ASSUME IInv, NEW r \in Rooms, Take(r)
    PROVE  DisconnectsAtTheEnd' /\ DisconnectsAreOrdered'
<1>1. /\ mailbox[r] \in Seq(Commands) /\ mailbox[r] # <<>>
      /\ mailbox' = [mailbox EXCEPT ![r] = Tail(mailbox[r])]
      /\ pc' = pc /\ sending' = sending
  BY DEF IInv, TypeOK, Take
<1>2. /\ Len(mailbox'[r]) = Len(mailbox[r]) - 1
      /\ \A i \in 1 .. Len(mailbox'[r]) : mailbox'[r][i] = mailbox[r][i + 1]
  BY <1>1 DEF IInv, TypeOK
<1>3. \A q \in Rooms \ {r} : mailbox'[q] = mailbox[q]
  BY <1>1 DEF IInv, TypeOK
<1>4. Len(mailbox[r]) \in Nat \ {0}
  BY <1>1
<1>5. DisconnectsAtTheEnd'
  BY <1>1, <1>2, <1>3, <1>4 DEF IInv, DisconnectsAtTheEnd
<1>6. DisconnectsAreOrdered'
  <2> SUFFICES ASSUME NEW q \in Rooms,
                      NEW i \in 1 .. Len(mailbox'[q]), NEW j \in 1 .. Len(mailbox'[q]),
                      i < j, mailbox'[q][i].kind = "Disconnect"
               PROVE  mailbox'[q][j].conn # mailbox'[q][i].conn
    BY DEF DisconnectsAreOrdered
  <2>1. CASE q # r
    BY <1>3, <2>1 DEF IInv, DisconnectsAreOrdered
  <2>2. CASE q = r
    <3>1. /\ i + 1 \in 1 .. Len(mailbox[r]) /\ j + 1 \in 1 .. Len(mailbox[r])
          /\ i + 1 < j + 1
      BY <1>2, <1>4, <2>2
    <3>2. mailbox'[q][i] = mailbox[r][i + 1] /\ mailbox'[q][j] = mailbox[r][j + 1]
      BY <1>2, <2>2
    <3> QED
      BY <2>2, <3>1, <3>2 DEF IInv, DisconnectsAreOrdered
  <2> QED
    BY <2>1, <2>2
<1> QED
  BY <1>5, <1>6

\* Whatever the session reads, only Ends leads to a Disconnect.
LEMMA LoopOrder ==
    ASSUME IInv, NEW c \in Conns,
           \/ \E m \in Messages : ClientSends(c, m)
           \/ ClientReads(c) \/ PeerGone(c) \/ PeerLost(c) \/ SocketReports(c)
           \/ Open(c) \/ TakeFrame(c) \/ Written(c) \/ WriteFails(c) \/ Read(c)
           \/ RoomSends(c)
    PROVE  DisconnectsAtTheEnd' /\ DisconnectsAreOrdered'
<1>1. pc \in [Conns -> Locations] /\ sending \in [Conns -> Commands \cup {NoCommand}]
  BY DEF IInv, TypeOK
<1>2. \A d \in Conns : pc[d] = "dispatch" => sending[d].kind # "Disconnect"
  BY DEF IInv, DisconnectsAtTheEnd
<1>3. CASE UNCHANGED <<pc, sending, mailbox>>
  BY <1>2, <1>3, MailboxKept
<1>4. CASE WriteFails(c) \/ ReadClose(c) \/ ReceiveFails(c)
  BY <1>1, <1>2, <1>4, MailboxKept
  DEF WriteFails, ReadClose, ReceiveFails, Reads, Ends, Locations
<1>5. CASE Open(c) \/ TakeFrame(c) \/ Written(c) \/ ReadPing(c)
  BY <1>1, <1>2, <1>5, MailboxKept
  DEF Open, TakeFrame, MayWrite, Written, ReadPing, Reads, Locations
<1>6. CASE ReadNamingRequest(c)
  <2>1. Head(incoming[c]).kind # "Disconnect"
    BY <1>6 DEF ReadNamingRequest, Reads, NamingRequests
  <2> QED
    BY <1>1, <1>2, <1>6, <2>1, MailboxKept
    DEF ReadNamingRequest, Reads, Dispatched, Command, Locations
<1>7. CASE ReadReady(c)
  BY <1>1, <1>2, <1>7, MailboxKept DEF ReadReady, Reads, Dispatched, Command, Locations
<1> QED
  BY <1>3, <1>4, <1>5, <1>6, <1>7
  DEF Read, ClientSends, ClientReads, PeerGone, PeerLost, SocketReports, RoomSends,
      ReadGatewayRequest, ReadPong

-----------------------------------------------------------------------------
\* Every step keeps the invariant.
LEMMA NextIInv == IInv /\ [Next]_vars => IInv'
<1> SUFFICES ASSUME IInv, [Next]_vars PROVE IInv'
  OBVIOUS
<1>0. TypeOK
  BY DEF IInv
<1>1. CASE UNCHANGED vars
  <2>1. TypeOK'
    BY <1>0, <1>1 DEF TypeOK, vars, client
  <2> QED
    BY <1>1, <2>1, MailboxKept DEF IInv, vars, DisconnectsAtTheEnd
<1>2. CASE Next
  BY <1>0, <1>2, ClientType, LoopType, RoomsType, LoopOrder, EnqueueOrder, TakeOrder
  DEF Next, IInv
<1> QED
  BY <1>1, <1>2

\* IInv holds in every reachable state.
THEOREM Invariant == Spec => []IInv
BY InitIInv, NextIInv, PTL DEF Spec

\* The variables of every session keep their types, and it waits for a mailbox
\* place in a room that has a task only (handle_socket).
THEOREM TypeCorrect == Spec => []TypeOK
<1>1. IInv => TypeOK
  BY DEF IInv
<1> QED
  BY <1>1, Invariant, PTL

\* No room hears of a connection after its Disconnect (handle_socket awaits each
\* dispatch, and the disconnect comes after the loop).
THEOREM DisconnectsAreLast == Spec => []NothingAfterDisconnect
<1>1. IInv => NothingAfterDisconnect
  <2> SUFFICES ASSUME IInv,
                      NEW r \in Rooms, NEW i \in 1 .. Len(mailbox[r]),
                      mailbox[r][i].kind = "Disconnect",
                      NEW j \in i + 1 .. Len(mailbox[r])
               PROVE  /\ pc[mailbox[r][i].conn] = "gone"
                      /\ mailbox[r][j].conn # mailbox[r][i].conn
    BY DEF NothingAfterDisconnect, IInv, DisconnectsAtTheEnd
  <2>1. Len(mailbox[r]) \in Nat
    BY DEF IInv, TypeOK
  <2>2. j \in 1 .. Len(mailbox[r]) /\ i < j
    BY <2>1
  <2> QED
    BY <2>2 DEF IInv, DisconnectsAtTheEnd, DisconnectsAreOrdered
<1> QED
  BY <1>1, Invariant, PTL
=============================================================================
