-------------------------- MODULE EventNumbersProofs --------------------------
(***************************************************************************)
(* Proofs about the numbered frames, for every number of rooms, users,     *)
(* connections, seats and event numbers: whatever the handlers send,       *)
(* numbers name events and come in order, and what a client can read from  *)
(* its channel is the room.  The second part is about the readings of      *)
(* whole channels, a recursive function: induction over it is done with    *)
(* sets of positions (UpTo).                                               *)
(***************************************************************************)
EXTENDS EventNumbers, RoomTaskProofs, SequenceTheorems, FiniteSetTheorems,
        WellFoundedInduction

\* Who counts.  The manager does not, and its frames have the number 0.
Sources == Rooms \cup {Gateway}

Uncounted(frame) == frame.from = Manager /\ frame.event_seq = 0 /\ frame.payload = "Answer"

\* The number that a source gives out next.
NextOf(f) == IF f = Gateway THEN next_gateway_seq ELSE next_event_seq[f]

LaterOf(f) == IF f = Gateway THEN next_gateway_seq' ELSE next_event_seq'[f]

\* The frames that every connection gets from a source that goes from number lo
\* to hi: what a handler sends, and what the parts of it are made of.
Batch(h, f, lo, hi) ==
    /\ h \in [Conns -> Seq(Frames)]
    /\ \A c \in Conns : \A i \in 1 .. Len(h[c]) :
          h[c][i].from = f /\ lo <= h[c][i].event_seq /\ h[c][i].event_seq < hi
    /\ \A c \in Conns : \A i, j \in 1 .. Len(h[c]) :
          i < j => h[c][i].event_seq <= h[c][j].event_seq
    /\ \A c, d \in Conns : \A i \in 1 .. Len(h[c]), j \in 1 .. Len(h[d]) :
          h[c][i].event_seq = h[d][j].event_seq
          => /\ h[c][i] = h[d][j]
             /\ h[c][i].payload = "Answer" => c = d /\ i = j

\* What has been sent has a number that its source gave out, or is not counted.
GivenOut ==
    /\ sent \in [Conns -> Seq(Frames)]
    /\ \A c \in Conns : \A i \in 1 .. Len(sent[c]) :
          \/ Uncounted(sent[c][i])
          \/ /\ sent[c][i].from \in Sources
             /\ 0 < sent[c][i].event_seq /\ sent[c][i].event_seq < NextOf(sent[c][i].from)

Counters == \A f \in Sources : NextOf(f) \in Nat /\ NextOf(f) > 0

Numbering == GivenOut /\ FramesInOrder /\ NumberNamesEvent

NumberedIInv ==
    /\ IInv
    /\ next_gateway_seq \in Nat
    /\ Counters
    /\ Numbering

-----------------------------------------------------------------------------
(* Batches.                                                                *)

\* A frame in a joined sequence comes from the one or the other.
LEMMA Joined ==
    ASSUME NEW s \in Seq(Frames), NEW t \in Seq(Frames), NEW i \in 1 .. Len(s \o t)
    PROVE  \/ i \in 1 .. Len(s) /\ (s \o t)[i] = s[i]
           \/ /\ i > Len(s) /\ i - Len(s) \in 1 .. Len(t)
              /\ (s \o t)[i] = t[i - Len(s)]
<1>1. /\ Len(s) \in Nat /\ Len(t) \in Nat
      /\ Len(s \o t) = Len(s) + Len(t)
      /\ \A k \in 1 .. Len(s) + Len(t) :
            (s \o t)[k] = IF k <= Len(s) THEN s[k] ELSE t[k - Len(s)]
  BY ConcatProperties
<1> QED
  BY <1>1

\* Frames have numbers.
LEMMA FrameNumber ==
    ASSUME NEW s \in Seq(Frames), NEW i \in 1 .. Len(s)
    PROVE  s[i] \in Frames /\ s[i].event_seq \in Nat /\ s[i].from \in Sources \cup {Manager}
<1>1. s[i] \in Frames
  OBVIOUS
<1> QED
  BY <1>1 DEF Frames, Sources

\* A batch after another one, which goes on with the numbers.
LEMMA ThenBatch ==
    ASSUME NEW a, NEW b, NEW f, NEW lo \in Nat, NEW mid \in Nat, NEW hi \in Nat,
           lo <= mid, mid <= hi, Batch(a, f, lo, mid), Batch(b, f, mid, hi)
    PROVE  Batch(Then(a, b), f, lo, hi)
<1> DEFINE h == Then(a, b)
<1>1. /\ a \in [Conns -> Seq(Frames)] /\ b \in [Conns -> Seq(Frames)]
      /\ h = [c \in Conns |-> a[c] \o b[c]]
  BY DEF Batch, Then
<1> DEFINE InA(c, i) == i \in 1 .. Len(a[c]) /\ h[c][i] = a[c][i]
           InB(c, i) == /\ i > Len(a[c]) /\ i - Len(a[c]) \in 1 .. Len(b[c])
                        /\ h[c][i] = b[c][i - Len(a[c])]
<1>2. h \in [Conns -> Seq(Frames)]
  BY <1>1, ConcatProperties
<1>3. ASSUME NEW c \in Conns, NEW i \in 1 .. Len(h[c])
      PROVE  /\ InA(c, i) \/ InB(c, i)
             /\ Len(a[c]) \in Nat /\ i \in Nat /\ h[c][i].event_seq \in Nat
  BY <1>1, <1>2, <1>3, Joined, FrameNumber
<1>4. ASSUME NEW c \in Conns, NEW i \in 1 .. Len(h[c]), InA(c, i)
      PROVE  h[c][i].from = f /\ lo <= h[c][i].event_seq /\ h[c][i].event_seq < mid
  BY <1>4 DEF Batch
<1>5. ASSUME NEW c \in Conns, NEW i \in 1 .. Len(h[c]), InB(c, i)
      PROVE  h[c][i].from = f /\ mid <= h[c][i].event_seq /\ h[c][i].event_seq < hi
  BY <1>5 DEF Batch
<1> HIDE DEF h, InA, InB
<1>6. ASSUME NEW c \in Conns, NEW i \in 1 .. Len(h[c])
      PROVE  h[c][i].from = f /\ lo <= h[c][i].event_seq /\ h[c][i].event_seq < hi
  BY <1>3, <1>4, <1>5
<1>7. ASSUME NEW c \in Conns, NEW i \in 1 .. Len(h[c]), NEW j \in 1 .. Len(h[c]), i < j
      PROVE  h[c][i].event_seq <= h[c][j].event_seq
  <2>0. h[c][i].event_seq \in Nat /\ h[c][j].event_seq \in Nat
    BY <1>3
  <2>1. CASE InA(c, i) /\ InA(c, j)
    BY <1>7, <2>1 DEF Batch, InA
  <2>2. CASE InB(c, i) /\ InB(c, j)
    <3>1. /\ i - Len(a[c]) \in 1 .. Len(b[c]) /\ j - Len(a[c]) \in 1 .. Len(b[c])
          /\ i - Len(a[c]) < j - Len(a[c])
      BY <1>3, <1>7, <2>2 DEF InB
    <3> QED
      BY <2>2, <3>1 DEF Batch, InB
  <2>3. CASE InA(c, i) /\ InB(c, j)
    BY <1>4, <1>5, <2>0, <2>3
  <2>4. ~(InB(c, i) /\ InA(c, j))
    BY <1>3, <1>7 DEF InA, InB
  <2> QED
    BY <1>3, <2>1, <2>2, <2>3, <2>4
<1>8. ASSUME NEW c \in Conns, NEW d \in Conns,
             NEW i \in 1 .. Len(h[c]), NEW j \in 1 .. Len(h[d]),
             h[c][i].event_seq = h[d][j].event_seq
      PROVE  h[c][i] = h[d][j] /\ (h[c][i].payload = "Answer" => c = d /\ i = j)
  <2>0. h[c][i].event_seq \in Nat /\ h[d][j].event_seq \in Nat
    BY <1>3
  <2>1. CASE InA(c, i) /\ InA(d, j)
    BY <1>8, <2>1 DEF Batch, InA
  <2>2. CASE InB(c, i) /\ InB(d, j)
    <3> DEFINE k == i - Len(a[c])
               l == j - Len(a[d])
    <3>1. /\ k \in 1 .. Len(b[c]) /\ l \in 1 .. Len(b[d])
          /\ h[c][i] = b[c][k] /\ h[d][j] = b[d][l]
      BY <2>2 DEF InB
    <3>2. c = d /\ k = l => i = j
      BY <1>3
    <3> HIDE DEF k, l
    <3> QED
      BY <1>8, <3>1, <3>2 DEF Batch
  <2>3. ~(InA(c, i) /\ InB(d, j))
    BY <1>4, <1>5, <1>8, <2>0
  <2>4. ~(InB(c, i) /\ InA(d, j))
    BY <1>4, <1>5, <1>8, <2>0
  <2> QED
    BY <1>3, <2>1, <2>2, <2>3, <2>4
<1> QED
  BY <1>2, <1>6, <1>7, <1>8 DEF Batch, h

\* An answer, or anything else for one connection.
LEMMA OneBatch ==
    ASSUME NEW c \in Conns, NEW frame \in Frames
    PROVE  Batch(ToOne(c, frame), frame.from, frame.event_seq, frame.event_seq + 1)
<1> DEFINE h == ToOne(c, frame)
           one == <<frame>>
           none == <<>>
<1>0. frame.event_seq \in Nat
  BY DEF Frames
<1>1. /\ one \in Seq(Frames) /\ Len(one) = 1 /\ one[1] = frame
      /\ none \in Seq(Frames) /\ Len(none) = 0
  OBVIOUS
<1>2. h = [d \in Conns |-> IF d = c THEN one ELSE none]
  BY DEF ToOne
<1> HIDE DEF h, one, none
<1>3. h \in [Conns -> Seq(Frames)]
  BY <1>1, <1>2
<1>4. ASSUME NEW d \in Conns, NEW i \in 1 .. Len(h[d])
      PROVE  d = c /\ i = 1 /\ h[d][i] = frame
  <2>0. Len(h[d]) = IF d = c THEN 1 ELSE 0
    BY <1>1, <1>2
  <2>1. d = c
    BY <2>0
  <2>2. h[d] = one
    BY <1>2, <2>1
  <2>3. i = 1
    BY <2>0, <2>1
  <2>4. h[d][i] = frame
    BY <1>1, <2>2, <2>3
  <2> QED
    BY <2>1, <2>3, <2>4
<1>5. Batch(h, frame.from, frame.event_seq, frame.event_seq + 1)
  BY <1>0, <1>3, <1>4 DEF Batch
<1> QED
  BY <1>5 DEF h

\* A broadcast.
LEMMA SeatsBatch ==
    ASSUME NEW players, NEW frame \in Frames, frame.payload # "Answer"
    PROVE  Batch(ToSeats(players, frame), frame.from, frame.event_seq, frame.event_seq + 1)
<1> DEFINE h == ToSeats(players, frame)
<1>0. frame.event_seq \in Nat
  BY DEF Frames
<1>1. ASSUME NEW c \in Conns PROVE Copies(players, c) \in Nat
  <2> DEFINE T == {s \in Seats : players[s].connected /\ players[s].outbound_tx = c}
  <2>1. IsFiniteSet(Seats)
    BY SeatCountAssumption, FS_Interval DEF Seats
  <2>2. IsFiniteSet(T)
    BY <2>1, FS_Subset
  <2> QED
    BY <2>2, FS_CardinalityType DEF Copies
<1>2. /\ h = [c \in Conns |-> [i \in 1 .. Copies(players, c) |-> frame]]
      /\ \A c \in Conns : /\ h[c] \in Seq(Frames)
                          /\ \A i \in 1 .. Len(h[c]) : h[c][i] = frame
  BY <1>1 DEF ToSeats
<1>3. h \in [Conns -> Seq(Frames)]
  BY <1>2
<1> HIDE DEF h
<1>4. ASSUME NEW c \in Conns, NEW i \in 1 .. Len(h[c]) PROVE h[c][i] = frame
  BY <1>2
<1>5. Batch(h, frame.from, frame.event_seq, frame.event_seq + 1)
  <2>1. \A c \in Conns : \A i, j \in 1 .. Len(h[c]) : h[c][i].event_seq <= h[c][j].event_seq
    BY <1>0, <1>4
  <2>2. \A c, d \in Conns : \A i \in 1 .. Len(h[c]), j \in 1 .. Len(h[d]) : h[c][i] = h[d][j]
    BY <1>4
  <2>3. \A c \in Conns : \A i \in 1 .. Len(h[c]) :
            /\ h[c][i].from = frame.from /\ frame.event_seq <= h[c][i].event_seq
            /\ h[c][i].event_seq < frame.event_seq + 1
    BY <1>0, <1>4
  <2> QED
    BY <1>3, <1>4, <2>1, <2>2, <2>3 DEF Batch
<1> QED
  BY <1>5 DEF h

-----------------------------------------------------------------------------
(* What a batch does to the histories.                                     *)

\* A batch of a source that goes on with its numbers keeps the numbering.
LEMMA SendsBatch ==
    ASSUME Numbering, Counters, NEW f \in Sources, NEW h,
           Batch(h, f, NextOf(f), NextOf(f)'), Sends(h),
           NextOf(f)' \in Nat, NextOf(f) <= NextOf(f)',
           \A g \in Sources \ {f} : NextOf(g)' = NextOf(g)
    PROVE  Numbering' /\ Counters'
<1> DEFINE now == sent'
           InOld(c, i) == i \in 1 .. Len(sent[c]) /\ now[c][i] = sent[c][i]
           InNew(c, i) == /\ i > Len(sent[c]) /\ i - Len(sent[c]) \in 1 .. Len(h[c])
                          /\ now[c][i] = h[c][i - Len(sent[c])]
<1>1. Counters'
  <2>1. \A g \in Sources : NextOf(g)' \in Nat /\ NextOf(g)' > 0
    BY DEF Counters
  <2> QED
    BY <2>1 DEF Counters, Sources
<1>2. /\ sent \in [Conns -> Seq(Frames)] /\ h \in [Conns -> Seq(Frames)]
      /\ now = [c \in Conns |-> sent[c] \o h[c]]
  BY DEF Numbering, GivenOut, Batch, Sends, Then
<1>3. now \in [Conns -> Seq(Frames)]
  BY <1>2, ConcatProperties
<1>4. ASSUME NEW c \in Conns, NEW i \in 1 .. Len(now[c])
      PROVE  /\ InOld(c, i) \/ InNew(c, i)
             /\ Len(sent[c]) \in Nat /\ i \in Nat
             /\ now[c][i].event_seq \in Nat
  BY <1>2, <1>3, <1>4, Joined, FrameNumber
<1>5. ASSUME NEW c \in Conns, NEW i \in 1 .. Len(now[c]), InOld(c, i)
      PROVE  \/ Uncounted(now[c][i])
             \/ /\ now[c][i].from \in Sources
                /\ 0 < now[c][i].event_seq /\ now[c][i].event_seq < NextOf(now[c][i].from)
  BY <1>5 DEF Numbering, GivenOut
<1>6. ASSUME NEW c \in Conns, NEW i \in 1 .. Len(now[c]), InNew(c, i)
      PROVE  /\ now[c][i].from = f
             /\ NextOf(f) <= now[c][i].event_seq /\ now[c][i].event_seq < NextOf(f)'
  BY <1>6 DEF Batch
<1> HIDE DEF now, InOld, InNew
<1>7. GivenOut'
  <2> SUFFICES ASSUME NEW c \in Conns, NEW i \in 1 .. Len(now[c])
               PROVE  \/ Uncounted(now[c][i])
                      \/ /\ now[c][i].from \in Sources
                         /\ 0 < now[c][i].event_seq
                         /\ now[c][i].event_seq < LaterOf(now[c][i].from)
    BY <1>3 DEF GivenOut, Uncounted, now, NextOf, LaterOf
  <2>0. NextOf(f) \in Nat /\ NextOf(f) > 0
    BY DEF Counters
  <2>1. CASE InOld(c, i) /\ now[c][i].from \in Sources /\ ~Uncounted(now[c][i])
    <3>1. LaterOf(now[c][i].from) >= NextOf(now[c][i].from)
      BY <2>0, <2>1 DEF LaterOf, NextOf, Counters
    <3> QED
      BY <1>4, <1>5, <2>1, <3>1 DEF LaterOf, NextOf, Counters
  <2>2. CASE InNew(c, i)
    BY <1>4, <1>6, <2>0, <2>2 DEF LaterOf, NextOf
  <2> QED
    BY <1>4, <1>5, <2>1, <2>2
<1>8. FramesInOrder'
  <2> SUFFICES ASSUME NEW c \in Conns, NEW i \in 1 .. Len(now[c]), NEW j \in 1 .. Len(now[c]),
                      i < j, now[c][i].from = now[c][j].from
               PROVE  now[c][i].event_seq <= now[c][j].event_seq
    BY DEF FramesInOrder, now
  <2>0. /\ NextOf(f) \in Nat
        /\ now[c][i].event_seq \in Nat /\ now[c][j].event_seq \in Nat
    BY <1>4 DEF Counters
  <2>1. CASE InOld(c, i) /\ InOld(c, j)
    BY <2>1 DEF Numbering, FramesInOrder, InOld
  <2>2. CASE InNew(c, i) /\ InNew(c, j)
    <3>1. /\ i - Len(sent[c]) \in 1 .. Len(h[c]) /\ j - Len(sent[c]) \in 1 .. Len(h[c])
          /\ i - Len(sent[c]) < j - Len(sent[c])
      BY <1>4, <2>2 DEF InNew
    <3> QED
      BY <2>2, <3>1 DEF Batch, InNew
  <2>3. CASE InOld(c, i) /\ InNew(c, j)
    <3>1. ~Uncounted(now[c][i])
      BY <1>6, <2>3, ManagerAssumption DEF Uncounted, Sources
    <3> QED
      BY <1>5, <1>6, <2>0, <2>3, <3>1
  <2>4. ~(InNew(c, i) /\ InOld(c, j))
    BY <1>4 DEF InOld, InNew
  <2> QED
    BY <1>4, <2>1, <2>2, <2>3, <2>4
<1>9. NumberNamesEvent'
  <2> SUFFICES ASSUME NEW c \in Conns, NEW d \in Conns,
                      NEW i \in 1 .. Len(now[c]), NEW j \in 1 .. Len(now[d]),
                      now[c][i].event_seq = now[d][j].event_seq
               PROVE  IF now[c][i].event_seq = 0
                      THEN now[c][i].payload = "Answer" /\ now[d][j].payload = "Answer"
                      ELSE now[c][i].from = now[d][j].from =>
                              /\ now[c][i] = now[d][j]
                              /\ now[c][i].payload = "Answer" => c = d /\ i = j
    BY DEF NumberNamesEvent, now
  <2>0. /\ NextOf(f) \in Nat /\ NextOf(f) > 0
        /\ now[c][i].event_seq \in Nat /\ now[d][j].event_seq \in Nat
    BY <1>4 DEF Counters
  <2>1. CASE InOld(c, i) /\ InOld(d, j)
    BY <2>1 DEF Numbering, NumberNamesEvent, InOld
  <2>2. CASE InNew(c, i) /\ InNew(d, j)
    <3> DEFINE k == i - Len(sent[c])
               l == j - Len(sent[d])
    <3>1. /\ k \in 1 .. Len(h[c]) /\ l \in 1 .. Len(h[d])
          /\ now[c][i] = h[c][k] /\ now[d][j] = h[d][l]
      BY <2>2 DEF InNew
    <3>2. c = d /\ k = l => i = j
      BY <1>4
    <3>3. now[c][i].event_seq # 0
      BY <1>6, <2>0, <2>2
    <3> HIDE DEF k, l
    <3> QED
      BY <3>1, <3>2, <3>3 DEF Batch
  <2>3. CASE InOld(c, i) /\ InNew(d, j)
    BY <1>5, <1>6, <2>0, <2>3 DEF Uncounted
  <2>4. CASE InNew(c, i) /\ InOld(d, j)
    BY <1>5, <1>6, <2>0, <2>4 DEF Uncounted
  <2> QED
    BY <1>4, <2>1, <2>2, <2>3, <2>4
<1> QED
  BY <1>1, <1>7, <1>8, <1>9 DEF Numbering

\* The same for a handler of room r that has allocated k numbers.
LEMMA RoomBatch ==
    ASSUME NumberedIInv, NEW r \in Rooms, NEW k \in Nat, NEW h,
           NumbersLeft(r, k), Allocate(r, k), UNCHANGED next_gateway_seq,
           Batch(h, r, next_event_seq[r], next_event_seq[r] + k), Sends(h)
    PROVE  Numbering' /\ Counters'
<1>1. /\ next_event_seq \in [Rooms -> Nat] /\ next_gateway_seq \in Nat
      /\ next_gateway_seq > 0
  BY DEF NumberedIInv, IInv, TypeOK, Counters, Sources, NextOf
<1>3. next_event_seq[r] + k <= MaxSeq
  BY DEF NumbersLeft
<1>4. next_event_seq' = [next_event_seq EXCEPT ![r] = next_event_seq[r] + k]
  <2>1. Counted(next_event_seq[r] + k) = next_event_seq[r] + k
    BY <1>1, <1>3, MaxSeqAssumption DEF Counted
  <2> QED
    BY <1>1, <2>1 DEF Allocate
<1>5. r # Gateway /\ r \in Sources
  BY GatewayAssumption DEF Sources
<1>6. /\ NextOf(r) = next_event_seq[r] /\ NextOf(r)' = next_event_seq[r] + k
      /\ NextOf(r)' \in Nat /\ NextOf(r) <= NextOf(r)'
  BY <1>1, <1>4, <1>5 DEF NextOf
<1>7. \A g \in Sources \ {r} : NextOf(g)' = NextOf(g)
  BY <1>1, <1>4 DEF Sources, NextOf
<1>8. Numbering /\ Counters
  BY DEF NumberedIInv
<1> QED
  BY <1>5, <1>6, <1>7, <1>8, SendsBatch

\* Answers are frames.
LEMMA AnswerBatch ==
    ASSUME NEW c \in Conns, NEW f \in Sources \cup {Manager}, NEW n \in Nat
    PROVE  Batch(AnswerTo(c, f, n), f, n, n + 1)
<1> DEFINE frame == Frame(f, n, "Answer", NoSeat, NoView)
<1>1. NoView \in Snapshots
  BY SnapshotType DEF NoView, NoPlayer, PlayerSlot
<1>2. frame \in Frames /\ frame.from = f /\ frame.event_seq = n
  BY <1>1 DEF Frame, Frames, Sources
<1> HIDE DEF frame
<1> QED
  BY <1>2, OneBatch DEF AnswerTo, frame

\* The frames that carry the table.
LEMMA TableFrames ==
    ASSUME TypeOK', NEW r \in Rooms, NEW n \in Nat
    PROVE  /\ SyncFrame(r, n) \in Frames
           /\ SyncFrame(r, n).from = r /\ SyncFrame(r, n).event_seq = n
           /\ SyncFrame(r, n).payload = "SyncState"
           /\ \A s \in Seats :
                 /\ ChangeFrame(r, s, n) \in Frames
                 /\ ChangeFrame(r, s, n).from = r /\ ChangeFrame(r, s, n).event_seq = n
                 /\ ChangeFrame(r, s, n).payload = "PlayerConnectionChanged"
<1>1. /\ players_by_seat'[r] \in [Seats -> PlayerSlot]
      /\ phase'[r] \in {"Unspecified", "Lobby", "Dealing"}
  BY DEF TypeOK
<1>2. Snapshot(players_by_seat'[r], phase'[r]) \in Snapshots
  BY <1>1, SnapshotType
<1>3. NoView \in Snapshots
  BY SnapshotType DEF NoView, NoPlayer, PlayerSlot
<1>4. ASSUME NEW s \in Seats PROVE Changed(NoView, players_by_seat'[r][s], s) \in Snapshots
  <2> DEFINE player == players_by_seat'[r][s]
  <2>1. player \in PlayerSlot
    BY <1>1
  <2> HIDE DEF player
  <2>2. Changed(NoView, player, s) \in Snapshots
    BY <1>3, <2>1 DEF Changed, Snapshots, PlayerSlot, PlayerState
  <2> QED
    BY <2>2 DEF player
<1>5. /\ SyncFrame(r, n) \in Frames
      /\ SyncFrame(r, n).from = r /\ SyncFrame(r, n).event_seq = n
      /\ SyncFrame(r, n).payload = "SyncState"
  BY <1>2 DEF SyncFrame, Frame, Frames
<1>6. ASSUME NEW s \in Seats
      PROVE  /\ ChangeFrame(r, s, n) \in Frames
             /\ ChangeFrame(r, s, n).from = r /\ ChangeFrame(r, s, n).event_seq = n
             /\ ChangeFrame(r, s, n).payload = "PlayerConnectionChanged"
  BY <1>4 DEF ChangeFrame, Frame, Frames
<1> QED
  BY <1>5, <1>6

\* The two broadcasts, and the snapshot for one connection.
LEMMA TableBatches ==
    ASSUME TypeOK', NEW r \in Rooms, NEW n \in Nat
    PROVE  /\ Batch(BroadcastSync(r, n), r, n, n + 1)
           /\ \A s \in Seats : Batch(BroadcastChange(r, s, n), r, n, n + 1)
           /\ \A c \in Conns : Batch(ToOne(c, SyncFrame(r, n)), r, n, n + 1)
BY TableFrames, SeatsBatch, OneBatch DEF BroadcastSync, BroadcastChange

-----------------------------------------------------------------------------
(* The handlers.                                                           *)

\* With their frames, the handlers are still those of RoomTask.
LEMMA RoomStepIsNext ==
    ASSUME NEW r \in Rooms, RoomStep(r)
    PROVE  Next
BY DEF RoomStep, VerdictSent, SeatUpdated, RequestRejected, Silent, DisconnectHandled,
       JoinRefused, ResumeRefused, ResumeAccepted, JoinAccepted, Next, HandleReady,
       HandlePlayerAction, HandleDisconnect, HandleJoin, HandleResume

\* A handler that sends nothing.
LEMMA QuietNumbering ==
    ASSUME NumberedIInv, UNCHANGED sent, UNCHANGED next_event_seq,
           UNCHANGED next_gateway_seq
    PROVE  Numbering' /\ Counters'
<1>1. Counters'
  BY DEF NumberedIInv, Counters, NextOf
<1>2. GivenOut'
  BY DEF NumberedIInv, Numbering, GivenOut, NextOf
<1>3. FramesInOrder' /\ NumberNamesEvent'
  BY DEF NumberedIInv, Numbering, FramesInOrder, NumberNamesEvent
<1> QED
  BY <1>1, <1>2, <1>3 DEF Numbering

\* A handler that rejects a request tells the connection that is routed, or nobody.
LEMMA RejectedNumbering ==
    ASSUME NumberedIInv, NEW r \in Rooms, NEW c \in Conns,
           RejectSent(r, c), Rejected(r, c), UNCHANGED next_gateway_seq
    PROVE  Numbering' /\ Counters'
<1> DEFINE tx == players_by_seat[r][SeatForConnection(r, c)].outbound_tx
<1>1. CASE Routed(r, c) /\ tx # None
  <2>1. tx = c
    BY <1>1, RouteSeat DEF NumberedIInv
  <2>2. /\ Allocate(r, 1) /\ NumbersLeft(r, 1)
        /\ Sends(AnswerTo(c, r, next_event_seq[r]))
    BY <1>1, <2>1 DEF RejectSent, Rejected
  <2>3. next_event_seq[r] \in Nat /\ r \in Sources
    BY DEF NumberedIInv, IInv, TypeOK, Sources
  <2> QED
    BY <2>2, <2>3, AnswerBatch, RoomBatch
<1>2. CASE ~(Routed(r, c) /\ tx # None)
  <2>1. UNCHANGED sent /\ UNCHANGED next_event_seq
    BY <1>2 DEF RejectSent, Rejected
  <2> QED
    BY <2>1, QuietNumbering
<1> QED
  BY <1>1, <1>2

\* Handlers that answer the connection with one frame.
LEMMA AnswerNumbering ==
    ASSUME NumberedIInv, NEW r \in Rooms, NEW c \in Conns,
           NumbersLeft(r, 1), Allocate(r, 1), UNCHANGED next_gateway_seq,
           Sends(AnswerTo(c, r, next_event_seq[r]))
    PROVE  Numbering' /\ Counters'
<1>1. next_event_seq[r] \in Nat /\ r \in Sources
  BY DEF NumberedIInv, IInv, TypeOK, Sources
<1> QED
  BY <1>1, AnswerBatch, RoomBatch

\* The answer, the snapshot and the change of a join.
LEMMA JoinNumbering ==
    ASSUME NumberedIInv, TypeOK', NEW r \in Rooms, NEW c \in Conns, NEW u \in Users,
           NEW s \in Seats, JoinAccepted(r, c, u, s), UNCHANGED next_gateway_seq
    PROVE  Numbering' /\ Counters'
<1> DEFINE n == next_event_seq[r]
           answer == AnswerTo(c, r, n)
           sync == BroadcastSync(r, n + 1)
           change == BroadcastChange(r, s, n + 2)
<1>1. n \in Nat /\ n + 1 \in Nat /\ n + 2 \in Nat /\ n + 3 \in Nat /\ r \in Sources
  BY DEF NumberedIInv, IInv, TypeOK, Sources
<1>2. /\ NumbersLeft(r, 3) /\ Allocate(r, 3)
      /\ Sends(Then(answer, Then(sync, change)))
  BY DEF JoinAccepted, JoinSeated
<1>3. Batch(answer, r, n, n + 1)
  BY <1>1, AnswerBatch
<1>4. Batch(sync, r, n + 1, n + 2)
  <2>1. Batch(sync, r, n + 1, (n + 1) + 1)
    BY <1>1, TableBatches
  <2>2. (n + 1) + 1 = n + 2
    BY <1>1
  <2> QED
    BY <2>1, <2>2
<1>5. Batch(change, r, n + 2, n + 3)
  <2>1. Batch(change, r, n + 2, (n + 2) + 1)
    BY <1>1, TableBatches
  <2>2. (n + 2) + 1 = n + 3
    BY <1>1
  <2> QED
    BY <2>1, <2>2
<1>6. n <= n + 1 /\ n + 1 <= n + 2 /\ n + 2 <= n + 3 /\ n + 1 <= n + 3
  BY <1>1
<1> HIDE DEF n, answer, sync, change
<1>7. Batch(Then(sync, change), r, n + 1, n + 3)
  BY <1>1, <1>4, <1>5, <1>6, ThenBatch
<1>8. Batch(Then(answer, Then(sync, change)), r, n, n + 3)
  BY <1>1, <1>3, <1>6, <1>7, ThenBatch
<1> QED
  BY <1>2, <1>8, RoomBatch DEF n

\* Two frames, the second one the change of a seat.
LEMMA ChangeNumbering ==
    ASSUME NumberedIInv, TypeOK', NEW r \in Rooms, NEW s \in Seats, NEW first,
           NumbersLeft(r, 2), Allocate(r, 2), UNCHANGED next_gateway_seq,
           Batch(first, r, next_event_seq[r], next_event_seq[r] + 1),
           Sends(Then(first, BroadcastChange(r, s, next_event_seq[r] + 1)))
    PROVE  Numbering' /\ Counters'
<1> DEFINE n == next_event_seq[r]
           change == BroadcastChange(r, s, n + 1)
<1>1. /\ n \in Nat /\ n + 1 \in Nat /\ n + 2 \in Nat /\ (n + 1) + 1 = n + 2
      /\ n <= n + 1 /\ n + 1 <= n + 2
  BY DEF NumberedIInv, IInv, TypeOK
<1>2. Batch(change, r, n + 1, (n + 1) + 1)
  BY <1>1, TableBatches
<1>3. Batch(change, r, n + 1, n + 2)
  BY <1>1, <1>2
<1>4. Batch(first, r, n, n + 1) /\ Sends(Then(first, change))
  OBVIOUS
<1> HIDE DEF n, change
<1>5. Batch(Then(first, change), r, n, n + 2)
  BY <1>1, <1>3, <1>4, ThenBatch
<1> QED
  BY <1>4, <1>5, RoomBatch DEF n

\* Every handler of a room.
LEMMA RoomNumbering ==
    ASSUME NumberedIInv, TypeOK', NEW r \in Rooms, RoomStep(r), UNCHANGED next_gateway_seq
    PROVE  Numbering' /\ Counters'
<1>0. next_event_seq[r] \in Nat
  BY DEF NumberedIInv, IInv, TypeOK
<1>1. CASE VerdictSent(r)
  <2>1. awaiting[r] \in Conns
    BY <1>1 DEF VerdictSent, ActionVerdict, Idle, NumberedIInv, IInv, TypeOK
  <2>2. RejectSent(r, awaiting[r]) /\ Rejected(r, awaiting[r])
    BY <1>1 DEF VerdictSent, ActionVerdict
  <2> QED
    BY <2>1, <2>2, RejectedNumbering
<1>2. ASSUME NEW c \in Conns, SeatUpdated(r, c) PROVE Numbering' /\ Counters'
  <2>1. /\ NumbersLeft(r, 1) /\ Allocate(r, 1)
        /\ Sends(BroadcastSync(r, next_event_seq[r]))
    BY <1>2 DEF SeatUpdated, Ready, AutoPlayToggle
  <2>2. Batch(BroadcastSync(r, next_event_seq[r]), r, next_event_seq[r], next_event_seq[r] + 1)
    BY <1>0, TableBatches
  <2> QED
    BY <2>1, <2>2, RoomBatch
<1>3. ASSUME NEW c \in Conns, RequestRejected(r, c) PROVE Numbering' /\ Counters'
  BY <1>3, RejectedNumbering DEF RequestRejected, ReadyUnregistered, ActionUnregistered, ActionRefused
<1>4. ASSUME NEW c \in Conns, Silent(r, c) PROVE Numbering' /\ Counters'
  BY <1>4, QuietNumbering DEF Silent, ActionSubmitted, DisconnectUnregistered, vars
<1>5. ASSUME NEW c \in Conns, DisconnectHandled(r, c) PROVE Numbering' /\ Counters'
  <2> DEFINE s == SeatForConnection(r, c)
             first == BroadcastSync(r, next_event_seq[r])
  <2>1. /\ NumbersLeft(r, 2) /\ Allocate(r, 2) /\ Routed(r, c)
        /\ Sends(Then(first, BroadcastChange(r, s, next_event_seq[r] + 1)))
    BY <1>5 DEF DisconnectHandled, Disconnect
  <2>2. s \in Seats
    BY <2>1, RouteSeat DEF NumberedIInv
  <2>3. Batch(first, r, next_event_seq[r], next_event_seq[r] + 1)
    BY <1>0, TableBatches
  <2> HIDE DEF s, first
  <2> QED
    BY <2>1, <2>2, <2>3, ChangeNumbering
<1>6. ASSUME NEW c \in Conns, NEW u \in Users, JoinRefused(r, c, u) \/ ResumeRefused(r, c, u)
      PROVE  Numbering' /\ Counters'
  <2>1. /\ NumbersLeft(r, 1) /\ Allocate(r, 1)
        /\ Sends(AnswerTo(c, r, next_event_seq[r]))
    BY <1>6 DEF JoinRefused, ResumeRefused, JoinAlreadyJoined, JoinRoomFull,
                ResumeUnknownUser, ResumeBadToken, OnlyAnswer
  <2> QED
    BY <2>1, AnswerNumbering
<1>7. ASSUME NEW c \in Conns, NEW u \in Users, ResumeAccepted(r, c, u)
      PROVE  Numbering' /\ Counters'
  <2> DEFINE s == user_to_seat[r][u]
             first == ToOne(c, SyncFrame(r, next_event_seq[r]))
  <2>1. /\ NumbersLeft(r, 2) /\ Allocate(r, 2) /\ s # NoSeat
        /\ Sends(Then(first, BroadcastChange(r, s, next_event_seq[r] + 1)))
    BY <1>7 DEF ResumeAccepted, Resume
  <2>2. s \in Seats
    BY <2>1 DEF NumberedIInv, IInv, TypeOK
  <2>3. Batch(first, r, next_event_seq[r], next_event_seq[r] + 1)
    BY <1>0, <1>7, TableBatches
  <2> HIDE DEF s, first
  <2> QED
    BY <2>1, <2>2, <2>3, ChangeNumbering
<1>8. ASSUME NEW c \in Conns, NEW u \in Users, NEW s \in Seats, JoinAccepted(r, c, u, s)
      PROVE  Numbering' /\ Counters'
  BY <1>8, JoinNumbering
<1> QED
  BY <1>1, <1>2, <1>3, <1>4, <1>5, <1>6, <1>7, <1>8 DEF RoomStep

\* The gateway numbers its answers itself.
LEMMA GatewayNumbering ==
    ASSUME NumberedIInv, NEW c \in Conns, GatewayAnswers(c)
    PROVE  Numbering' /\ Counters'
<1>1. /\ Gateway \in Sources
      /\ next_gateway_seq \in Nat /\ next_gateway_seq' = next_gateway_seq + 1
      /\ UNCHANGED next_event_seq
      /\ Sends(AnswerTo(c, Gateway, next_gateway_seq))
  BY DEF NumberedIInv, GatewayAnswers, Sources, vars
<1>2. /\ NextOf(Gateway) = next_gateway_seq /\ NextOf(Gateway)' = next_gateway_seq + 1
      /\ NextOf(Gateway)' \in Nat /\ NextOf(Gateway) <= NextOf(Gateway)'
      /\ \A g \in Sources \ {Gateway} : NextOf(g)' = NextOf(g)
  BY <1>1 DEF NextOf
<1>3. Batch(AnswerTo(c, Gateway, next_gateway_seq), Gateway, NextOf(Gateway), NextOf(Gateway)')
  BY <1>1, <1>2, AnswerBatch
<1> QED
  BY <1>1, <1>2, <1>3, SendsBatch DEF NumberedIInv

\* The manager adds an answer with the number 0, after whatever was sent.
LEMMA ManagerNumbering ==
    ASSUME NumberedIInv, NEW c \in Conns, ManagerRejects(c)
    PROVE  Numbering' /\ Counters'
<1> DEFINE now == sent'
           h == AnswerTo(c, Manager, 0)
           InOld(d, i) == i \in 1 .. Len(sent[d]) /\ now[d][i] = sent[d][i]
<1>1. Batch(h, Manager, 0, 1)
  BY AnswerBatch
<1>2. \A d \in Conns : \A i \in 1 .. Len(h[d]) : Uncounted(h[d][i])
  BY DEF AnswerTo, ToOne, Frame, Uncounted
<1>3. /\ sent \in [Conns -> Seq(Frames)] /\ h \in [Conns -> Seq(Frames)]
      /\ now = [d \in Conns |-> sent[d] \o h[d]]
      /\ UNCHANGED next_event_seq /\ UNCHANGED next_gateway_seq
  BY <1>1 DEF NumberedIInv, Numbering, GivenOut, Batch, ManagerRejects, Sends, Then, vars
<1> HIDE DEF h
<1>4. now \in [Conns -> Seq(Frames)]
  BY <1>3, ConcatProperties
<1>5. ASSUME NEW d \in Conns, NEW i \in 1 .. Len(now[d])
      PROVE  /\ InOld(d, i) \/ (Uncounted(now[d][i]) /\ i > Len(sent[d]))
             /\ Len(sent[d]) \in Nat /\ i \in Nat /\ now[d][i].event_seq \in Nat
  BY <1>2, <1>3, <1>4, <1>5, Joined, FrameNumber
<1>6. ASSUME NEW d \in Conns, NEW i \in 1 .. Len(now[d])
      PROVE  \/ Uncounted(now[d][i])
             \/ /\ now[d][i].from \in Sources
                /\ 0 < now[d][i].event_seq /\ now[d][i].event_seq < NextOf(now[d][i].from)
  BY <1>5 DEF NumberedIInv, Numbering, GivenOut
<1> HIDE DEF now
<1>7. Counters'
  BY <1>3 DEF NumberedIInv, Counters, NextOf
<1>8. GivenOut'
  BY <1>3, <1>4, <1>6 DEF GivenOut, Uncounted, NextOf, now
<1>9. FramesInOrder'
  <2> SUFFICES ASSUME NEW d \in Conns, NEW i \in 1 .. Len(now[d]), NEW j \in 1 .. Len(now[d]),
                      i < j, now[d][i].from = now[d][j].from
               PROVE  now[d][i].event_seq <= now[d][j].event_seq
    BY DEF FramesInOrder, now
  <2>1. CASE InOld(d, i) /\ InOld(d, j)
    BY <2>1 DEF NumberedIInv, Numbering, FramesInOrder
  <2>2. CASE Uncounted(now[d][i])
    BY <1>5, <2>2 DEF Uncounted
  <2>3. CASE InOld(d, i) /\ ~Uncounted(now[d][i]) /\ Uncounted(now[d][j])
    BY <1>6, <2>3, ManagerAssumption DEF Uncounted, Sources
  <2>4. CASE i > Len(sent[d]) /\ InOld(d, j)
    BY <1>5, <2>4
  <2> QED
    BY <1>5, <2>1, <2>2, <2>3, <2>4
<1>10. NumberNamesEvent'
  <2> SUFFICES ASSUME NEW d \in Conns, NEW e \in Conns,
                      NEW i \in 1 .. Len(now[d]), NEW j \in 1 .. Len(now[e]),
                      now[d][i].event_seq = now[e][j].event_seq
               PROVE  IF now[d][i].event_seq = 0
                      THEN now[d][i].payload = "Answer" /\ now[e][j].payload = "Answer"
                      ELSE now[d][i].from = now[e][j].from =>
                              /\ now[d][i] = now[e][j]
                              /\ now[d][i].payload = "Answer" => d = e /\ i = j
    BY DEF NumberNamesEvent, now
  <2>1. CASE now[d][i].event_seq = 0
    <3>1. Uncounted(now[d][i])
      BY <1>6, <2>1
    <3>2. Uncounted(now[e][j])
      <4>1. now[e][j].event_seq = 0
        BY <2>1
      <4>2. Uncounted(now[e][j]) \/ 0 < now[e][j].event_seq
        BY <1>6
      <4> QED
        BY <4>1, <4>2
    <3> QED
      BY <2>1, <3>1, <3>2 DEF Uncounted
  <2>2. CASE now[d][i].event_seq # 0
    <3>1. InOld(d, i) /\ InOld(e, j)
      BY <1>5, <2>2 DEF Uncounted
    <3> QED
      BY <2>2, <3>1 DEF NumberedIInv, Numbering, NumberNamesEvent
  <2> QED
    BY <2>1, <2>2
<1> QED
  BY <1>7, <1>8, <1>9, <1>10 DEF Numbering

-----------------------------------------------------------------------------
\* Nothing has been sent yet.
LEMMA NumberedInitIInv == NumberedInit => NumberedIInv
<1> SUFFICES ASSUME NumberedInit PROVE NumberedIInv
  OBVIOUS
<1> DEFINE none == <<>>
<1>1. none \in Seq(Frames) /\ Len(none) = 0
  OBVIOUS
<1>2. sent = [c \in Conns |-> none]
  BY DEF NumberedInit
<1> HIDE DEF none
<1>3. /\ sent \in [Conns -> Seq(Frames)]
      /\ \A c \in Conns : 1 .. Len(sent[c]) = {}
  BY <1>1, <1>2
<1>4. Numbering
  BY <1>3 DEF Numbering, GivenOut, FramesInOrder, NumberNamesEvent
<1>5. IInv /\ next_gateway_seq \in Nat
  BY InitIInv DEF NumberedInit
<1>6. Counters
  BY DEF NumberedInit, Init, Counters, Sources, NextOf
<1> QED
  BY <1>4, <1>5, <1>6 DEF NumberedIInv

\* Every step keeps the numbering.
LEMMA NumberedNextIInv == NumberedIInv /\ [NumberedNext]_numbered => NumberedIInv'
<1> SUFFICES ASSUME NumberedIInv, [NumberedNext]_numbered PROVE NumberedIInv'
  OBVIOUS
<1>0. IInv
  BY DEF NumberedIInv, IInv
<1>1. ASSUME NEW r \in Rooms, RoomStep(r), UNCHANGED next_gateway_seq PROVE NumberedIInv'
  <2>1. IInv'
    BY <1>0, <1>1, RoomStepIsNext, NextIInv
  <2>2. TypeOK'
    BY <2>1 DEF IInv
  <2>3. Numbering' /\ Counters'
    BY <1>1, <2>2, RoomNumbering
  <2> QED
    BY <1>1, <2>1, <2>3 DEF NumberedIInv
<1>2. ASSUME NEW c \in Conns, GatewayAnswers(c) PROVE NumberedIInv'
  <2>1. IInv'
    BY <1>0, <1>2, StutterIInv DEF GatewayAnswers
  <2>2. next_gateway_seq' \in Nat
    BY <1>2 DEF GatewayAnswers, NumberedIInv
  <2> QED
    BY <1>2, <2>1, <2>2, GatewayNumbering DEF NumberedIInv
<1>4. ASSUME NEW c \in Conns, ManagerRejects(c) PROVE NumberedIInv'
  <2>1. IInv'
    BY <1>0, <1>4, StutterIInv DEF ManagerRejects
  <2>2. next_gateway_seq' \in Nat
    BY <1>4 DEF ManagerRejects, NumberedIInv
  <2> QED
    BY <1>4, <2>1, <2>2, ManagerNumbering DEF NumberedIInv
<1>3. CASE UNCHANGED numbered
  <2>1. /\ UNCHANGED vars /\ UNCHANGED sent
        /\ UNCHANGED next_event_seq /\ UNCHANGED next_gateway_seq
    BY <1>3 DEF numbered, vars
  <2>2. IInv'
    BY <1>0, <2>1, StutterIInv
  <2>3. Numbering' /\ Counters'
    BY <2>1, QuietNumbering
  <2> QED
    BY <2>1, <2>2, <2>3 DEF NumberedIInv
<1> QED
  BY <1>1, <1>2, <1>3, <1>4 DEF NumberedNext

\* NumberedIInv holds in every reachable state.
THEOREM NumberedInvariant == NumberedSpec => []NumberedIInv
BY NumberedInitIInv, NumberedNextIInv, PTL DEF NumberedSpec

\* Channels hold frames whose numbers their sources have given out
\* (allocate_event_seq, AppState::next_event_seq), or the manager's with its constant.
THEOREM NumberedTypeCorrect == NumberedSpec => []NumberedTypeOK
<1>1. NumberedIInv => NumberedTypeOK
  <2> SUFFICES ASSUME NumberedIInv PROVE NumberedTypeOK
    OBVIOUS
  <2>1. /\ TypeOK /\ sent \in [Conns -> Seq(Frames)] /\ next_gateway_seq \in Nat
    BY DEF NumberedIInv, IInv, Numbering, GivenOut
  <2>2. ASSUME NEW c \in Conns, NEW i \in 1 .. Len(sent[c])
        PROVE  LET frame == sent[c][i]
               IN  /\ frame.event_seq = 0 <=> frame.from = Manager
                   /\ frame.from \in Rooms => frame.event_seq < next_event_seq[frame.from]
                   /\ frame.from = Gateway => frame.event_seq < next_gateway_seq
    <3>1. \/ Uncounted(sent[c][i])
          \/ /\ sent[c][i].from \in Sources
             /\ 0 < sent[c][i].event_seq
             /\ sent[c][i].event_seq < NextOf(sent[c][i].from)
      BY DEF NumberedIInv, Numbering, GivenOut
    <3>2. sent[c][i].event_seq \in Nat
      BY <2>1, FrameNumber
    <3> QED
      BY <3>1, <3>2, GatewayAssumption, ManagerAssumption DEF NextOf, Sources, Uncounted
  <2> QED
    BY <2>1, <2>2 DEF NumberedTypeOK
<1> QED
  BY <1>1, NumberedInvariant, PTL

\* On no channel do the numbers of one source go back: the handlers number their
\* frames in the order in which they send them.
THEOREM OrderCorrect == NumberedSpec => []FramesInOrder
<1>1. NumberedIInv => FramesInOrder
  BY DEF NumberedIInv, Numbering
<1> QED
  BY <1>1, NumberedInvariant, PTL

\* A source and a number above 0 name one event, whatever connections it is sent to;
\* the number 0, which the manager gives to all it rejects, is on answers only.
THEOREM NumbersAreEvents == NumberedSpec => []NumberNamesEvent
<1>1. NumberedIInv => NumberNamesEvent
  BY DEF NumberedIInv, Numbering
<1> QED
  BY <1>1, NumberedInvariant, PTL

-----------------------------------------------------------------------------
(* Reading a channel, frame by frame.                                      *)

\* A set of natural numbers that is not empty has a least element.
LEMMA LeastNumber ==
    ASSUME NEW T, T \subseteq Nat, T # {}
    PROVE  \E k \in T : \A i \in T : k <= i
<1> DEFINE R == OpToRel(<, Nat)
<1>1. PICK k \in T : \A i \in T : ~(<<i, k>> \in R)
  BY NatLessThanWellFounded, WFMin
<1>2. \A i \in T : i < k => <<i, k>> \in R
  BY Zenon DEF OpToRel
<1>3. \A i \in T : ~(i < k)
  BY <1>1, <1>2
<1> QED
  BY <1>3

\* Induction up to a number, over a set in place of a predicate.
LEMMA UpTo ==
    ASSUME NEW n \in Nat, NEW T, 0 \in T,
           \A i \in 0 .. n : i < n /\ i \in T => i + 1 \in T
    PROVE  \A i \in 0 .. n : i \in T
<1> DEFINE Missed == {i \in 0 .. n : i \notin T}
<1> SUFFICES ASSUME Missed # {} PROVE FALSE
  OBVIOUS
<1>1. PICK k \in Missed : \A i \in Missed : k <= i
  <2>1. Missed \subseteq Nat
    OBVIOUS
  <2> HIDE DEF Missed
  <2> QED
    BY <2>1, LeastNumber
<1>2. k # 0 /\ k - 1 \in 0 .. n /\ k - 1 < n
  OBVIOUS
<1>3. k - 1 \in T
  BY <1>1, <1>2
<1> QED
  BY <1>2, <1>3

\* What one more frame makes of a view.
Read(v, frames, i, r, n) ==
    IF frames[i].from = r /\ frames[i].event_seq <= n THEN Apply(v, frames[i]) ELSE v

\* The readings of a channel are well defined.
LEMMA ReadingsDef ==
    ASSUME NEW frames, Len(frames) \in Nat, NEW r, NEW n
    PROVE  Readings(frames, r, n) =
             [i \in 0 .. Len(frames) |->
                IF i = 0 THEN NoView
                ELSE Read(Readings(frames, r, n)[i - 1], frames, i, r, n)]
<1> DEFINE size == Len(frames)
           S(v, i) == Read(v, frames, i, r, n)
           First(k) == \E g : g = [i \in 0 .. k |-> IF i = 0 THEN NoView ELSE S(g[i - 1], i)]
           T == {k \in 0 .. size : First(k)}
<1>1. Readings(frames, r, n)
        = CHOOSE g : g = [i \in 0 .. size |-> IF i = 0 THEN NoView ELSE S(g[i - 1], i)]
  BY Zenon DEF Readings, Read
<1> HIDE DEF S
<1>2. First(0)
  <2> DEFINE g == [i \in 0 .. 0 |-> NoView]
  <2>1. g = [i \in 0 .. 0 |-> IF i = 0 THEN NoView ELSE S(g[i - 1], i)]
    OBVIOUS
  <2> HIDE DEF g
  <2> QED
    BY <2>1
<1>3. ASSUME NEW k \in 0 .. size, k < size, First(k)
      PROVE  First(k + 1)
  <2>1. PICK g : g = [i \in 0 .. k |-> IF i = 0 THEN NoView ELSE S(g[i - 1], i)]
    BY <1>3
  <2> DEFINE h == [i \in 0 .. k + 1 |-> IF i <= k THEN g[i] ELSE S(g[k], i)]
  <2>2. ASSUME NEW i \in 0 .. k + 1
        PROVE  h[i] = IF i = 0 THEN NoView ELSE S(h[i - 1], i)
    <3>1. CASE i = 0
      BY <2>1, <3>1
    <3>2. CASE i # 0 /\ i <= k
      <4>1. g[i] = S(g[i - 1], i)
        BY <2>1, <3>2
      <4>2. h[i] = g[i] /\ h[i - 1] = g[i - 1]
        BY <3>2
      <4> QED
        BY <3>2, <4>1, <4>2
    <3>3. CASE i = k + 1
      <4>1. h[i] = S(g[k], i) /\ h[i - 1] = g[k] /\ i # 0
        BY <3>3
      <4> QED
        BY <4>1
    <3> QED
      BY <3>1, <3>2, <3>3
  <2>3. h = [i \in 0 .. k + 1 |-> h[i]]
    OBVIOUS
  <2> HIDE DEF h
  <2>4. h = [i \in 0 .. k + 1 |-> IF i = 0 THEN NoView ELSE S(h[i - 1], i)]
    BY <2>2, <2>3
  <2> QED
    BY <2>4
<1> HIDE DEF First
<1>4. First(size)
  <2>1. 0 \in T /\ \A i \in 0 .. size : i < size /\ i \in T => i + 1 \in T
    BY <1>2, <1>3
  <2>2. \A i \in 0 .. size : i \in T
    <3> HIDE DEF T
    <3> QED
      BY <2>1, UpTo
  <2> QED
    BY <2>2
<1> QED
  BY <1>1, <1>4, Zenon DEF First, S

\* Frames after the others do not change what was read before.
LEMMA ReadBefore ==
    ASSUME NEW s \in Seq(Frames), NEW t \in Seq(Frames), NEW r, NEW n
    PROVE  \A i \in 0 .. Len(s) : Readings(s \o t, r, n)[i] = Readings(s, r, n)[i]
<1> DEFINE u == s \o t
           all == Readings(u, r, n)
           old == Readings(s, r, n)
           T == {i \in 0 .. Len(s) : all[i] = old[i]}
<1>1. /\ Len(s) \in Nat /\ Len(u) \in Nat /\ Len(s) <= Len(u)
      /\ \A i \in 1 .. Len(s) : u[i] = s[i]
  BY ConcatProperties
<1> HIDE DEF u
<1>2. /\ \A i \in 0 .. Len(u) : all[i] = IF i = 0 THEN NoView ELSE Read(all[i - 1], u, i, r, n)
      /\ \A i \in 0 .. Len(s) : old[i] = IF i = 0 THEN NoView ELSE Read(old[i - 1], s, i, r, n)
  BY <1>1, ReadingsDef
<1> HIDE DEF all, old
<1>3. 0 \in T
  BY <1>1, <1>2
<1>4. ASSUME NEW i \in 0 .. Len(s), i < Len(s), i \in T
      PROVE  i + 1 \in T
  <2>1. /\ i + 1 \in 1 .. Len(s) /\ i + 1 \in 0 .. Len(s) /\ i + 1 \in 0 .. Len(u)
        /\ i + 1 # 0 /\ (i + 1) - 1 = i
    BY <1>1, <1>4
  <2>2. all[i + 1] = Read(all[i], u, i + 1, r, n) /\ old[i + 1] = Read(old[i], s, i + 1, r, n)
    BY <1>2, <2>1
  <2>3. Read(all[i], u, i + 1, r, n) = Read(old[i], s, i + 1, r, n)
    BY <1>1, <1>4, <2>1 DEF Read
  <2> QED
    BY <2>1, <2>2, <2>3
<1> HIDE DEF T
<1>5. \A i \in 0 .. Len(s) : i \in T
  BY <1>1, <1>3, <1>4, UpTo
<1> QED
  BY <1>5 DEF T, all, old, u

\* What a channel says in the end.
EndOf(frames, r, n) == Readings(frames, r, n)[Len(frames)]

\* What the frames of t make of it, one after the other.
LEMMA ReadAfter ==
    ASSUME NEW s \in Seq(Frames), NEW t \in Seq(Frames), NEW r, NEW n
    PROVE  \E g \in [0 .. Len(t) -> {Readings(s \o t, r, n)[i] : i \in 0 .. Len(s \o t)}] :
              /\ g[0] = EndOf(s, r, n)
              /\ g[Len(t)] = EndOf(s \o t, r, n)
              /\ \A p \in 1 .. Len(t) : g[p] = Read(g[p - 1], t, p, r, n)
<1> DEFINE u == s \o t
           all == Readings(u, r, n)
           g == [p \in 0 .. Len(t) |-> all[Len(s) + p]]
<1>1. /\ Len(s) \in Nat /\ Len(t) \in Nat /\ Len(u) = Len(s) + Len(t)
      /\ \A p \in 1 .. Len(t) : u[Len(s) + p] = t[p]
  BY ConcatProperties
<1>2. all[Len(s)] = EndOf(s, r, n)
  BY <1>1, ReadBefore DEF EndOf
<1> HIDE DEF u
<1>3. \A i \in 0 .. Len(u) : all[i] = IF i = 0 THEN NoView ELSE Read(all[i - 1], u, i, r, n)
  BY <1>1, ReadingsDef
<1>4. all[Len(u)] = EndOf(u, r, n)
  BY DEF EndOf
<1> HIDE DEF all
<1>5. g[0] = EndOf(s, r, n) /\ g[Len(t)] = EndOf(u, r, n)
  BY <1>1, <1>2, <1>4
<1>6. ASSUME NEW p \in 1 .. Len(t) PROVE g[p] = Read(g[p - 1], t, p, r, n)
  <2>1. /\ Len(s) + p \in 0 .. Len(u) /\ Len(s) + p # 0
        /\ (Len(s) + p) - 1 = Len(s) + (p - 1)
        /\ p \in 0 .. Len(t) /\ p - 1 \in 0 .. Len(t)
    BY <1>1
  <2>2. all[Len(s) + p] = Read(all[Len(s) + (p - 1)], u, Len(s) + p, r, n)
    BY <1>3, <2>1
  <2>3. u[Len(s) + p] = t[p]
    BY <1>1
  <2>4. all[Len(s) + p] = Read(all[Len(s) + (p - 1)], t, p, r, n)
    BY <2>2, <2>3 DEF Read
  <2> QED
    BY <2>1, <2>4
<1>7. g \in [0 .. Len(t) -> {all[i] : i \in 0 .. Len(u)}]
  BY <1>1
<1> HIDE DEF g
<1>8. \E f \in [0 .. Len(t) -> {all[i] : i \in 0 .. Len(u)}] :
              /\ f[0] = EndOf(s, r, n)
              /\ f[Len(t)] = EndOf(u, r, n)
              /\ \A p \in 1 .. Len(t) : f[p] = Read(f[p - 1], t, p, r, n)
  BY <1>5, <1>6, <1>7
<1> QED
  BY <1>8 DEF u, all

\* Frames of other sources, and frames above the number, tell nothing.
LEMMA ReadNothing ==
    ASSUME NEW s \in Seq(Frames), NEW t \in Seq(Frames), NEW r, NEW n,
           \A p \in 1 .. Len(t) : ~(t[p].from = r /\ t[p].event_seq <= n)
    PROVE  EndOf(s \o t, r, n) = EndOf(s, r, n)
<1>1. PICK g : /\ g[0] = EndOf(s, r, n)
               /\ g[Len(t)] = EndOf(s \o t, r, n)
               /\ \A p \in 1 .. Len(t) : g[p] = Read(g[p - 1], t, p, r, n)
  BY ReadAfter
<1> DEFINE T == {p \in 0 .. Len(t) : g[p] = g[0]}
<1>2. Len(t) \in Nat
  OBVIOUS
<1>3. 0 \in T
  BY <1>2
<1>4. ASSUME NEW p \in 0 .. Len(t), p < Len(t), p \in T
      PROVE  p + 1 \in T
  <2>1. p + 1 \in 1 .. Len(t) /\ p + 1 \in 0 .. Len(t) /\ (p + 1) - 1 = p
    BY <1>2, <1>4
  <2>2. g[p + 1] = g[p]
    BY <1>1, <2>1 DEF Read
  <2> QED
    BY <1>4, <2>1, <2>2
<1> HIDE DEF T
<1>5. Len(t) \in T
  BY <1>2, <1>3, <1>4, UpTo
<1> QED
  BY <1>1, <1>5 DEF T

\* Beyond the last number of the room it does not matter how far one reads.
LEMMA ReadAll ==
    ASSUME NEW s \in Seq(Frames), NEW r, NEW n \in Nat, NEW m \in Nat,
           \A i \in 1 .. Len(s) : s[i].from = r => s[i].event_seq <= n /\ s[i].event_seq <= m
    PROVE  EndOf(s, r, n) = EndOf(s, r, m)
<1> DEFINE one == Readings(s, r, n)
           other == Readings(s, r, m)
           T == {i \in 0 .. Len(s) : one[i] = other[i]}
<1>1. Len(s) \in Nat
  OBVIOUS
<1>2. /\ \A i \in 0 .. Len(s) : one[i] = IF i = 0 THEN NoView ELSE Read(one[i - 1], s, i, r, n)
      /\ \A i \in 0 .. Len(s) : other[i] = IF i = 0 THEN NoView ELSE Read(other[i - 1], s, i, r, m)
  BY <1>1, ReadingsDef
<1> HIDE DEF one, other
<1>3. 0 \in T
  BY <1>1, <1>2
<1>4. ASSUME NEW i \in 0 .. Len(s), i < Len(s), i \in T
      PROVE  i + 1 \in T
  <2>1. i + 1 \in 1 .. Len(s) /\ i + 1 \in 0 .. Len(s) /\ i + 1 # 0 /\ (i + 1) - 1 = i
    BY <1>1, <1>4
  <2>2. one[i + 1] = Read(one[i], s, i + 1, r, n) /\ other[i + 1] = Read(other[i], s, i + 1, r, m)
    BY <1>2, <2>1
  <2>3. Read(one[i], s, i + 1, r, n) = Read(other[i], s, i + 1, r, m)
    BY <1>4, <2>1 DEF Read
  <2> QED
    BY <2>1, <2>2, <2>3
<1> HIDE DEF T
<1>5. \A i \in 0 .. Len(s) : i \in T
  BY <1>1, <1>3, <1>4, UpTo
<1> QED
  BY <1>1, <1>5 DEF T, one, other, EndOf

-----------------------------------------------------------------------------
(* What the frames of one handler tell.                                    *)

\* Frames after which a client that knew base knows the table instead: answers
\* tell nothing, a snapshot tells all, and the change of a seat gives the table to
\* a client that has the table, and to one that had base or was sent a snapshot
\* before.
Told(t, base, table) ==
    \A p \in 1 .. Len(t) :
        \/ t[p].payload = "Answer"
        \/ t[p].payload = "SyncState" /\ t[p].table = table
        \/ /\ t[p].payload = "PlayerConnectionChanged"
           /\ Apply(table, t[p]) = table
           /\ \/ Apply(base, t[p]) = table
              \/ \E q \in 1 .. p - 1 : t[q].payload = "SyncState"

\* Among the first p frames is one with a number up to n that is not an answer.
TableRead(t, p, n) ==
    \E q \in 1 .. p : t[q].payload # "Answer" /\ t[q].event_seq <= n

Ordered(t) ==
    \A i, j \in 1 .. Len(t) : i < j => t[i].event_seq <= t[j].event_seq

\* A client that reads some of these frames knows the table, if one of them was
\* more than an answer, and what it knew before otherwise.
LEMMA ReadTold ==
    ASSUME NEW s \in Seq(Frames), NEW t \in Seq(Frames), NEW r, NEW n \in Nat, NEW table,
           \A p \in 1 .. Len(t) : t[p].from = r,
           Ordered(t), Told(t, EndOf(s, r, n), table)
    PROVE  /\ EndOf(s \o t, r, n) \in {EndOf(s, r, n), table}
           /\ TableRead(t, Len(t), n) => EndOf(s \o t, r, n) = table
<1> DEFINE base == EndOf(s, r, n)
<1>1. PICK g : /\ g[0] = base
               /\ g[Len(t)] = EndOf(s \o t, r, n)
               /\ \A p \in 1 .. Len(t) : g[p] = Read(g[p - 1], t, p, r, n)
  BY ReadAfter
<1> HIDE DEF base
<1> DEFINE Knows(p) == /\ g[p] \in {base, table}
                       /\ TableRead(t, p, n) => g[p] = table
           T == {p \in 0 .. Len(t) : Knows(p)}
<1>2. Len(t) \in Nat /\ \A p \in 1 .. Len(t) : t[p] \in Frames /\ t[p].event_seq \in Nat
  BY FrameNumber
<1>3. Knows(0)
  BY <1>1 DEF TableRead
<1>4. ASSUME NEW i \in 0 .. Len(t), i < Len(t), Knows(i)
      PROVE  Knows(i + 1)
  <2> DEFINE p == i + 1
  <2>1. p \in 1 .. Len(t) /\ p - 1 = i /\ i \in Nat
    BY <1>2, <1>4
  <2> HIDE DEF p
  <2>2. g[p] = IF t[p].event_seq <= n THEN Apply(g[i], t[p]) ELSE g[i]
    BY <1>1, <2>1 DEF Read
  <2>3. TableRead(t, p, n) =>
            TableRead(t, i, n) \/ (t[p].payload # "Answer" /\ t[p].event_seq <= n)
    BY <2>1 DEF TableRead, p
  <2>4. CASE ~(t[p].event_seq <= n)
    BY <1>4, <2>2, <2>3, <2>4 DEF p
  <2>5. CASE t[p].event_seq <= n /\ t[p].payload = "Answer"
    <3>1. g[p] = g[i]
      BY <2>2, <2>5 DEF Apply
    <3> QED
      BY <1>4, <2>3, <2>5, <3>1 DEF p
  <2>6. CASE t[p].event_seq <= n /\ t[p].payload = "SyncState" /\ t[p].table = table
    <3>1. g[p] = table
      BY <2>2, <2>6 DEF Apply
    <3> QED
      BY <3>1 DEF p
  <2>7. CASE /\ t[p].event_seq <= n
             /\ Apply(table, t[p]) = table
             /\ Apply(base, t[p]) = table \/ \E q \in 1 .. p - 1 : t[q].payload = "SyncState"
    <3>1. CASE g[i] = table
      BY <2>2, <2>7, <3>1 DEF p
    <3>2. CASE Apply(base, t[p]) = table
      BY <1>4, <2>2, <2>7, <3>2 DEF p
    <3>3. ASSUME NEW q \in 1 .. p - 1, t[q].payload = "SyncState"
          PROVE  g[i] = table
      <4>1. q \in 1 .. i /\ q \in 1 .. Len(t) /\ q < p
        BY <1>2, <2>1
      <4>2. t[q].event_seq <= t[p].event_seq
        BY <2>1, <4>1 DEF Ordered
      <4>3. t[q].event_seq <= n
        BY <1>2, <2>1, <2>7, <4>1, <4>2
      <4>4. TableRead(t, i, n)
        BY <3>3, <4>1, <4>3 DEF TableRead
      <4> QED
        BY <1>4, <4>4
    <3> QED
      BY <2>7, <3>1, <3>2, <3>3
  <2> QED
    BY <2>1, <2>4, <2>5, <2>6, <2>7 DEF Told, base
<1> HIDE DEF Knows
<1>5. \A i \in 0 .. Len(t) : i \in T
  <2>1. 0 \in T /\ \A i \in 0 .. Len(t) : i < Len(t) /\ i \in T => i + 1 \in T
    BY <1>2, <1>3, <1>4
  <2> HIDE DEF T
  <2> QED
    BY <1>2, <2>1, UpTo
<1>6. Knows(Len(t))
  BY <1>2, <1>5
<1> QED
  BY <1>1, <1>6 DEF Knows, base

\* One batch after the other: the second one may count on the snapshot in the first.
LEMMA ThenTold ==
    ASSUME NEW a \in Seq(Frames), NEW b \in Seq(Frames), NEW base, NEW table,
           Told(a, base, table),
           \/ Told(b, base, table)
           \/ /\ \E q \in 1 .. Len(a) : a[q].payload = "SyncState"
              /\ \A p \in 1 .. Len(b) : /\ b[p].payload = "PlayerConnectionChanged"
                                        /\ Apply(table, b[p]) = table
    PROVE  Told(a \o b, base, table)
<1> DEFINE t == a \o b
<1>1. /\ Len(a) \in Nat /\ Len(b) \in Nat /\ Len(t) = Len(a) + Len(b)
      /\ \A i \in 1 .. Len(a) : t[i] = a[i]
      /\ \A i \in 1 .. Len(b) : t[Len(a) + i] = b[i]
  BY ConcatProperties
<1>2. ASSUME NEW p \in 1 .. Len(t)
      PROVE  \/ p \in 1 .. Len(a) /\ t[p] = a[p]
             \/ /\ p > Len(a) /\ p - Len(a) \in 1 .. Len(b)
                /\ t[p] = b[p - Len(a)]
  BY Joined
<1> HIDE DEF t
<1> DEFINE Good(p) ==
               \/ t[p].payload = "Answer"
               \/ t[p].payload = "SyncState" /\ t[p].table = table
               \/ /\ t[p].payload = "PlayerConnectionChanged"
                  /\ Apply(table, t[p]) = table
                  /\ \/ Apply(base, t[p]) = table
                     \/ \E q \in 1 .. p - 1 : t[q].payload = "SyncState"
<1>3. ASSUME NEW p \in 1 .. Len(a) PROVE Good(p)
  <2>1. t[p] = a[p]
    BY <1>1
  <2>2. ASSUME NEW q \in 1 .. p - 1, a[q].payload = "SyncState"
        PROVE  t[q].payload = "SyncState"
    BY <1>1, <2>2
  <2> QED
    BY <2>1, <2>2 DEF Told
<1>4. ASSUME NEW p \in 1 .. Len(t), p > Len(a), p - Len(a) \in 1 .. Len(b),
             t[p] = b[p - Len(a)]
      PROVE  Good(p)
  <2> DEFINE k == p - Len(a)
  <2>1. k \in 1 .. Len(b) /\ t[p] = b[k] /\ p \in Nat
    BY <1>1, <1>4
  <2>2. CASE Told(b, base, table)
    <3>1. ASSUME NEW q \in 1 .. k - 1, b[q].payload = "SyncState"
          PROVE  \E j \in 1 .. p - 1 : t[j].payload = "SyncState"
      <4>1. q \in 1 .. Len(b) /\ Len(a) + q \in 1 .. p - 1
        BY <1>1, <2>1
      <4>2. t[Len(a) + q] = b[q]
        BY <1>1, <4>1
      <4> QED
        BY <3>1, <4>1, <4>2
    <3> HIDE DEF k
    <3> QED
      BY <2>1, <2>2, <3>1 DEF Told
  <2>3. CASE /\ \E q \in 1 .. Len(a) : a[q].payload = "SyncState"
             /\ \A i \in 1 .. Len(b) : /\ b[i].payload = "PlayerConnectionChanged"
                                       /\ Apply(table, b[i]) = table
    <3>1. PICK q \in 1 .. Len(a) : a[q].payload = "SyncState"
      BY <2>3
    <3>2. q \in 1 .. p - 1 /\ t[q].payload = "SyncState"
      BY <1>1, <1>4, <2>1, <3>1
    <3> HIDE DEF k
    <3> QED
      BY <2>1, <2>3, <3>2
  <2> QED
    BY <2>2, <2>3
<1> HIDE DEF Good
<1>5. \A p \in 1 .. Len(t) : Good(p)
  BY <1>2, <1>3, <1>4
<1> QED
  BY <1>5 DEF Told, t, Good

\* A client applies the change of a seat as RoomTask says.
LEMMA ApplyChange ==
    ASSUME TypeOK', NEW r \in Rooms, NEW s \in Seats, NEW n, NEW v \in Snapshots
    PROVE  Apply(v, ChangeFrame(r, s, n)) = Changed(v, players_by_seat'[r][s], s)
<1> DEFINE player == players_by_seat'[r][s]
           frame == Frame(r, n, "PlayerConnectionChanged", s, Changed(NoView, player, s))
           state == frame.table.players[s]
           kept == v.players[s].auto_play_enabled
<1>1. /\ frame.payload = "PlayerConnectionChanged" /\ frame.seat = s
      /\ frame.table = Changed(NoView, player, s)
  BY DEF Frame
<1>2. state = [ user_id |-> player.user_id, status |-> player.status,
                is_connected |-> player.connected,
                auto_play_enabled |-> NoView.players[s].auto_play_enabled ]
  BY <1>1 DEF Changed, NoView, Snapshot
<1>3. Apply(v, frame)
        = [v EXCEPT !.players[s] = [state EXCEPT !.auto_play_enabled = kept]]
  BY <1>1 DEF Apply
<1>4. [state EXCEPT !.auto_play_enabled = kept]
        = [ user_id |-> player.user_id, status |-> player.status,
            is_connected |-> player.connected, auto_play_enabled |-> kept ]
  BY <1>2
<1> HIDE DEF frame, state, kept, player
<1>5. v = [phase |-> v.phase, players |-> v.players]
  BY DEF Snapshots
<1>6. Apply(v, frame) = Changed(v, player, s)
  BY <1>3, <1>4, <1>5 DEF Changed, kept
<1> QED
  BY <1>6 DEF frame, player, ChangeFrame

\* Room r as its handler leaves it.
Later(r) == Snapshot(players_by_seat'[r], phase'[r])

\* The change of a seat tells nothing new to whoever has the room as it is, and
\* gives the room as it is to whoever had it before, if no more was changed.
LEMMA ChangeTells ==
    ASSUME TypeOK, TypeOK', NEW r \in Rooms, NEW s \in Seats, NEW n
    PROVE  /\ Apply(Later(r), ChangeFrame(r, s, n)) = Later(r)
           /\ /\ phase'[r] = phase[r]
              /\ \A i \in Seats \ {s} : players_by_seat'[r][i] = players_by_seat[r][i]
              /\ players_by_seat'[r][s].auto_play_enabled
                   = players_by_seat[r][s].auto_play_enabled
              => Apply(Snapshot(players_by_seat[r], phase[r]), ChangeFrame(r, s, n)) = Later(r)
<1> DEFINE players == players_by_seat'[r]
           old == players_by_seat[r]
<1>1. /\ players \in [Seats -> PlayerSlot] /\ old \in [Seats -> PlayerSlot]
      /\ phase'[r] \in {"Unspecified", "Lobby", "Dealing"}
      /\ phase[r] \in {"Unspecified", "Lobby", "Dealing"}
  BY DEF TypeOK
<1>2. Later(r) \in Snapshots /\ Snapshot(old, phase[r]) \in Snapshots
  BY <1>1, SnapshotType DEF Later
<1>3. /\ Apply(Later(r), ChangeFrame(r, s, n)) = Changed(Later(r), players[s], s)
      /\ Apply(Snapshot(old, phase[r]), ChangeFrame(r, s, n))
           = Changed(Snapshot(old, phase[r]), players[s], s)
  BY <1>2, ApplyChange
<1> HIDE DEF players, old
<1>4. ASSUME NEW before \in [Seats -> PlayerSlot], NEW ph,
             \A i \in Seats \ {s} : players[i] = before[i],
             players[s].auto_play_enabled = before[s].auto_play_enabled
      PROVE  Changed(Snapshot(before, ph), players[s], s) = Snapshot(players, ph)
  <2>1. ASSUME NEW i \in Seats
        PROVE  Changed(Snapshot(before, ph), players[s], s).players[i] = Public(players[i])
    BY <1>4 DEF Changed, Snapshot, Public
  <2>2. Changed(Snapshot(before, ph), players[s], s).players
          = [i \in Seats |-> Public(players[i])]
    BY <2>1 DEF Changed, Snapshot
  <2>3. Changed(Snapshot(before, ph), players[s], s)
          = [phase |-> ph, players |-> Changed(Snapshot(before, ph), players[s], s).players]
    BY DEF Changed, Snapshot
  <2> QED
    BY <2>2, <2>3 DEF Snapshot
<1>5. Changed(Later(r), players[s], s) = Later(r)
  BY <1>1, <1>4 DEF Later, players
<1> QED
  BY <1>1, <1>3, <1>4, <1>5 DEF Later, players, old

-----------------------------------------------------------------------------
(* What the channels tell of the rooms.                                    *)

\* The channel of c has a frame of room r with number n.
Holds(c, r, n) ==
    \E i \in 1 .. Len(sent[c]) : sent[c][i].from = r /\ sent[c][i].event_seq = n

\* What the client of c knows of room r when it has read everything.
KnownAt(c, r) == EndOf(sent[c], r, MaxSeq)

\* The client of a connected seat knows the room.
ChannelsTell ==
    \A r \in Rooms, s \in Seats :
        players_by_seat[r][s].connected =>
            KnownAt(players_by_seat[r][s].outbound_tx, r)
                = Snapshot(players_by_seat[r], phase[r])

\* Whoever has a frame with some number knows the same when it has read up to it.
NumbersTell ==
    \A r \in Rooms, n \in Nat, c, d \in Conns :
        Holds(c, r, n) /\ Holds(d, r, n)
            => EndOf(sent[c], r, n) = EndOf(sent[d], r, n)

\* A seat is connected through d as the handler leaves room r.
Reached(r, d) ==
    \E t \in Seats : /\ players_by_seat'[r][t].connected
                     /\ players_by_seat'[r][t].outbound_tx = d

MoreThanAnswers(t) == \E p \in 1 .. Len(t) : t[p].payload # "Answer"

TellingIInv == NumberedIInv /\ ChannelsTell /\ NumbersTell

\* The channel of a connected seat is a connection, here after a step.
LEMMA SeatChannelLater ==
    ASSUME NumberedIInv', NEW r \in Rooms, NEW s \in Seats, players_by_seat'[r][s].connected
    PROVE  players_by_seat'[r][s].outbound_tx \in Conns
<1>1. IInv'
  BY DEF NumberedIInv
<1>2. TypeOK' /\ BindingConsistent'
  BY <1>1 DEF IInv
<1> QED
  BY <1>2 DEF TypeOK, BindingConsistent, PlayerSlot

\* A batch of a source that a room does not know tells it nothing, and nothing is
\* told of the numbers that were given out before.
LEMMA BatchTellsNothing ==
    ASSUME NumberedIInv, NEW f, NEW lo \in Nat, NEW hi, NEW h, Batch(h, f, lo, hi),
           Sends(h), NEW r \in Rooms, NEW n \in Nat, NEW c \in Conns,
           f # r \/ n < lo
    PROVE  /\ EndOf(sent'[c], r, n) = EndOf(sent[c], r, n)
           /\ Holds(c, r, n)' => Holds(c, r, n)
<1>1. /\ sent \in [Conns -> Seq(Frames)] /\ h \in [Conns -> Seq(Frames)]
      /\ sent'[c] = sent[c] \o h[c] /\ sent[c] \in Seq(Frames) /\ h[c] \in Seq(Frames)
  BY DEF NumberedIInv, Numbering, GivenOut, Batch, Sends, Then
<1>3. ASSUME NEW p \in 1 .. Len(h[c])
      PROVE  /\ ~(h[c][p].from = r /\ h[c][p].event_seq <= n)
             /\ ~(h[c][p].from = r /\ h[c][p].event_seq = n)
  <2>1. h[c][p].from = f /\ lo <= h[c][p].event_seq /\ h[c][p].event_seq \in Nat
    BY <1>1, FrameNumber DEF Batch
  <2> QED
    BY <2>1
<1>4. EndOf(sent'[c], r, n) = EndOf(sent[c], r, n)
  BY <1>1, <1>3, ReadNothing
<1>5. ASSUME Holds(c, r, n)' PROVE Holds(c, r, n)
  <2>1. PICK i \in 1 .. Len(sent[c] \o h[c]) :
            /\ (sent[c] \o h[c])[i].from = r
            /\ (sent[c] \o h[c])[i].event_seq = n
    BY <1>1, <1>5 DEF Holds
  <2>2. i \in 1 .. Len(sent[c]) /\ (sent[c] \o h[c])[i] = sent[c][i]
    BY <1>1, <1>3, <2>1, Joined
  <2> QED
    BY <2>1, <2>2 DEF Holds
<1> QED
  BY <1>4, <1>5

\* A step that tells nobody anything and leaves the seats as they are.
LEMMA QuietTells ==
    ASSUME TellingIInv, UNCHANGED sent, UNCHANGED players_by_seat, UNCHANGED phase
    PROVE  ChannelsTell' /\ NumbersTell'
<1>1. ChannelsTell'
  BY DEF TellingIInv, ChannelsTell, KnownAt
<1>2. NumbersTell'
  <2> SUFFICES ASSUME NEW r \in Rooms, NEW n \in Nat, NEW c \in Conns, NEW d \in Conns,
                      Holds(c, r, n)', Holds(d, r, n)'
               PROVE  EndOf(sent'[c], r, n) = EndOf(sent'[d], r, n)
    BY DEF NumbersTell
  <2>1. Holds(c, r, n) /\ Holds(d, r, n)
    BY DEF Holds
  <2> QED
    BY <2>1 DEF TellingIInv, NumbersTell
<1> QED
  BY <1>1, <1>2

\* The frames of a handler of room r that leaves the other rooms alone: they tell
\* the room as it is, to everyone who does not know it already.
LEMMA RoomTells ==
    ASSUME TellingIInv, NumberedIInv', NEW r \in Rooms, NEW k \in Nat, NEW h,
           NumbersLeft(r, k), Batch(h, r, next_event_seq[r], next_event_seq[r] + k),
           Sends(h),
           \A q \in Rooms \ {r} : /\ players_by_seat'[q] = players_by_seat[q]
                                  /\ phase'[q] = phase[q],
           \A c \in Conns : Told(h[c], KnownAt(c, r), Later(r)),
           \A c \in Conns : Reached(r, c) => KnownAt(c, r) = Later(r) \/ MoreThanAnswers(h[c])
    PROVE  ChannelsTell' /\ NumbersTell'
<1> DEFINE lo == next_event_seq[r]
           hi == next_event_seq[r] + k
           now == sent'
<1>1. /\ next_event_seq \in [Rooms -> Nat] /\ next_gateway_seq \in Nat
      /\ next_gateway_seq > 0 /\ NextOf(r) = lo /\ r \in Sources
  BY GatewayAssumption DEF TellingIInv, NumberedIInv, IInv, TypeOK, Counters, Sources, NextOf
<1>3. lo \in Nat /\ hi \in Nat /\ lo <= hi /\ hi <= MaxSeq
  BY <1>1, MaxSeqAssumption DEF NumbersLeft
<1>4. Batch(h, r, NextOf(r), hi) /\ NumberedIInv
  BY <1>1 DEF TellingIInv
<1>5. /\ sent \in [Conns -> Seq(Frames)] /\ h \in [Conns -> Seq(Frames)]
      /\ \A c \in Conns : now[c] = sent[c] \o h[c]
  BY <1>4 DEF NumberedIInv, Numbering, GivenOut, Batch, Sends, Then
<1>6. ASSUME NEW c \in Conns, NEW p \in 1 .. Len(h[c])
      PROVE  /\ h[c][p].from = r /\ h[c][p].event_seq \in Nat
             /\ lo <= h[c][p].event_seq /\ h[c][p].event_seq < hi
  BY <1>4, <1>1, <1>5, FrameNumber DEF Batch
<1> HIDE DEF lo, hi, now
<1>7. ASSUME NEW c \in Conns, NEW n \in Nat, lo <= n
      PROVE  EndOf(sent[c], r, n) = KnownAt(c, r)
  <2>1. ASSUME NEW i \in 1 .. Len(sent[c]), sent[c][i].from = r
        PROVE  sent[c][i].event_seq <= n /\ sent[c][i].event_seq <= MaxSeq
    <3>1. sent[c][i].event_seq \in Nat
      BY <1>5, FrameNumber
    <3>2. sent[c][i].event_seq < NextOf(r)
      BY <1>4, <2>1, ManagerAssumption DEF NumberedIInv, Numbering, GivenOut, Uncounted
    <3> QED
      BY <1>1, <1>3, <1>7, <3>1, <3>2, MaxSeqAssumption
  <2> QED
    BY <1>5, <2>1, ReadAll, MaxSeqAssumption DEF KnownAt
<1>8. ASSUME NEW c \in Conns, NEW n \in Nat, lo <= n
      PROVE  /\ EndOf(now[c], r, n) \in {KnownAt(c, r), Later(r)}
             /\ TableRead(h[c], Len(h[c]), n) => EndOf(now[c], r, n) = Later(r)
  <2>1. Ordered(h[c]) /\ h[c] \in Seq(Frames) /\ sent[c] \in Seq(Frames)
    BY <1>4, <1>5 DEF Batch, Ordered
  <2>2. Told(h[c], EndOf(sent[c], r, n), Later(r))
    BY <1>7, <1>8
  <2>3. /\ EndOf(sent[c] \o h[c], r, n) \in {EndOf(sent[c], r, n), Later(r)}
        /\ TableRead(h[c], Len(h[c]), n) => EndOf(sent[c] \o h[c], r, n) = Later(r)
    BY <1>6, <2>1, <2>2, ReadTold
  <2> QED
    BY <1>5, <1>7, <1>8, <2>3
<1>9. ASSUME NEW q \in Rooms \ {r}, NEW n \in Nat, NEW c \in Conns
      PROVE  EndOf(now[c], q, n) = EndOf(sent[c], q, n) /\ (Holds(c, q, n)' => Holds(c, q, n))
  BY <1>1, <1>3, <1>4, BatchTellsNothing DEF now
<1>10. ASSUME NEW n \in Nat, n < lo, NEW c \in Conns
       PROVE  EndOf(now[c], r, n) = EndOf(sent[c], r, n) /\ (Holds(c, r, n)' => Holds(c, r, n))
  BY <1>1, <1>3, <1>4, <1>10, BatchTellsNothing DEF now
<1>11. ChannelsTell'
  <2> SUFFICES ASSUME NEW q \in Rooms, NEW s \in Seats, players_by_seat'[q][s].connected
               PROVE  EndOf(now[players_by_seat'[q][s].outbound_tx], q, MaxSeq)
                        = Snapshot(players_by_seat'[q], phase'[q])
    BY DEF ChannelsTell, KnownAt, now
  <2> DEFINE c == players_by_seat'[q][s].outbound_tx
  <2>1. c \in Conns
    BY SeatChannelLater
  <2>2. CASE q # r
    <3>1. players_by_seat'[q] = players_by_seat[q] /\ phase'[q] = phase[q]
      BY <2>2
    <3>2. EndOf(sent[c], q, MaxSeq) = Snapshot(players_by_seat'[q], phase'[q])
      BY <3>1 DEF TellingIInv, ChannelsTell, KnownAt
    <3> QED
      BY <1>9, <2>1, <2>2, <3>2, MaxSeqAssumption
  <2>3. CASE q = r
    <3>1. lo <= MaxSeq
      BY <1>3, MaxSeqAssumption
    <3>2. CASE KnownAt(c, r) = Later(r)
      BY <1>8, <2>1, <2>3, <3>1, <3>2, MaxSeqAssumption DEF Later
    <3>3. ASSUME NEW p \in 1 .. Len(h[c]), h[c][p].payload # "Answer"
          PROVE  EndOf(now[c], r, MaxSeq) = Later(r)
      <4>1. h[c][p].event_seq <= MaxSeq
        BY <1>3, <1>6, <2>1, MaxSeqAssumption
      <4>2. TableRead(h[c], Len(h[c]), MaxSeq)
        BY <3>3, <4>1 DEF TableRead
      <4> QED
        BY <1>8, <2>1, <3>1, <4>2, MaxSeqAssumption
    <3>4. Reached(r, c)
      BY <2>3 DEF Reached
    <3> QED
      BY <2>1, <2>3, <3>2, <3>3, <3>4 DEF Later, MoreThanAnswers
  <2> QED
    BY <2>2, <2>3
<1>12. NumbersTell'
  <2> SUFFICES ASSUME NEW q \in Rooms, NEW n \in Nat, NEW c \in Conns, NEW d \in Conns,
                      Holds(c, q, n)', Holds(d, q, n)'
               PROVE  EndOf(now[c], q, n) = EndOf(now[d], q, n)
    BY DEF NumbersTell, now
  <2>1. CASE q # r
    BY <1>9, <2>1 DEF TellingIInv, NumbersTell
  <2>2. CASE q = r /\ n < lo
    BY <1>10, <2>2 DEF TellingIInv, NumbersTell
  <2>3. CASE q = r /\ lo <= n
    <3>1. ASSUME NEW e \in Conns, Holds(e, r, n)'
          PROVE  \E p \in 1 .. Len(h[e]) : h[e][p].event_seq = n
      <4>1. PICK i \in 1 .. Len(sent[e] \o h[e]) :
                /\ (sent[e] \o h[e])[i].from = r
                /\ (sent[e] \o h[e])[i].event_seq = n
        BY <1>5, <3>1 DEF Holds, now
      <4>2. CASE i \in 1 .. Len(sent[e]) /\ (sent[e] \o h[e])[i] = sent[e][i]
        <5>1. sent[e][i].event_seq < NextOf(r)
          BY <1>4, <4>1, <4>2, ManagerAssumption
             DEF NumberedIInv, Numbering, GivenOut, Uncounted
        <5> QED
          BY <1>1, <1>3, <2>3, <4>1, <4>2, <5>1
      <4>3. CASE /\ i - Len(sent[e]) \in 1 .. Len(h[e])
                 /\ (sent[e] \o h[e])[i] = h[e][i - Len(sent[e])]
        BY <4>1, <4>3
      <4> QED
        BY <1>5, <4>2, <4>3, Joined
    <3>2. PICK p \in 1 .. Len(h[c]) : h[c][p].event_seq = n
      BY <2>3, <3>1
    <3>3. PICK t \in 1 .. Len(h[d]) : h[d][t].event_seq = n
      BY <2>3, <3>1
    <3>4. h[c][p] = h[d][t] /\ (h[c][p].payload = "Answer" => c = d)
      BY <1>4, <3>2, <3>3 DEF Batch
    <3>5. CASE c = d
      BY <3>5
    <3>6. CASE h[c][p].payload # "Answer"
      <4>1. TableRead(h[c], Len(h[c]), n) /\ TableRead(h[d], Len(h[d]), n)
        BY <3>2, <3>3, <3>4, <3>6 DEF TableRead
      <4> QED
        BY <1>8, <2>3, <4>1
    <3> QED
      BY <3>4, <3>5, <3>6
  <2>4. n < lo \/ lo <= n
    BY <1>3
  <2> QED
    BY <2>1, <2>2, <2>3, <2>4
<1> QED
  BY <1>11, <1>12

-----------------------------------------------------------------------------
(* What the handlers tell.                                                 *)

\* A broadcast puts copies of one frame into the channels of the connected seats,
\* and at least one into each of them.
LEMMA SeatsReached ==
    ASSUME NEW players, NEW frame \in Frames, NEW c \in Conns
    PROVE  /\ ToSeats(players, frame)[c] \in Seq(Frames)
           /\ \A i \in 1 .. Len(ToSeats(players, frame)[c]) : ToSeats(players, frame)[c][i] = frame
           /\ (\E s \in Seats : players[s].connected /\ players[s].outbound_tx = c)
                <=> 1 \in 1 .. Len(ToSeats(players, frame)[c])
<1> DEFINE T == {s \in Seats : players[s].connected /\ players[s].outbound_tx = c}
           t == ToSeats(players, frame)[c]
<1>1. IsFiniteSet(T)
  <2>1. IsFiniteSet(Seats)
    BY SeatCountAssumption, FS_Interval DEF Seats
  <2> QED
    BY <2>1, FS_Subset
<1>2. Cardinality(T) \in Nat /\ (Cardinality(T) = 0 <=> T = {})
  BY <1>1, FS_CardinalityType, FS_EmptySet
<1>3. Copies(players, c) = Cardinality(T)
  BY DEF Copies
<1>4. t = [i \in 1 .. Cardinality(T) |-> frame]
  BY <1>3 DEF ToSeats
<1>5. T # {} <=> \E s \in Seats : players[s].connected /\ players[s].outbound_tx = c
  OBVIOUS
<1> HIDE DEF T, t
<1>6. /\ t \in Seq(Frames) /\ Len(t) = Cardinality(T)
      /\ \A i \in 1 .. Len(t) : t[i] = frame
  BY <1>2, <1>4
<1>7. T # {} <=> 1 \in 1 .. Len(t)
  BY <1>2, <1>6
<1> QED
  BY <1>5, <1>6, <1>7 DEF t

\* One frame for one connection.
LEMMA OneReached ==
    ASSUME NEW c \in Conns, NEW frame \in Frames, NEW d \in Conns
    PROVE  /\ ToOne(c, frame)[d] \in Seq(Frames)
           /\ \A i \in 1 .. Len(ToOne(c, frame)[d]) : ToOne(c, frame)[d][i] = frame
           /\ d = c <=> 1 \in 1 .. Len(ToOne(c, frame)[d])
<1> DEFINE one == <<frame>>
           none == <<>>
           t == ToOne(c, frame)[d]
<1>1. /\ one \in Seq(Frames) /\ Len(one) = 1 /\ one[1] = frame
      /\ none \in Seq(Frames) /\ Len(none) = 0
  OBVIOUS
<1>2. t = IF d = c THEN one ELSE none
  BY DEF ToOne
<1> HIDE DEF one, none, t
<1>3. /\ t \in Seq(Frames)
      /\ \A i \in 1 .. Len(t) : t[i] = frame
      /\ d = c <=> 1 \in 1 .. Len(t)
  <2>1. CASE d = c
    <3>1. t = one /\ 1 .. Len(one) = {1}
      BY <1>1, <1>2, <2>1
    <3> QED
      BY <1>1, <2>1, <3>1
  <2>2. CASE d # c
    <3>1. t = none /\ 1 .. Len(none) = {}
      BY <1>1, <1>2, <2>2
    <3> QED
      BY <1>1, <2>2, <3>1
  <2> QED
    BY <2>1, <2>2
<1> QED
  BY <1>3 DEF t

\* An answer tells nothing.
LEMMA AnswerTold ==
    ASSUME NEW c \in Conns, NEW r \in Rooms, NEW n \in Nat, NEW d \in Conns,
           NEW base, NEW table
    PROVE  /\ AnswerTo(c, r, n)[d] \in Seq(Frames)
           /\ Told(AnswerTo(c, r, n)[d], base, table)
<1> DEFINE frame == Frame(r, n, "Answer", NoSeat, NoView)
<1>1. NoView \in Snapshots
  BY SnapshotType DEF NoView, NoPlayer, PlayerSlot
<1>2. frame \in Frames /\ frame.payload = "Answer"
  BY <1>1 DEF Frame, Frames
<1>3. AnswerTo(c, r, n) = ToOne(c, frame)
  BY DEF AnswerTo
<1> HIDE DEF frame
<1>4. /\ ToOne(c, frame)[d] \in Seq(Frames)
      /\ \A i \in 1 .. Len(ToOne(c, frame)[d]) : ToOne(c, frame)[d][i] = frame
  BY <1>2, OneReached
<1> QED
  BY <1>2, <1>3, <1>4 DEF Told

\* A snapshot tells the room, in the broadcast and for one connection.
LEMMA SyncTold ==
    ASSUME TypeOK', NEW r \in Rooms, NEW n \in Nat, NEW d \in Conns, NEW base
    PROVE  /\ BroadcastSync(r, n)[d] \in Seq(Frames)
           /\ Told(BroadcastSync(r, n)[d], base, Later(r))
           /\ \A i \in 1 .. Len(BroadcastSync(r, n)[d]) :
                 BroadcastSync(r, n)[d][i].payload = "SyncState"
           /\ Reached(r, d) <=> 1 \in 1 .. Len(BroadcastSync(r, n)[d])
<1> DEFINE frame == SyncFrame(r, n)
<1>1. frame \in Frames /\ frame.payload = "SyncState"
  BY TableFrames
<1>2. frame.table = Later(r)
  BY DEF SyncFrame, Frame, Later
<1>3. BroadcastSync(r, n) = ToSeats(players_by_seat'[r], frame)
  BY DEF BroadcastSync
<1> HIDE DEF frame
<1> DEFINE t == ToSeats(players_by_seat'[r], frame)[d]
<1>4. /\ t \in Seq(Frames)
      /\ \A i \in 1 .. Len(t) : t[i] = frame
      /\ Reached(r, d) <=> 1 \in 1 .. Len(t)
  BY <1>1, SeatsReached DEF Reached
<1>5. BroadcastSync(r, n)[d] = t
  BY <1>3
<1> HIDE DEF t
<1>6. Told(t, base, Later(r)) /\ \A i \in 1 .. Len(t) : t[i].payload = "SyncState"
  BY <1>1, <1>2, <1>4 DEF Told
<1> QED
  BY <1>4, <1>5, <1>6

\* The change of a seat tells it to those who have been sent the snapshot.
LEMMA ChangeTold ==
    ASSUME TypeOK, TypeOK', NEW r \in Rooms, NEW s \in Seats, NEW n \in Nat, NEW d \in Conns
    PROVE  /\ BroadcastChange(r, s, n)[d] \in Seq(Frames)
           /\ \A p \in 1 .. Len(BroadcastChange(r, s, n)[d]) :
                 /\ BroadcastChange(r, s, n)[d][p] = ChangeFrame(r, s, n)
                 /\ BroadcastChange(r, s, n)[d][p].payload = "PlayerConnectionChanged"
                 /\ Apply(Later(r), BroadcastChange(r, s, n)[d][p]) = Later(r)
           /\ Reached(r, d) <=> 1 \in 1 .. Len(BroadcastChange(r, s, n)[d])
<1> DEFINE frame == ChangeFrame(r, s, n)
<1>1. frame \in Frames /\ frame.payload = "PlayerConnectionChanged"
  BY TableFrames
<1>2. Apply(Later(r), frame) = Later(r)
  BY ChangeTells
<1>3. BroadcastChange(r, s, n) = ToSeats(players_by_seat'[r], frame)
  BY DEF BroadcastChange
<1> HIDE DEF frame
<1> DEFINE b == ToSeats(players_by_seat'[r], frame)[d]
<1>4. /\ b \in Seq(Frames)
      /\ \A i \in 1 .. Len(b) : b[i] = frame
      /\ Reached(r, d) <=> 1 \in 1 .. Len(b)
  BY <1>1, SeatsReached DEF Reached
<1>5. BroadcastChange(r, s, n)[d] = b
  BY <1>3
<1> HIDE DEF b
<1>6. \A p \in 1 .. Len(b) : /\ b[p] = frame
                             /\ b[p].payload = "PlayerConnectionChanged"
                             /\ Apply(Later(r), b[p]) = Later(r)
  BY <1>1, <1>2, <1>4
<1> QED
  BY <1>4, <1>5, <1>6 DEF frame

\* The snapshot for everyone and the change after it.
LEMMA SyncChangeTold ==
    ASSUME TypeOK, TypeOK', NEW r \in Rooms, NEW s \in Seats, NEW n \in Nat, NEW m \in Nat,
           NEW d \in Conns, NEW base
    PROVE  /\ Then(BroadcastSync(r, n), BroadcastChange(r, s, m))[d] \in Seq(Frames)
           /\ Told(Then(BroadcastSync(r, n), BroadcastChange(r, s, m))[d], base, Later(r))
           /\ Reached(r, d)
              => MoreThanAnswers(Then(BroadcastSync(r, n), BroadcastChange(r, s, m))[d])
<1> DEFINE a == BroadcastSync(r, n)[d]
           b == BroadcastChange(r, s, m)[d]
<1>1. /\ a \in Seq(Frames) /\ Told(a, base, Later(r))
      /\ \A i \in 1 .. Len(a) : a[i].payload = "SyncState"
      /\ Reached(r, d) <=> 1 \in 1 .. Len(a)
  BY SyncTold
<1>2. /\ b \in Seq(Frames)
      /\ \A p \in 1 .. Len(b) : /\ b[p].payload = "PlayerConnectionChanged"
                                /\ Apply(Later(r), b[p]) = Later(r)
      /\ Reached(r, d) <=> 1 \in 1 .. Len(b)
  BY ChangeTold
<1>3. Then(BroadcastSync(r, n), BroadcastChange(r, s, m))[d] = a \o b
  BY DEF Then
<1> HIDE DEF a, b
<1>4. /\ a \o b \in Seq(Frames)
      /\ Len(a) \in Nat /\ Len(b) \in Nat /\ Len(a \o b) = Len(a) + Len(b)
      /\ \A i \in 1 .. Len(a) : (a \o b)[i] = a[i]
  BY <1>1, <1>2, ConcatProperties
<1>5. Told(a \o b, base, Later(r))
  <2>1. CASE Reached(r, d)
    BY <1>1, <1>2, <2>1, ThenTold
  <2>2. CASE ~Reached(r, d)
    <3>1. Told(b, base, Later(r))
      BY <1>2, <1>4, <2>2 DEF Told
    <3> QED
      BY <1>1, <1>2, <3>1, ThenTold
  <2> QED
    BY <2>1, <2>2
<1>6. Reached(r, d) => MoreThanAnswers(a \o b)
  <2> SUFFICES ASSUME Reached(r, d) PROVE MoreThanAnswers(a \o b)
    OBVIOUS
  <2>1. 1 \in 1 .. Len(a)
    BY <1>1
  <2>2. 1 \in 1 .. Len(a \o b) /\ (a \o b)[1].payload = "SyncState"
    BY <1>1, <1>4, <2>1
  <2> QED
    BY <2>2 DEF MoreThanAnswers
<1> QED
  BY <1>3, <1>4, <1>5, <1>6

\* What follows in a batch is in it.
LEMMA SecondTold ==
    ASSUME NEW a \in Seq(Frames), NEW b \in Seq(Frames),
           MoreThanAnswers(b)
    PROVE  MoreThanAnswers(a \o b)
<1> DEFINE t == a \o b
<1>0. PICK p \in 1 .. Len(b) : b[p].payload # "Answer"
  BY DEF MoreThanAnswers
<1>1. /\ Len(a) \in Nat /\ Len(b) \in Nat /\ Len(t) = Len(a) + Len(b)
      /\ \A i \in 1 .. Len(b) : t[Len(a) + i] = b[i]
  BY ConcatProperties
<1> HIDE DEF t
<1>2. Len(a) + p \in 1 .. Len(t) /\ t[Len(a) + p].payload # "Answer"
  BY <1>0, <1>1
<1>3. MoreThanAnswers(t)
  BY <1>2 DEF MoreThanAnswers
<1> QED
  BY <1>3 DEF t

\* Handlers that answer one connection and leave the seats alone.
LEMMA AnswerTells ==
    ASSUME TellingIInv, NumberedIInv', NEW r \in Rooms, NEW c \in Conns,
           NumbersLeft(r, 1), Sends(AnswerTo(c, r, next_event_seq[r])),
           UNCHANGED players_by_seat, UNCHANGED phase
    PROVE  ChannelsTell' /\ NumbersTell'
<1> DEFINE n == next_event_seq[r]
           h == AnswerTo(c, r, n)
<1>1. n \in Nat /\ r \in Sources
  BY DEF TellingIInv, NumberedIInv, IInv, TypeOK, Sources
<1>2. Batch(h, r, n, n + 1)
  BY <1>1, AnswerBatch
<1>3. \A d \in Conns : Told(h[d], KnownAt(d, r), Later(r))
  BY <1>1, AnswerTold
<1>4. \A d \in Conns : Reached(r, d) => KnownAt(d, r) = Later(r)
  BY DEF TellingIInv, ChannelsTell, Later, Reached
<1> HIDE DEF h
<1> QED
  BY <1>2, <1>3, <1>4, RoomTells DEF h

\* A rejection tells the connection that is routed, or nobody.
LEMMA RejectedTells ==
    ASSUME TellingIInv, NumberedIInv', NEW r \in Rooms, NEW c \in Conns,
           RejectSent(r, c), Rejected(r, c)
    PROVE  ChannelsTell' /\ NumbersTell'
<1> DEFINE tx == players_by_seat[r][SeatForConnection(r, c)].outbound_tx
<1>0. UNCHANGED players_by_seat /\ UNCHANGED phase
  BY DEF RejectSent, tables
<1>1. CASE Routed(r, c) /\ tx # None
  <2>1. tx = c
    BY <1>1, RouteSeat DEF TellingIInv, NumberedIInv
  <2>2. NumbersLeft(r, 1) /\ Sends(AnswerTo(c, r, next_event_seq[r]))
    BY <1>1, <2>1 DEF Rejected
  <2> QED
    BY <1>0, <2>2, AnswerTells
<1>2. CASE ~(Routed(r, c) /\ tx # None)
  BY <1>0, <1>2, QuietTells DEF Rejected
<1> QED
  BY <1>1, <1>2

\* A handler that writes the seats and the phase of its own room.
WritesRoom(r) ==
    \A q \in Rooms \ {r} :
        players_by_seat'[q] = players_by_seat[q] /\ phase'[q] = phase[q]

\* Handlers that end with a snapshot for everyone.
LEMMA UpdateTells ==
    ASSUME TellingIInv, NumberedIInv', NEW r \in Rooms, WritesRoom(r),
           NumbersLeft(r, 1), Sends(BroadcastSync(r, next_event_seq[r]))
    PROVE  ChannelsTell' /\ NumbersTell'
<1> DEFINE n == next_event_seq[r]
           h == BroadcastSync(r, n)
<1>1. n \in Nat /\ TypeOK'
  BY DEF TellingIInv, NumberedIInv, IInv, TypeOK
<1>2. Batch(h, r, n, n + 1)
  BY <1>1, TableBatches
<1>3. \A d \in Conns : Told(h[d], KnownAt(d, r), Later(r))
  BY <1>1, SyncTold
<1>4. ASSUME NEW d \in Conns, Reached(r, d) PROVE MoreThanAnswers(h[d])
  <2>1. /\ \A i \in 1 .. Len(h[d]) : h[d][i].payload = "SyncState"
        /\ 1 \in 1 .. Len(h[d])
    BY <1>1, <1>4, SyncTold
  <2> HIDE DEF h
  <2> QED
    BY <2>1 DEF MoreThanAnswers
<1> HIDE DEF h
<1> QED
  BY <1>2, <1>3, <1>4, RoomTells DEF h, WritesRoom

\* A disconnect tells the snapshot and the change.
LEMMA DisconnectTells ==
    ASSUME TellingIInv, NumberedIInv', NEW r \in Rooms, NEW s \in Seats, WritesRoom(r),
           NumbersLeft(r, 2),
           Sends(Then(BroadcastSync(r, next_event_seq[r]),
                      BroadcastChange(r, s, next_event_seq[r] + 1)))
    PROVE  ChannelsTell' /\ NumbersTell'
<1> DEFINE n == next_event_seq[r]
           h == Then(BroadcastSync(r, n), BroadcastChange(r, s, n + 1))
<1>1. /\ n \in Nat /\ n + 1 \in Nat /\ n + 2 \in Nat /\ (n + 1) + 1 = n + 2
      /\ n <= n + 1 /\ n + 1 <= n + 2
      /\ TypeOK /\ TypeOK'
  BY DEF TellingIInv, NumberedIInv, IInv, TypeOK
<1>2. Batch(h, r, n, n + 2)
  <2>1. Batch(BroadcastSync(r, n), r, n, n + 1)
    BY <1>1, TableBatches
  <2>2. Batch(BroadcastChange(r, s, n + 1), r, n + 1, (n + 1) + 1)
    BY <1>1, TableBatches
  <2> HIDE DEF n
  <2>3. Batch(BroadcastChange(r, s, n + 1), r, n + 1, n + 2)
    BY <1>1, <2>2
  <2> QED
    BY <1>1, <2>1, <2>3, ThenBatch
<1>3. \A d \in Conns : Told(h[d], KnownAt(d, r), Later(r))
  BY <1>1, SyncChangeTold
<1>4. \A d \in Conns : Reached(r, d) => MoreThanAnswers(h[d])
  BY <1>1, SyncChangeTold
<1> HIDE DEF h
<1> QED
  BY <1>2, <1>3, <1>4, RoomTells DEF h, WritesRoom

\* A join tells the same after its answer.
LEMMA JoinTells ==
    ASSUME TellingIInv, NumberedIInv', NEW r \in Rooms, NEW s \in Seats, NEW c \in Conns,
           WritesRoom(r), NumbersLeft(r, 3),
           Sends(Then(AnswerTo(c, r, next_event_seq[r]),
                      Then(BroadcastSync(r, next_event_seq[r] + 1),
                           BroadcastChange(r, s, next_event_seq[r] + 2))))
    PROVE  ChannelsTell' /\ NumbersTell'
<1> DEFINE n == next_event_seq[r]
           answer == AnswerTo(c, r, n)
           sync == BroadcastSync(r, n + 1)
           change == BroadcastChange(r, s, n + 2)
           rest == Then(sync, change)
           h == Then(answer, rest)
<1>1. /\ n \in Nat /\ n + 1 \in Nat /\ n + 2 \in Nat /\ n + 3 \in Nat
      /\ (n + 1) + 1 = n + 2 /\ (n + 2) + 1 = n + 3
      /\ n <= n + 1 /\ n + 1 <= n + 2 /\ n + 2 <= n + 3 /\ n + 1 <= n + 3
      /\ TypeOK /\ TypeOK' /\ r \in Sources
  BY DEF TellingIInv, NumberedIInv, IInv, TypeOK, Sources
<1>2. Batch(h, r, n, n + 3)
  <2>1. Batch(answer, r, n, n + 1)
    BY <1>1, AnswerBatch
  <2>2. Batch(sync, r, n + 1, (n + 1) + 1) /\ Batch(change, r, n + 2, (n + 2) + 1)
    BY <1>1, TableBatches
  <2> HIDE DEF n, answer, sync, change
  <2>3. Batch(sync, r, n + 1, n + 2) /\ Batch(change, r, n + 2, n + 3)
    BY <1>1, <2>2
  <2>4. Batch(rest, r, n + 1, n + 3)
    BY <1>1, <2>3, ThenBatch
  <2> QED
    BY <1>1, <2>1, <2>4, ThenBatch
<1>3. ASSUME NEW d \in Conns
      PROVE  /\ answer[d] \in Seq(Frames) /\ rest[d] \in Seq(Frames)
             /\ h[d] = answer[d] \o rest[d]
             /\ Told(answer[d], KnownAt(d, r), Later(r))
             /\ Told(rest[d], KnownAt(d, r), Later(r))
             /\ Reached(r, d) => MoreThanAnswers(rest[d])
  <2>1. answer[d] \in Seq(Frames) /\ Told(answer[d], KnownAt(d, r), Later(r))
    BY <1>1, AnswerTold
  <2>2. /\ rest[d] \in Seq(Frames)
        /\ Told(rest[d], KnownAt(d, r), Later(r))
        /\ Reached(r, d) => MoreThanAnswers(rest[d])
    BY <1>1, SyncChangeTold
  <2> HIDE DEF answer, rest
  <2>3. h[d] = answer[d] \o rest[d]
    BY DEF Then
  <2> QED
    BY <2>1, <2>2, <2>3
<1> HIDE DEF answer, rest, h
<1>4. \A d \in Conns : Told(h[d], KnownAt(d, r), Later(r))
  <2> SUFFICES ASSUME NEW d \in Conns PROVE Told(answer[d] \o rest[d], KnownAt(d, r), Later(r))
    BY <1>3
  <2> QED
    BY <1>3, ThenTold
<1>5. \A d \in Conns : Reached(r, d) => MoreThanAnswers(h[d])
  BY <1>3, SecondTold
<1> QED
  BY <1>2, <1>4, <1>5, RoomTells DEF h, answer, rest, WritesRoom

\* A resume tells the snapshot to the connection that resumes; the others had the
\* room as it was, and only the seat has changed, in what the change tells of it.
LEMMA ResumeTells ==
    ASSUME TellingIInv, NumberedIInv', NEW r \in Rooms, NEW s \in Seats, NEW c \in Conns,
           WritesRoom(r), NumbersLeft(r, 2), phase'[r] = phase[r],
           \A i \in Seats \ {s} : players_by_seat'[r][i] = players_by_seat[r][i],
           players_by_seat'[r][s].auto_play_enabled = players_by_seat[r][s].auto_play_enabled,
           players_by_seat'[r][s].outbound_tx = c,
           Sends(Then(ToOne(c, SyncFrame(r, next_event_seq[r])),
                      BroadcastChange(r, s, next_event_seq[r] + 1)))
    PROVE  ChannelsTell' /\ NumbersTell'
<1> DEFINE n == next_event_seq[r]
           sync == ToOne(c, SyncFrame(r, n))
           change == BroadcastChange(r, s, n + 1)
           h == Then(sync, change)
<1>1. /\ n \in Nat /\ n + 1 \in Nat /\ n + 2 \in Nat /\ (n + 1) + 1 = n + 2
      /\ n <= n + 1 /\ n + 1 <= n + 2
      /\ TypeOK /\ TypeOK'
  BY DEF TellingIInv, NumberedIInv, IInv, TypeOK
<1>2. Batch(h, r, n, n + 2)
  <2>1. Batch(sync, r, n, n + 1)
    BY <1>1, TableBatches
  <2>2. Batch(change, r, n + 1, (n + 1) + 1)
    BY <1>1, TableBatches
  <2> HIDE DEF n, sync, change
  <2>3. Batch(change, r, n + 1, n + 2)
    BY <1>1, <2>2
  <2> QED
    BY <1>1, <2>1, <2>3, ThenBatch
<1>3. ASSUME NEW d \in Conns
      PROVE  /\ sync[d] \in Seq(Frames)
             /\ \A i \in 1 .. Len(sync[d]) : /\ sync[d][i].payload = "SyncState"
                                             /\ sync[d][i].table = Later(r)
             /\ d = c => 1 \in 1 .. Len(sync[d])
  <2>1. SyncFrame(r, n) \in Frames /\ SyncFrame(r, n).payload = "SyncState"
    BY <1>1, TableFrames
  <2>2. SyncFrame(r, n).table = Later(r)
    BY DEF SyncFrame, Frame, Later
  <2> DEFINE frame == SyncFrame(r, n)
  <2> HIDE DEF frame
  <2>3. /\ ToOne(c, frame)[d] \in Seq(Frames)
        /\ \A i \in 1 .. Len(ToOne(c, frame)[d]) : ToOne(c, frame)[d][i] = frame
        /\ d = c <=> 1 \in 1 .. Len(ToOne(c, frame)[d])
    BY <2>1, OneReached DEF frame
  <2>4. sync[d] = ToOne(c, frame)[d]
    BY DEF frame
  <2>5. frame.payload = "SyncState" /\ frame.table = Later(r)
    BY <2>1, <2>2 DEF frame
  <2> HIDE DEF sync
  <2> QED
    BY <2>3, <2>4, <2>5
<1>4. ASSUME NEW d \in Conns
      PROVE  /\ change[d] \in Seq(Frames)
             /\ \A p \in 1 .. Len(change[d]) :
                   /\ change[d][p] = ChangeFrame(r, s, n + 1)
                   /\ change[d][p].payload = "PlayerConnectionChanged"
                   /\ Apply(Later(r), change[d][p]) = Later(r)
             /\ Reached(r, d) <=> 1 \in 1 .. Len(change[d])
  BY <1>1, ChangeTold
<1>5. ASSUME NEW d \in Conns, d # c, Reached(r, d)
      PROVE  KnownAt(d, r) = Snapshot(players_by_seat[r], phase[r])
  <2>1. PICK t \in Seats : /\ players_by_seat'[r][t].connected
                           /\ players_by_seat'[r][t].outbound_tx = d
    BY <1>5 DEF Reached
  <2>2. players_by_seat[r][t].connected /\ players_by_seat[r][t].outbound_tx = d
    BY <1>5, <2>1
  <2> QED
    BY <2>2 DEF TellingIInv, ChannelsTell
<1>6. Apply(Snapshot(players_by_seat[r], phase[r]), ChangeFrame(r, s, n + 1)) = Later(r)
  BY <1>1, ChangeTells
<1>7. ASSUME NEW d \in Conns PROVE h[d] = sync[d] \o change[d]
  BY DEF Then
<1> HIDE DEF sync, change, h
<1>8. ASSUME NEW d \in Conns PROVE Told(sync[d] \o change[d], KnownAt(d, r), Later(r))
  <2>1. Told(sync[d], KnownAt(d, r), Later(r))
    BY <1>3 DEF Told
  <2>2. CASE d = c
    BY <1>3, <1>4, <2>1, <2>2, ThenTold
  <2>3. CASE d # c
    <3>1. Told(change[d], KnownAt(d, r), Later(r))
      <4>1. CASE Reached(r, d)
        BY <1>4, <1>5, <1>6, <2>3, <4>1 DEF Told
      <4>2. CASE ~Reached(r, d)
        <5>1. Len(change[d]) \in Nat /\ ~(1 \in 1 .. Len(change[d]))
          BY <1>4, <4>2
        <5> QED
          BY <5>1 DEF Told
      <4> QED
        BY <4>1, <4>2
    <3> QED
      BY <1>3, <1>4, <2>1, <3>1, ThenTold
  <2> QED
    BY <2>2, <2>3
<1>9. \A d \in Conns : Told(h[d], KnownAt(d, r), Later(r))
  BY <1>7, <1>8
<1>10. ASSUME NEW d \in Conns, Reached(r, d) PROVE MoreThanAnswers(h[d])
  <2>1. MoreThanAnswers(change[d])
    BY <1>4, <1>10 DEF MoreThanAnswers
  <2> QED
    <3>1. sync[d] \in Seq(Frames) /\ change[d] \in Seq(Frames) /\ h[d] = sync[d] \o change[d]
      BY <1>3, <1>4, <1>7
    <3> QED
      BY <2>1, <3>1, SecondTold
<1> QED
  BY <1>2, <1>9, <1>10, RoomTells DEF h, sync, change, WritesRoom

\* Every handler of a room.
LEMMA RoomStepTells ==
    ASSUME TellingIInv, NumberedIInv', NEW r \in Rooms, RoomStep(r)
    PROVE  ChannelsTell' /\ NumbersTell'
<1>0. IInv /\ TypeOK
  BY DEF TellingIInv, NumberedIInv, IInv
<1>1. CASE VerdictSent(r)
  <2>1. awaiting[r] \in Conns
    BY <1>0, <1>1 DEF VerdictSent, ActionVerdict, Idle, TypeOK
  <2>2. RejectSent(r, awaiting[r]) /\ Rejected(r, awaiting[r])
    BY <1>1 DEF VerdictSent, ActionVerdict
  <2> QED
    BY <2>1, <2>2, RejectedTells
<1>2. ASSUME NEW c \in Conns, SeatUpdated(r, c) PROVE ChannelsTell' /\ NumbersTell'
  <2>1. NumbersLeft(r, 1) /\ Sends(BroadcastSync(r, next_event_seq[r]))
    BY <1>2 DEF SeatUpdated
  <2>2. WritesRoom(r)
    BY <1>0, <1>2 DEF SeatUpdated, Ready, AutoPlayToggle, WritesRoom, TypeOK
  <2> QED
    BY <2>1, <2>2, UpdateTells
<1>3. ASSUME NEW c \in Conns, RequestRejected(r, c) PROVE ChannelsTell' /\ NumbersTell'
  BY <1>3, RejectedTells DEF RequestRejected, ReadyUnregistered, ActionUnregistered, ActionRefused
<1>4. ASSUME NEW c \in Conns, Silent(r, c) PROVE ChannelsTell' /\ NumbersTell'
  BY <1>4, QuietTells DEF Silent, ActionSubmitted, DisconnectUnregistered, vars, tables
<1>5. ASSUME NEW c \in Conns, DisconnectHandled(r, c) PROVE ChannelsTell' /\ NumbersTell'
  <2> DEFINE s == SeatForConnection(r, c)
  <2>1. /\ NumbersLeft(r, 2) /\ Routed(r, c)
        /\ Sends(Then(BroadcastSync(r, next_event_seq[r]),
                      BroadcastChange(r, s, next_event_seq[r] + 1)))
    BY <1>5 DEF DisconnectHandled, Disconnect
  <2>2. s \in Seats
    BY <1>0, <2>1, RouteSeat
  <2>3. WritesRoom(r)
    BY <1>0, <1>5 DEF DisconnectHandled, Disconnect, WritesRoom, TypeOK
  <2> HIDE DEF s
  <2> QED
    BY <2>1, <2>2, <2>3, DisconnectTells
<1>6. ASSUME NEW c \in Conns, NEW u \in Users, JoinRefused(r, c, u) \/ ResumeRefused(r, c, u)
      PROVE  ChannelsTell' /\ NumbersTell'
  <2>1. /\ NumbersLeft(r, 1) /\ OnlyAnswer(r)
        /\ Sends(AnswerTo(c, r, next_event_seq[r]))
    BY <1>6 DEF JoinRefused, ResumeRefused, JoinAlreadyJoined, JoinRoomFull,
                ResumeUnknownUser, ResumeBadToken
  <2>2. UNCHANGED players_by_seat /\ UNCHANGED phase
    BY <2>1 DEF OnlyAnswer, tables
  <2> QED
    BY <2>1, <2>2, AnswerTells
<1>7. ASSUME NEW c \in Conns, NEW u \in Users, ResumeAccepted(r, c, u)
      PROVE  ChannelsTell' /\ NumbersTell'
  <2> DEFINE s == user_to_seat[r][u]
             players == [players_by_seat[r] EXCEPT
                           ![s].connection_id = c,
                           ![s].outbound_tx = c,
                           ![s].connected = TRUE]
  <2>1. /\ NumbersLeft(r, 2) /\ s # NoSeat
        /\ players_by_seat' = [players_by_seat EXCEPT ![r] = players]
        /\ UNCHANGED phase
        /\ Sends(Then(ToOne(c, SyncFrame(r, next_event_seq[r])),
                      BroadcastChange(r, s, next_event_seq[r] + 1)))
    BY <1>7 DEF ResumeAccepted, Resume
  <2>2. s \in Seats
    BY <1>0, <2>1 DEF TypeOK
  <2>3. players_by_seat[r] \in [Seats -> PlayerSlot] /\ players_by_seat[r][s] \in PlayerSlot
    BY <1>0, <2>2 DEF TypeOK
  <2>4. /\ \A i \in Seats \ {s} : players[i] = players_by_seat[r][i]
        /\ players[s].auto_play_enabled = players_by_seat[r][s].auto_play_enabled
        /\ players[s].outbound_tx = c
    BY <2>2, <2>3 DEF PlayerSlot
  <2> HIDE DEF players, s
  <2>5. players_by_seat'[r] = players /\ WritesRoom(r) /\ phase'[r] = phase[r]
    BY <1>0, <2>1 DEF TypeOK, WritesRoom
  <2> QED
    BY <2>1, <2>2, <2>4, <2>5, ResumeTells
<1>8. ASSUME NEW c \in Conns, NEW u \in Users, NEW s \in Seats, JoinAccepted(r, c, u, s)
      PROVE  ChannelsTell' /\ NumbersTell'
  <2>1. /\ NumbersLeft(r, 3)
        /\ Sends(Then(AnswerTo(c, r, next_event_seq[r]),
                      Then(BroadcastSync(r, next_event_seq[r] + 1),
                           BroadcastChange(r, s, next_event_seq[r] + 2))))
    BY <1>8 DEF JoinAccepted
  <2>2. WritesRoom(r)
    BY <1>0, <1>8 DEF JoinAccepted, JoinSeated, WritesRoom, TypeOK
  <2> QED
    BY <2>1, <2>2, JoinTells
<1> QED
  BY <1>1, <1>2, <1>3, <1>4, <1>5, <1>6, <1>7, <1>8 DEF RoomStep

\* What the gateway and the manager answer tells nothing of the rooms.
LEMMA OthersTell ==
    ASSUME TellingIInv, NEW c \in Conns, NEW f \in {Gateway, Manager}, NEW k \in Nat,
           Sends(AnswerTo(c, f, k)), UNCHANGED vars
    PROVE  ChannelsTell' /\ NumbersTell'
<1> DEFINE h == AnswerTo(c, f, k)
<1>1. /\ f \in Sources \cup {Manager} /\ f \notin Rooms
      /\ NumberedIInv
      /\ Sends(h) /\ UNCHANGED players_by_seat /\ UNCHANGED phase
  BY GatewayAssumption, ManagerAssumption DEF TellingIInv, Sources, vars, tables
<1>2. Batch(h, f, k, k + 1)
  BY <1>1, AnswerBatch
<1> HIDE DEF h
<1>3. ASSUME NEW r \in Rooms, NEW n \in Nat, NEW d \in Conns
      PROVE  /\ EndOf(sent'[d], r, n) = EndOf(sent[d], r, n)
             /\ Holds(d, r, n)' => Holds(d, r, n)
  <2>1. f # r
    BY <1>1
  <2> QED
    BY <1>1, <1>2, <2>1, BatchTellsNothing
<1>4. ChannelsTell'
  <2> SUFFICES ASSUME NEW r \in Rooms, NEW s \in Seats, players_by_seat'[r][s].connected
               PROVE  EndOf(sent'[players_by_seat'[r][s].outbound_tx], r, MaxSeq)
                        = Snapshot(players_by_seat'[r], phase'[r])
    BY DEF ChannelsTell, KnownAt
  <2> DEFINE d == players_by_seat[r][s].outbound_tx
  <2>1. /\ players_by_seat[r][s].connected /\ players_by_seat'[r][s].outbound_tx = d
        /\ Snapshot(players_by_seat'[r], phase'[r]) = Snapshot(players_by_seat[r], phase[r])
    BY <1>1
  <2>2. d \in Conns
    BY <1>1, <2>1 DEF NumberedIInv, IInv, TypeOK, BindingConsistent, PlayerSlot
  <2>3. EndOf(sent[d], r, MaxSeq) = Snapshot(players_by_seat[r], phase[r])
    BY <2>1 DEF TellingIInv, ChannelsTell, KnownAt
  <2> HIDE DEF d
  <2> QED
    BY <1>3, <2>1, <2>2, <2>3, MaxSeqAssumption
<1>5. NumbersTell'
  <2> SUFFICES ASSUME NEW r \in Rooms, NEW n \in Nat, NEW d \in Conns, NEW e \in Conns,
                      Holds(d, r, n)', Holds(e, r, n)'
               PROVE  EndOf(sent'[d], r, n) = EndOf(sent'[e], r, n)
    BY DEF NumbersTell
  <2> QED
    BY <1>3 DEF TellingIInv, NumbersTell
<1> QED
  BY <1>4, <1>5

\* Nobody is connected and nothing has been sent.
LEMMA TellingInit == NumberedInit => TellingIInv
<1> SUFFICES ASSUME NumberedInit PROVE TellingIInv
  OBVIOUS
<1>1. NumberedIInv
  BY NumberedInitIInv
<1>2. ChannelsTell
  BY DEF NumberedInit, Init, ChannelsTell, NoPlayer
<1>3. \A c \in Conns : 1 .. Len(sent[c]) = {}
  <2> DEFINE none == <<>>
  <2>1. Len(none) = 0
    OBVIOUS
  <2>2. sent = [c \in Conns |-> none]
    BY DEF NumberedInit
  <2> HIDE DEF none
  <2> QED
    BY <2>1, <2>2
<1>4. NumbersTell
  BY <1>3 DEF NumbersTell, Holds
<1> QED
  BY <1>1, <1>2, <1>4 DEF TellingIInv

\* Every step keeps what the channels tell.
LEMMA TellingNext == TellingIInv /\ [NumberedNext]_numbered => TellingIInv'
<1> SUFFICES ASSUME TellingIInv, [NumberedNext]_numbered PROVE TellingIInv'
  OBVIOUS
<1>1. NumberedIInv'
  BY NumberedNextIInv DEF TellingIInv
<1>2. ASSUME NEW r \in Rooms, RoomStep(r) PROVE ChannelsTell' /\ NumbersTell'
  BY <1>1, <1>2, RoomStepTells
<1>3. ASSUME NEW c \in Conns, GatewayAnswers(c) PROVE ChannelsTell' /\ NumbersTell'
  <2>1. Sends(AnswerTo(c, Gateway, next_gateway_seq)) /\ UNCHANGED vars
    BY <1>3 DEF GatewayAnswers
  <2>2. next_gateway_seq \in Nat
    BY DEF TellingIInv, NumberedIInv
  <2> QED
    BY <2>1, <2>2, OthersTell
<1>6. ASSUME NEW c \in Conns, ManagerRejects(c) PROVE ChannelsTell' /\ NumbersTell'
  <2>1. Sends(AnswerTo(c, Manager, 0)) /\ UNCHANGED vars
    BY <1>6 DEF ManagerRejects
  <2> QED
    BY <2>1, OthersTell
<1>4. ASSUME UNCHANGED numbered PROVE ChannelsTell' /\ NumbersTell'
  BY <1>4, QuietTells DEF numbered, vars, tables
<1>5. ChannelsTell' /\ NumbersTell'
  BY <1>2, <1>3, <1>4, <1>6 DEF NumberedNext
<1> QED
  BY <1>1, <1>5 DEF TellingIInv

\* The channels tell the rooms in every reachable state.
THEOREM TellingInvariant == NumberedSpec => []TellingIInv
BY TellingInit, TellingNext, PTL DEF NumberedSpec

\* The frames on the channel of a connected seat, read in their order, give the
\* room as its task has it and as RoomTask keeps it for the seat: the handlers
\* send a snapshot to every channel that was behind (broadcast_sync_state, the
\* SyncState of handle_resume), and the changes of broadcast_connection_changed
\* carry the rest.
THEOREM FramesTellCorrect == NumberedSpec => []FramesTellTheTable
<1>1. TellingIInv => FramesTellTheTable
  <2> SUFFICES ASSUME TellingIInv, NEW r \in Rooms, NEW s \in Seats,
                      players_by_seat[r][s].connected
               PROVE  /\ ViewAt(players_by_seat[r][s].outbound_tx, r, MaxSeq) = view[r][s]
                      /\ view[r][s] = Snapshot(players_by_seat[r], phase[r])
    BY DEF FramesTellTheTable
  <2>1. view[r][s] = Snapshot(players_by_seat[r], phase[r])
    BY DEF TellingIInv, NumberedIInv, IInv, ViewsCurrent
  <2>2. KnownAt(players_by_seat[r][s].outbound_tx, r) = Snapshot(players_by_seat[r], phase[r])
    BY DEF TellingIInv, ChannelsTell
  <2> QED
    BY <2>1, <2>2 DEF KnownAt, EndOf, ViewAt
<1> QED
  BY <1>1, TellingInvariant, PTL

\* Clients that have read up to the same number of a room know the same room,
\* whichever frames brought them there.
THEOREM SameTableCorrect == NumberedSpec => []SameNumberSameTable
<1>1. TellingIInv => SameNumberSameTable
  <2> SUFFICES ASSUME TellingIInv, NEW r \in Rooms, NEW n \in 1 .. MaxSeq
               PROVE  Cardinality({ViewAt(c, r, n) : c \in {d \in Conns :
                          \E i \in 1 .. Len(sent[d]) :
                             sent[d][i].from = r /\ sent[d][i].event_seq = n}}) <= 1
    BY DEF SameNumberSameTable
  <2> DEFINE reached == {d \in Conns :
                           \E i \in 1 .. Len(sent[d]) :
                              sent[d][i].from = r /\ sent[d][i].event_seq = n}
             known == {ViewAt(c, r, n) : c \in reached}
  <2>1. \A c \in reached : c \in Conns /\ Holds(c, r, n)
    BY DEF Holds
  <2>2. n \in Nat
    BY MaxSeqAssumption
  <2> HIDE DEF reached
  <2>3. \A c, d \in reached : ViewAt(c, r, n) = ViewAt(d, r, n)
    BY <2>1, <2>2 DEF TellingIInv, NumbersTell, ViewAt, EndOf
  <2>4. CASE reached = {}
    <3>1. known = {}
      BY <2>4
    <3> QED
      BY <3>1, FS_EmptySet DEF reached
  <2>5. CASE reached # {}
    <3>1. PICK c \in reached : TRUE
      BY <2>5
    <3>2. known = {ViewAt(c, r, n)}
      BY <2>3, <3>1
    <3> HIDE DEF known
    <3>3. Cardinality(known) = 1
      BY <3>2, FS_Singleton
    <3> QED
      BY <3>3 DEF known, reached
  <2> QED
    BY <2>4, <2>5
<1> QED
  BY <1>1, TellingInvariant, PTL

\* With their frames the rooms are still those of RoomTask: whatever is proved of
\* its specification holds here.
THEOREM NumberedRooms == NumberedSpec => Spec
<1>1. NumberedInit => Init
  BY DEF NumberedInit
<1>2. [NumberedNext]_numbered => [Next]_vars
  BY RoomStepIsNext DEF NumberedNext, GatewayAnswers, ManagerRejects, numbered
<1> QED
  BY <1>1, <1>2, PTL DEF NumberedSpec, Spec
=============================================================================
