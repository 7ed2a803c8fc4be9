--------------------------- MODULE SettlementProofs ---------------------------
(* Proofs about settlements, for every request, seat, tile and fan.        *)
EXTENDS Settlement, SequenceTheorems, FiniteSetTheorems, WellFoundedInduction, TLAPS

-----------------------------------------------------------------------------
(* The searches.                                                           *)

\* A set of natural numbers that is not empty has a least element.
LEMMA LeastElement ==
    ASSUME NEW T, T \subseteq Nat, T # {}
    PROVE  Min(T) \in T
<1>. DEFINE R == OpToRel(<, Nat)
<1>1. PICK x \in T : \A y \in T : ~ (<<y, x>> \in R)
  BY NatLessThanWellFounded, WFMin
<1>2. \A y \in T : y < x => <<y, x>> \in R
  BY Zenon DEF OpToRel
<1>3. \A y \in T : ~ (y < x)
  BY <1>1, <1>2
<1>4. \A y \in T : x =< y
  BY <1>3
<1>. QED  BY <1>4 DEF Min

\* The hand that is found is one of the request's, and it is flagged or at the
\* seat of the winner.
LEMMA FoundHand ==
    ASSUME NEW q \in CalculateScoreRequests, FindWinnerHand(q) # 0
    PROVE  /\ FindWinnerHand(q) \in 1 .. Len(q.hands)
           /\ \/ q.hands[FindWinnerHand(q)].winner
              \/ q.hands[FindWinnerHand(q)].seat = q.winner_seat
<1>. DEFINE I == {i \in 1 .. Len(q.hands) :
                    q.hands[i].winner \/ q.hands[i].seat = q.winner_seat}
<1>1. FindWinnerHand(q) = IF I # {} THEN Min(I) ELSE 0
  BY DEF FindWinnerHand, SelectInSeq
<1>2. I \subseteq Nat
  BY DEF CalculateScoreRequests
<1>3. FindWinnerHand(q) \in I
  BY <1>1, <1>2, LeastElement
<1>. QED  BY <1>3

\* Taking a tile out of a sequence that has it leaves a sequence of tiles.
LEMMA RemovedIsSeq ==
    ASSUME NEW S, NEW s \in Seq(S), NEW e, Contains(s, e)
    PROVE  RemoveFirst(s, e) \in Seq(S)
<1>. DEFINE I == {i \in 1 .. Len(s) : s[i] = e}
            k == SelectInSeq(s, LAMBDA v : v = e)
<1>1. I # {} /\ I \subseteq Nat
  BY DEF Contains
<1>2. k = Min(I)
  BY <1>1 DEF SelectInSeq
<1>3. k \in 1 .. Len(s)
  BY <1>1, <1>2, LeastElement
<1>4. RemoveFirst(s, e) = SubSeq(s, 1, k - 1) \o SubSeq(s, k + 1, Len(s))
  BY DEF RemoveFirst, RemoveAt, Contains
<1>5. SubSeq(s, 1, k - 1) \in Seq(S) /\ SubSeq(s, k + 1, Len(s)) \in Seq(S)
  <2>. HIDE DEF k
  <2>1. Len(s) \in Nat /\ \A i \in 1 .. Len(s) : s[i] \in S
    BY ElementOfSeq
  <2>2. /\ 1 \in Int /\ k - 1 \in Int /\ k + 1 \in Int /\ Len(s) \in Int
        /\ \A i \in 1 .. k - 1 : s[i] \in S
        /\ \A i \in k + 1 .. Len(s) : s[i] \in S
    BY <1>3, <2>1
  <2>. QED  BY <2>2, SubSeqProperties
<1>. QED  BY <1>4, <1>5, ConcatProperties

-----------------------------------------------------------------------------
(* The answers.                                                            *)

\* What the library is asked about is a sequence of real tiles.
LEMMA LipaiIsReal ==
    ASSUME NEW q, NEW hand \in HandSnapshots, HandIsReadable(q, hand)
    PROVE  Lipai(q, hand) \in Seq(Tiles)
<1>1. hand.concealed_tiles \in Seq(Tiles) /\ q.winning_tile \in Tiles
  <2>1. hand.concealed_tiles \in Seq(EngineTiles)
    BY DEF HandSnapshots
  <2>. QED  BY <2>1, IsASeq, LenProperties DEF HandIsReadable
<1>2. CASE VisibleTileCount(hand) = 13
  BY <1>1, <1>2 DEF Lipai
<1>3. CASE VisibleTileCount(hand) # 13
  <2>1. Contains(hand.concealed_tiles, q.winning_tile)
    BY <1>3 DEF HandIsReadable
  <2>2. RemoveFirst(hand.concealed_tiles, q.winning_tile) \in Seq(Tiles)
    BY <1>1, <2>1, RemovedIsSeq
  <2>. QED  BY <1>1, <1>3, <2>2 DEF Lipai, MoveOneTileToBack
<1>. QED  BY <1>2, <1>3

\* A unit is a natural number.
LEMMA UnitType ==
    ASSUME NEW q \in CalculateScoreRequests, NEW fan \in Nat
    PROVE  UnitDelta(q, fan) \in Nat
BY DEF UnitDelta, CalculateScoreRequests

\* One line of a settlement has its type.
LEMMA LineType ==
    ASSUME NEW q \in CalculateScoreRequests, NEW unit \in Nat, NEW hand \in HandSnapshots
    PROVE  SeatScoreDelta(q, unit, hand) \in Deltas
<1>1. Len(q.hands) \in Nat /\ hand.current_score \in Int /\ hand.seat \in EngineSeats
  BY DEF CalculateScoreRequests, HandSnapshots
<1>2. unit * (Len(q.hands) - 1) \in Int
  BY <1>1
<1>3. Delta(q, unit, hand) \in Int
  <2>. DEFINE most == unit * (Len(q.hands) - 1)
  <2>. HIDE DEF most
  <2>1. most \in Int
    BY <1>2 DEF most
  <2>2. Delta(q, unit, hand) \in {most, unit, -unit, 0}
    BY DEF Delta, most
  <2>. QED  BY <2>1, <2>2
<1>. QED  BY <1>1, <1>3 DEF SeatScoreDelta, Deltas

\* A settlement has its type.
LEMMA SettledType ==
    ASSUME NEW q \in CalculateScoreRequests, NEW fan \in Nat, CanBeJudged(q)
    PROVE  Settled(q, fan) \in Answers
<1>. DEFINE k == FindWinnerHand(q)
            lines == [i \in 1 .. Len(q.hands) |-> SeatScoreDelta(q, UnitDelta(q, fan), q.hands[i])]
<1>1. q.hands \in Seq(HandSnapshots)
  BY DEF CalculateScoreRequests
<1>2. k \in 1 .. Len(q.hands)
  BY FoundHand DEF CanBeJudged
<1>3. q.hands[k] \in HandSnapshots
  BY <1>1, <1>2, ElementOfSeq
<1>4. HandIsReadable(q, q.hands[k])
  BY DEF CanBeJudged
<1>5. q.hands[k].seat \in Seats
  BY <1>3, <1>4 DEF HandIsReadable, HandSnapshots, EngineSeats
<1>6. Lipai(q, q.hands[k]) \in Seq(Tiles)
  BY <1>3, <1>4, LipaiIsReal
<1>7. lines \in Seq(Deltas)
  <2>1. \A i \in 1 .. Len(q.hands) :
           SeatScoreDelta(q, UnitDelta(q, fan), q.hands[i]) \in Deltas
    BY <1>1, UnitType, LineType, ElementOfSeq
  <2>2. Len(q.hands) \in Nat
    BY <1>1
  <2>. QED  BY <2>1, <2>2, IsASeq
<1>. QED
  <2>. HIDE DEF k, lines
  <2>1. Settled(q, fan) =
          [ status |-> "Ok", total_fan |-> fan, score_delta_by_seat |-> lines,
            judged |-> [seat |-> q.hands[k].seat, lipai |-> Lipai(q, q.hands[k])] ]
    BY DEF Settled, k, lines
  <2>. QED  BY <1>5, <1>6, <1>7, <2>1 DEF Answers

-----------------------------------------------------------------------------
(* The invariant: an answer belongs to the request it stands next to.      *)

IInv ==
    /\ request \in CalculateScoreRequests \cup {NoRequest}
    /\ answer # Pending =>
          /\ request \in CalculateScoreRequests
          /\ answer \in CalculateScore(request)

\* No request is NoRequest.
LEMMA RequestIsSome == ASSUME NEW q \in CalculateScoreRequests PROVE q # NoRequest
<1>1. DOMAIN q # DOMAIN NoRequest
  BY DEF CalculateScoreRequests, NoRequest
<1>. QED  BY <1>1

\* The invariant holds in every state the handler can be in.
THEOREM Invariant == Spec => []IInv
<1>1. Init => IInv
  BY DEF Init, IInv
<1>2. IInv /\ [Next]_vars => IInv'
  <2>. SUFFICES ASSUME IInv, [Next]_vars PROVE IInv'
    OBVIOUS
  <2>1. ASSUME NEW q \in Requests, Receive(q) PROVE IInv'
    <3>1. q \in CalculateScoreRequests
      BY RequestsAssumption
    <3>2. answer = Pending
      BY <2>1, RequestIsSome DEF IInv, Receive
    <3>. QED  BY <2>1, <3>1, <3>2 DEF IInv, Receive
  <2>2. CASE Answer
    BY <2>2 DEF IInv, Answer
  <2>3. CASE HandlerReturns
    BY <2>3 DEF IInv, HandlerReturns
  <2>4. CASE UNCHANGED vars
    BY <2>4 DEF IInv, vars
  <2>. QED  BY <2>1, <2>2, <2>3, <2>4 DEF Next
<1>. QED  BY <1>1, <1>2, PTL DEF Spec

\* An answer is open, a refusal, or the settlement of the request.
LEMMA AnswerCases ==
    ASSUME IInv
    PROVE  \/ answer \in {Pending, Refused}
           \/ /\ request \in CalculateScoreRequests
              /\ CanBeJudged(request)
              /\ \E fan \in Nat : answer = Settled(request, fan)
BY FansAssumption DEF IInv, CalculateScore

\* A settled answer is the settlement of the request.
LEMMA OkIsSettled ==
    ASSUME IInv, answer.status = "Ok"
    PROVE  /\ request \in CalculateScoreRequests
           /\ CanBeJudged(request)
           /\ \E fan \in Nat : answer = Settled(request, fan)
BY AnswerCases DEF Pending, Refused

\* The interface is kept to: see TypeOK.
THEOREM TypeCorrect == Spec => []TypeOK
<1>1. IInv => TypeOK
  <2>. SUFFICES ASSUME IInv PROVE answer \in Answers \cup {Pending, Refused}
    BY DEF IInv, TypeOK
  <2>. QED  BY AnswerCases, SettledType
<1>. QED  BY <1>1, Invariant, PTL

-----------------------------------------------------------------------------
(* Points.                                                                 *)

\* For four numbers of a draw, or of any other win, the sum is zero.
LEMMA FourLines ==
    ASSUME NEW q \in CalculateScoreRequests, FourAtTheTable(q), NEW unit \in Nat
    PROVE  /\ \A i \in 1 .. 4 : Delta(q, unit, q.hands[i]) \in Int
           /\ Delta(q, unit, q.hands[1]) + Delta(q, unit, q.hands[2])
                + Delta(q, unit, q.hands[3]) + Delta(q, unit, q.hands[4]) = 0
<1>. DEFINE seat(i) == q.hands[i].seat
            D(i) == Delta(q, unit, q.hands[i])
<1>1. PICK w \in 1 .. 4 : seat(w) = q.winner_seat
  BY DEF FourAtTheTable
<1>2. \A i \in 1 .. 4 : i # w => seat(i) # q.winner_seat
  BY <1>1 DEF FourAtTheTable
<1>3. CASE WinsByDraw(q)
  <2>1. D(w) = unit * 3
    BY <1>1, <1>3 DEF Delta, FourAtTheTable
  <2>2. \A i \in 1 .. 4 : i # w => D(i) = -unit
    BY <1>2, <1>3 DEF Delta
  <2>. HIDE DEF D
  <2>3. /\ \A i \in 1 .. 4 : D(i) \in Int
        /\ D(1) + D(2) + D(3) + D(4) = 0
    <3>1. CASE w = 1  BY <2>1, <2>2, <3>1
    <3>2. CASE w = 2  BY <2>1, <2>2, <3>2
    <3>3. CASE w = 3  BY <2>1, <2>2, <3>3
    <3>4. CASE w = 4  BY <2>1, <2>2, <3>4
    <3>. QED  BY <3>1, <3>2, <3>3, <3>4
  <2>. QED  BY <2>3 DEF D
<1>4. CASE ~WinsByDraw(q)
  <2>1. PICK d \in 1 .. 4 : seat(d) = q.discarder_seat /\ seat(d) # q.winner_seat
    BY <1>4 DEF FourAtTheTable
  <2>2. \A i \in 1 .. 4 : i # d => seat(i) # q.discarder_seat
    BY <2>1 DEF FourAtTheTable
  <2>3. D(w) = unit /\ D(d) = -unit /\ d # w
    BY <1>1, <1>4, <2>1 DEF Delta
  <2>4. \A i \in 1 .. 4 : i # w /\ i # d => D(i) = 0
    BY <1>2, <1>4, <2>2 DEF Delta
  <2>. HIDE DEF D
  <2>5. /\ \A i \in 1 .. 4 : D(i) \in Int
        /\ D(1) + D(2) + D(3) + D(4) = 0
    <3>1. CASE w = 1  BY <2>3, <2>4, <3>1
    <3>2. CASE w = 2  BY <2>3, <2>4, <3>2
    <3>3. CASE w = 3  BY <2>3, <2>4, <3>3
    <3>4. CASE w = 4  BY <2>3, <2>4, <3>4
    <3>. QED  BY <3>1, <3>2, <3>3, <3>4
  <2>. QED  BY <2>5 DEF D
<1>. QED  BY <1>3, <1>4

\* No settlement of a table of four makes or destroys points: see SettlesToZero.
THEOREM ZeroSum == Spec => []SettlesToZero
<1>1. IInv => SettlesToZero
  <2>. SUFFICES ASSUME IInv, answer.status = "Ok", FourAtTheTable(request)
                PROVE  SettlesToZero
    BY DEF SettlesToZero
  <2>1. PICK fan \in Nat : answer = Settled(request, fan)
    BY OkIsSettled
  <2>2. request \in CalculateScoreRequests
    BY OkIsSettled
  <2>. DEFINE unit == UnitDelta(request, fan)
              paid == answer.score_delta_by_seat
              D(i) == Delta(request, unit, request.hands[i])
              own(i) == request.hands[i].current_score
  <2>3. unit \in Nat
    BY <2>2, UnitType
  <2>. HIDE DEF unit
  <2>4. /\ \A i \in 1 .. 4 : D(i) \in Int
        /\ D(1) + D(2) + D(3) + D(4) = 0
    BY <2>2, <2>3, FourLines
  <2>5. \A i \in 1 .. 4 : paid[i].delta = D(i) /\ paid[i].final_total = own(i) + D(i)
    BY <2>1 DEF Settled, SeatScoreDelta, FourAtTheTable, unit
  <2>6. \A i \in 1 .. 4 : own(i) \in Int
    <3>1. request.hands \in Seq(HandSnapshots) /\ Len(request.hands) = 4
      BY <2>2 DEF CalculateScoreRequests, FourAtTheTable
    <3>2. \A i \in 1 .. 4 : request.hands[i] \in HandSnapshots
      BY <3>1, ElementOfSeq
    <3>. QED  BY <3>2 DEF HandSnapshots
  <2>. HIDE DEF D, own, paid
  <2>7. /\ paid[1].delta + paid[2].delta + paid[3].delta + paid[4].delta = 0
        /\ paid[1].final_total + paid[2].final_total + paid[3].final_total + paid[4].final_total
             = own(1) + own(2) + own(3) + own(4)
    BY <2>4, <2>5, <2>6
  <2>. QED  BY <2>7 DEF SettlesToZero, own, paid
<1>. QED  BY <1>1, Invariant, PTL

-----------------------------------------------------------------------------
(* The tiles of the hand.                                                  *)

\* The first place of a tile in a sequence that has it is taken out, and what
\* comes behind it moves up.
LEMMA RemovedTiles ==
    ASSUME NEW S, NEW s \in Seq(S), NEW e, Contains(s, e)
    PROVE  \E k \in 1 .. Len(s) :
              /\ s[k] = e
              /\ Len(RemoveFirst(s, e)) = Len(s) - 1
              /\ \A i \in 1 .. Len(s) - 1 :
                    RemoveFirst(s, e)[i] = IF i < k THEN s[i] ELSE s[i + 1]
<1>. DEFINE I == {i \in 1 .. Len(s) : s[i] = e}
            k == SelectInSeq(s, LAMBDA v : v = e)
<1>1. I # {} /\ I \subseteq Nat
  BY DEF Contains
<1>2. k = Min(I)
  BY <1>1 DEF SelectInSeq
<1>3. k \in 1 .. Len(s) /\ s[k] = e
  BY <1>1, <1>2, LeastElement
<1>4. RemoveFirst(s, e) = SubSeq(s, 1, k - 1) \o SubSeq(s, k + 1, Len(s))
  BY DEF RemoveFirst, RemoveAt, Contains
<1>. HIDE DEF k
<1>. DEFINE front == SubSeq(s, 1, k - 1)
            back == SubSeq(s, k + 1, Len(s))
<1>5. Len(s) \in Nat /\ \A i \in 1 .. Len(s) : s[i] \in S
  BY ElementOfSeq
<1>6. /\ front \in Seq(S) /\ Len(front) = k - 1
      /\ \A i \in 1 .. k - 1 : front[i] = s[i]
  <2>1. /\ 1 \in Int /\ k - 1 \in Int /\ 1 <= k
        /\ \A i \in 1 .. k - 1 : s[i] \in S
    BY <1>3, <1>5
  <2>. QED  BY <1>3, <1>5, <2>1, SubSeqProperties
<1>7. /\ back \in Seq(S) /\ Len(back) = Len(s) - k
      /\ \A i \in 1 .. Len(s) - k : back[i] = s[k + i]
  <2>1. /\ k + 1 \in Int /\ Len(s) \in Int
        /\ \A i \in k + 1 .. Len(s) : s[i] \in S
    BY <1>3, <1>5
  <2>. QED  BY <1>3, <1>5, <2>1, SubSeqProperties
<1>. HIDE DEF front, back
<1>. DEFINE rest == front \o back
<1>8. /\ Len(rest) = Len(front) + Len(back)
      /\ \A i \in 1 .. Len(front) + Len(back) :
            rest[i] = IF i <= Len(front) THEN front[i] ELSE back[i - Len(front)]
  BY <1>6, <1>7, ConcatProperties
<1>0. rest = RemoveFirst(s, e)
  BY <1>4 DEF front, back
<1>. HIDE DEF rest
<1>9. Len(rest) = Len(s) - 1
  BY <1>3, <1>5, <1>6, <1>7, <1>8
<1>10. ASSUME NEW i \in 1 .. Len(s) - 1
       PROVE  rest[i] = IF i < k THEN s[i] ELSE s[i + 1]
  <2>1. rest[i] = IF i <= k - 1 THEN front[i] ELSE back[i - (k - 1)]
    BY <1>3, <1>5, <1>6, <1>7, <1>8
  <2>2. CASE i < k
    <3>1. i <= k - 1 /\ i \in 1 .. k - 1
      BY <1>3, <1>5, <2>2
    <3>. QED  BY <1>6, <2>1, <2>2, <3>1
  <2>3. CASE ~(i < k)
    <3>1. /\ ~(i <= k - 1) /\ i - (k - 1) \in 1 .. Len(s) - k
          /\ k + (i - (k - 1)) = i + 1
      BY <1>3, <1>5, <2>3
    <3>2. back[i - (k - 1)] = s[i + 1]
      BY <1>7, <3>1
    <3>. QED  BY <2>1, <2>3, <3>1, <3>2
  <2>. QED  BY <2>2, <2>3
<1>. QED  BY <1>0, <1>3, <1>9, <1>10

\* Moving a tile to the back changes the places of the tiles, not the tiles.
LEMMA MovedTiles ==
    ASSUME NEW S, NEW s \in Seq(S), NEW e, Contains(s, e)
    PROVE  /\ Len(MoveOneTileToBack(s, e)) = Len(s)
           /\ Last(MoveOneTileToBack(s, e)) = e
           /\ ToBag(MoveOneTileToBack(s, e)) = ToBag(s)
<1>. DEFINE n == Len(s)
            rest == RemoveFirst(s, e)
            t == MoveOneTileToBack(s, e)
<1>1. PICK k \in 1 .. n :
          /\ s[k] = e
          /\ Len(rest) = n - 1
          /\ \A i \in 1 .. n - 1 : rest[i] = IF i < k THEN s[i] ELSE s[i + 1]
  BY RemovedTiles
<1>2. n \in Nat /\ DOMAIN s = 1 .. n /\ rest \in Seq(S) /\ e \in S
  BY RemovedIsSeq, ElementOfSeq DEF Contains
<1>3. t = Append(rest, e)
  BY DEF MoveOneTileToBack
<1>. HIDE DEF n, rest, t
<1>4. /\ t \in Seq(S) /\ Len(t) = n /\ DOMAIN t = 1 .. n /\ t[n] = e
      /\ \A i \in 1 .. n - 1 : t[i] = IF i < k THEN s[i] ELSE s[i + 1]
  BY <1>1, <1>2, <1>3, AppendProperties
\* Where a tile of t was in s, and where a tile of s is in t.
<1>. DEFINE Was(i) == IF i = n THEN k ELSE IF i < k THEN i ELSE i + 1
            Is(i) == IF i = k THEN n ELSE IF i < k THEN i ELSE i - 1
<1>5. \A i \in 1 .. n : Was(i) \in 1 .. n /\ t[i] = s[Was(i)] /\ Is(Was(i)) = i
  BY <1>1, <1>2, <1>4
<1>6. \A i \in 1 .. n : Is(i) \in 1 .. n /\ s[i] = t[Is(i)] /\ Was(Is(i)) = i
  BY <1>1, <1>2, <1>4
<1>. HIDE DEF Was, Is
<1>7. Range(t) = Range(s)
  <2>1. Range(t) = {t[i] : i \in 1 .. n} /\ Range(s) = {s[i] : i \in 1 .. n}
    BY <1>2, <1>4 DEF Range
  <2>2. {t[i] : i \in 1 .. n} = {s[i] : i \in 1 .. n}
    <3>1. ASSUME NEW x \in {t[i] : i \in 1 .. n} PROVE x \in {s[i] : i \in 1 .. n}
      BY <1>5
    <3>2. ASSUME NEW x \in {s[i] : i \in 1 .. n} PROVE x \in {t[i] : i \in 1 .. n}
      BY <1>6
    <3>. QED  BY <3>1, <3>2
  <2>. QED  BY <2>1, <2>2
<1>8. ASSUME NEW x
      PROVE  Cardinality({i \in DOMAIN t : t[i] = x}) = Cardinality({i \in DOMAIN s : s[i] = x})
  <2>. DEFINE A == {i \in 1 .. n : s[i] = x}
              B == {i \in 1 .. n : t[i] = x}
              f == [i \in A |-> Is(i)]
  <2>1. IsFiniteSet(A)
    BY <1>2, FS_Interval, FS_Subset
  <2>2. f \in [A -> B]
    BY <1>6
  <2>3. \A i, j \in A : f[i] = f[j] => i = j
    BY <1>6
  <2>4. \A j \in B : \E i \in A : f[i] = j
    <3>. TAKE j \in B
    <3>1. Was(j) \in A /\ Is(Was(j)) = j
      BY <1>5
    <3>. QED  BY <3>1
  <2>. HIDE DEF A, B, f
  <2>5. f \in Bijection(A, B)
    BY <2>2, <2>3, <2>4 DEF Bijection, Injection, Surjection, IsInjective
  <2>6. ExistsBijection(A, B)
    BY <2>5 DEF ExistsBijection
  <2>7. Cardinality(B) = Cardinality(A)
    BY <2>1, <2>6, FS_Bijection
  <2>. QED  BY <1>2, <1>4, <2>7 DEF A, B
<1>9. ToBag(t) = ToBag(s)
  BY <1>7, <1>8 DEF ToBag
<1>. QED
  BY <1>4, <1>9 DEF Last, n, t

\* The library is asked about the fourteen tiles of the hand: see TilesAreKept.
THEOREM TilesCorrect == Spec => []TilesAreKept
<1>1. IInv => TilesAreKept
  <2>. SUFFICES ASSUME IInv, answer.status = "Ok" PROVE TilesAreKept
    BY DEF TilesAreKept
  <2>. DEFINE hand == request.hands[FindWinnerHand(request)]
              held == hand.concealed_tiles
              lipai == answer.judged.lipai
              complete == 3 * hand.melds + Len(held) = 14
  <2>1. PICK fan \in Nat : answer = Settled(request, fan)
    BY OkIsSettled
  <2>2. request \in CalculateScoreRequests /\ CanBeJudged(request)
    BY OkIsSettled
  <2>3. hand \in HandSnapshots
    <3>1. request.hands \in Seq(HandSnapshots)
      BY <2>2 DEF CalculateScoreRequests
    <3>2. FindWinnerHand(request) \in 1 .. Len(request.hands)
      BY <2>2, FoundHand DEF CanBeJudged
    <3>. QED  BY <3>1, <3>2, ElementOfSeq
  <2>4. HandIsReadable(request, hand)
    BY <2>2 DEF CanBeJudged
  <2>5. lipai = Lipai(request, hand)
    BY <2>1 DEF Settled
  <2>. HIDE DEF hand, lipai
  <2>6. /\ held \in Seq(EngineTiles) /\ Len(held) \in Nat /\ hand.melds \in Nat
        /\ request.winning_tile \in EngineTiles
    BY <2>2, <2>3 DEF HandSnapshots, CalculateScoreRequests
  <2>7. VisibleTileCount(hand) = 3 * hand.melds + Len(held)
    BY DEF VisibleTileCount
  <2>8. CASE VisibleTileCount(hand) = 13
    <3>1. lipai = Append(held, request.winning_tile) /\ ~complete
      BY <2>5, <2>7, <2>8 DEF Lipai
    <3>2. Len(lipai) = Len(held) + 1 /\ lipai[Len(held) + 1] = request.winning_tile
      BY <2>6, <3>1, AppendProperties
    <3>3. Last(lipai) = request.winning_tile
      BY <3>2 DEF Last
    <3>4. 3 * hand.melds + Len(lipai) = 14
      BY <2>6, <2>7, <2>8, <3>2
    <3>. QED  BY <3>1, <3>3, <3>4 DEF TilesAreKept, hand, lipai
  <2>9. CASE VisibleTileCount(hand) # 13
    <3>1. /\ lipai = MoveOneTileToBack(held, request.winning_tile)
          /\ complete /\ Contains(held, request.winning_tile)
      BY <2>4, <2>5, <2>7, <2>9 DEF Lipai, HandIsReadable
    <3>2. /\ Len(lipai) = Len(held) /\ Last(lipai) = request.winning_tile
          /\ ToBag(lipai) = ToBag(held)
      BY <2>6, <3>1, MovedTiles
    <3>. QED  BY <3>1, <3>2 DEF TilesAreKept, hand, lipai
  <2>. QED  BY <2>8, <2>9
<1>. QED  BY <1>1, Invariant, PTL
=============================================================================
