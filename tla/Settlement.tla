------------------------------ MODULE Settlement ------------------------------
(***************************************************************************)
(* CalculateScore of the C++ rule engine: the settlement of a hand, in     *)
(* cpp_engine/src/gb_mahjong_adapter.cc, and its handler in                *)
(* cpp_engine/src/rule_engine_service.cc, which keeps nothing from one     *)
(* request to the next.  The room does not call it yet: the requests are   *)
(* those of the service's interface.                                       *)
(*                                                                         *)
(* Whether the hand wins (Fan::JudgeHu) and what it is worth               *)
(* (Fan::CountFan) is left open.  So is whether melds and flowers can be   *)
(* read: a request is refused for them with the same status.  The flags    *)
(* that go from the request to the library (last tile, kong, winds), fan   *)
(* details and settlement flags are left out.                              *)
(***************************************************************************)
EXTENDS RuleEngine, Integers, Sequences, SequencesExt

CONSTANTS
    Requests,  \* bound: the requests that are sent
    Fans       \* bound: what a winning hand may be worth

HandSnapshots ==
    [ seat : EngineSeats, winner : BOOLEAN, melds : Nat,
      concealed_tiles : Seq(EngineTiles), current_score : Int ]

CalculateScoreRequests ==
    [ has_round_context : BOOLEAN, has_rule_config : BOOLEAN,
      prevailing_wind : EngineSeats, base_points : Nat, win_type : WinTypes,
      winner_seat : EngineSeats, discarder_seat : EngineSeats,
      winning_tile : EngineTiles, hands : Seq(HandSnapshots) ]

ASSUME RequestsAssumption == Requests \subseteq CalculateScoreRequests
ASSUME FansAssumption == Fans \subseteq Nat
ASSUME SeatsAssumption == "Unspecified" \notin Seats
ASSUME TilesAssumption == Tiles \cap {"Unspecified", "Unknown"} = {}

VARIABLES
    request,  \* the request that the handler works on, or NoRequest
    answer    \* what it has answered, or Pending

vars == <<request, answer>>

NoRequest == [hands |-> <<>>]
Pending == [status |-> "Pending"]
Refused == [status |-> "InvalidArgument"]

-----------------------------------------------------------------------------
(* The hand that the library is asked about.                               *)

\* The place of the first hand that is flagged or sits at the winner's seat.  A flag
\* on another hand has that hand judged, while the seat is paid: what a caller means
\* by the two is not said anywhere.
FindWinnerHand(q) ==
    SelectInSeq(q.hands, LAMBDA hand : hand.winner \/ hand.seat = q.winner_seat)

\* Mutant of MoveOneTileToBack: the tile is not erased where it was.
CopyOneTileToBack(tiles, tile) == Append(SubSeq(tiles, 2, Len(tiles)), tile)

MoveOneTileToBack(tiles, tile) == Append(RemoveFirst(tiles, tile), tile)

\* Whether a hand came with thirteen tiles, a meld counting for three, or with
\* the winning tile among fourteen.
VisibleTileCount(hand) == 3 * hand.melds + Len(hand.concealed_tiles)

\* Mutant of HandIsReadable: the concealed tiles are passed on unread.
HandHasTiles(q, hand) ==
    /\ hand.seat # "Unspecified"
    /\ q.winning_tile \in Tiles
    /\ VisibleTileCount(hand) \in {13, 14}

HandIsReadable(q, hand) ==
    /\ hand.seat # "Unspecified"
    /\ \A i \in DOMAIN hand.concealed_tiles : hand.concealed_tiles[i] \in Tiles
    /\ q.winning_tile \in Tiles
    /\ \/ VisibleTileCount(hand) = 13
       \/ VisibleTileCount(hand) = 14 /\ Contains(hand.concealed_tiles, q.winning_tile)

\* The concealed tiles in the order of the library: it sorts all but the last,
\* which it takes for the tile that wins.
Lipai(q, hand) ==
    IF VisibleTileCount(hand) = 13
    THEN Append(hand.concealed_tiles, q.winning_tile)
    ELSE MoveOneTileToBack(hand.concealed_tiles, q.winning_tile)

CanBeJudged(q) ==
    /\ q.has_round_context /\ q.has_rule_config
    /\ q.winner_seat # "Unspecified"
    /\ FindWinnerHand(q) # 0
    /\ q.prevailing_wind # "Unspecified"
    /\ HandIsReadable(q, q.hands[FindWinnerHand(q)])

-----------------------------------------------------------------------------
(* The points.                                                             *)

WinsByDraw(q) == q.win_type \in {"SelfDraw", "KongDraw"}

UnitDelta(q, fan) == (IF q.base_points < 1 THEN 1 ELSE q.base_points) * fan

\* Mutant of Delta: the winner is paid by every hand, the own one included.
DeltaOfAllHands(q, unit, hand) ==
    IF hand.seat = q.winner_seat
    THEN IF WinsByDraw(q) THEN unit * Len(q.hands) ELSE unit
    ELSE IF WinsByDraw(q) \/ hand.seat = q.discarder_seat THEN -unit ELSE 0

Delta(q, unit, hand) ==
    IF hand.seat = q.winner_seat
    THEN IF WinsByDraw(q) THEN unit * (Len(q.hands) - 1) ELSE unit
    ELSE IF WinsByDraw(q) \/ hand.seat = q.discarder_seat THEN -unit ELSE 0

SeatScoreDelta(q, unit, hand) ==
    [ seat |-> hand.seat, delta |-> Delta(q, unit, hand),
      final_total |-> hand.current_score + Delta(q, unit, hand) ]

\* judged: what the library has looked at, for the properties only.
Settled(q, fan) ==
    [ status |-> "Ok", total_fan |-> fan,
      score_delta_by_seat |->
          [i \in 1 .. Len(q.hands) |-> SeatScoreDelta(q, UnitDelta(q, fan), q.hands[i])],
      judged |-> [ seat |-> q.hands[FindWinnerHand(q)].seat,
                   lipai |-> Lipai(q, q.hands[FindWinnerHand(q)]) ] ]

\* Every exception of the adapter reaches the caller as an invalid argument.
CalculateScore(q) ==
    {Refused} \cup (IF CanBeJudged(q) THEN {Settled(q, fan) : fan \in Fans} ELSE {})

-----------------------------------------------------------------------------
Init == request = NoRequest /\ answer = Pending

Receive(q) ==
    /\ request = NoRequest
    /\ request' = q
    /\ UNCHANGED answer

Answer ==
    /\ request # NoRequest
    /\ answer = Pending
    /\ answer' \in CalculateScore(request)
    /\ UNCHANGED request

HandlerReturns ==
    /\ answer # Pending
    /\ request' = NoRequest
    /\ answer' = Pending

Next == (\E q \in Requests : Receive(q)) \/ Answer \/ HandlerReturns

Spec == Init /\ [][Next]_vars

-----------------------------------------------------------------------------
(* Properties.                                                             *)

Deltas == [seat : EngineSeats, delta : Int, final_total : Int]

Answers ==
    [ status : {"Ok"}, total_fan : Nat, score_delta_by_seat : Seq(Deltas),
      judged : [seat : Seats, lipai : Seq(Tiles)] ]

\* Requests and answers have the types of the interface, and what the library
\* is asked about has real tiles only and a seat that has a wind.
TypeOK ==
    /\ request \in CalculateScoreRequests \cup {NoRequest}
    /\ answer \in Answers \cup {Pending, Refused}

\* A request about a table of four: a hand for every seat, the winner's among
\* them, and a discarder other than the winner where the win was not a draw.
FourAtTheTable(q) ==
    /\ Len(q.hands) = 4
    /\ \A i, j \in 1 .. 4 : i # j => q.hands[i].seat # q.hands[j].seat
    /\ \E i \in 1 .. 4 : q.hands[i].seat = q.winner_seat
    /\ ~WinsByDraw(q) =>
          \E i \in 1 .. 4 : q.hands[i].seat = q.discarder_seat /\ q.hands[i].seat # q.winner_seat

\* What the winner gets is what the others pay: no settlement of a table of four
\* makes or destroys points, whoever wins however, in whatever order the hands
\* come and whoever is named as the discarder of a drawn tile.
SettlesToZero ==
    answer.status = "Ok" /\ FourAtTheTable(request) =>
        LET paid == answer.score_delta_by_seat
            owned == request.hands
        IN  /\ paid[1].delta + paid[2].delta + paid[3].delta + paid[4].delta = 0
            /\ paid[1].final_total + paid[2].final_total + paid[3].final_total + paid[4].final_total
                 = owned[1].current_score + owned[2].current_score
                   + owned[3].current_score + owned[4].current_score

\* The library sees the tiles of the hand, no more and no fewer, with the
\* winning tile at the end, whichever of the two kinds of snapshot was sent and
\* wherever the winning tile was in it.
TilesAreKept ==
    answer.status = "Ok" =>
        LET hand == request.hands[FindWinnerHand(request)]
            lipai == answer.judged.lipai
            complete == 3 * hand.melds + Len(hand.concealed_tiles) = 14
        IN  /\ Last(lipai) = request.winning_tile
            /\ 3 * hand.melds + Len(lipai) = 14
            /\ ToBag(lipai) = ToBag(IF complete THEN hand.concealed_tiles
                                    ELSE Append(hand.concealed_tiles, request.winning_tile))
=============================================================================
