----------------------------- MODULE RuleEngine -----------------------------
(***************************************************************************)
(* ValidateAction of the C++ rule engine, GbMahjongAdapter in              *)
(* cpp_engine/src/gb_mahjong_adapter.cc: what it may answer to a request.  *)
(* Whether a complete hand wins is decided by the vendored library         *)
(* (Fan::JudgeHu) and left open.  The derived action kind, meld results,   *)
(* fan details and explanations are left out: the room does not look at    *)
(* them, or only puts them into a message.                                 *)
(***************************************************************************)
EXTENDS Naturals

CONSTANTS
    Seats,   \* SEAT_EAST, SEAT_SOUTH, ...
    Tiles    \* the tiles of the game

\* Values of the engine's enums, by name.
EngineSeats == Seats \cup {"Unspecified"}
EngineTiles == Tiles \cup {"Unspecified", "Unknown"}
ClaimKinds == {"Unspecified", "Chi", "Peng", "ExposedKong", "DiscardWin", "RobKongWin"}
WinTypes == {"Unspecified", "SelfDraw", "Discard", "RobKong", "KongDraw"}

IsWinningClaimKind(kind) == kind \in {"DiscardWin", "RobKongWin"}

IsWinningAction(action) ==
    \/ action.kind = "DeclareWin"
    \/ action.kind = "Claim" /\ IsWinningClaimKind(action.claim_kind)

\* For winning actions only.
ExtractWinType(action) ==
    IF action.kind = "DeclareWin" THEN action.win_type
    ELSE IF action.claim_kind = "RobKongWin" THEN "RobKong" ELSE "Discard"

WinsOnDraw(action) == ExtractWinType(action) \in {"SelfDraw", "KongDraw"}

LastTile(request) ==
    IF WinsOnDraw(request.candidate) THEN request.drawn_tile ELSE request.candidate.tile

\* A tile that ProtoTileToMahjongTile accepts.
LastTileIsReal(request) == LastTile(request) \in Tiles

\* Mutant of HandIsComplete: the number of tiles is not looked at.
LastTileIsEnough(request) == LastTileIsReal(request)

\* The melds count three tiles each, the winning tile comes last.
HandIsComplete(request) ==
    /\ LastTileIsReal(request)
    /\ 3 * request.melds + request.concealed + 1 = 14

Legal == [legal |-> TRUE, reject_code |-> "Unspecified"]
Illegal(code) == [legal |-> FALSE, reject_code |-> code]

\* The exceptions of the adapter become InvalidContext.  Rule configuration,
\* round context, candidate and private hand are always in a request of the
\* room, the acting seat is always that of one of its players.
ValidateAction(request) ==
    IF request.room_id = "" \/ request.actor = "Unspecified"
    THEN {Illegal("InvalidContext")}
    ELSE IF ~IsWinningAction(request.candidate) THEN {Legal}
    ELSE IF ~HandIsComplete(request) THEN {Illegal("InvalidContext")}
    ELSE {Legal, Illegal("HandNotComplete")}
=============================================================================
