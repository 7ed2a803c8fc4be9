-------------------------- MODULE ActionTranslation --------------------------
(***************************************************************************)
(* How a room task makes a PlayerActionRequest a ValidateActionRequest of  *)
(* the rule engine, and the engine's verdict a reject code: the            *)
(* part of handle_player_action in src/room.rs after the connection was    *)
(* found to have a seat, build_validate_action_request and its helpers.    *)
(*                                                                         *)
(* A field of a client message is an integer on the wire.  It is modelled  *)
(* by the name of the value in the client's enum, or NotInEnum.  The maps  *)
(* to the engine's enums go by name too, and both sides declare the same   *)
(* names for seats, tiles, claim kinds and win types.                      *)
(*                                                                         *)
(* The request is translated three times, into the candidate action, the   *)
(* recent action and the claim window, each with its own reading of the    *)
(* fields: the properties say that the three tell one story.               *)
(***************************************************************************)
EXTENDS RuleEngine, Sequences

CONSTANTS
    Consumed,   \* bound: sequences of wire tiles sent as consume_tiles
    SourceSeqs, \* bound: event numbers that clients name
    MaxSeq      \* bound: event numbers from MaxSeq on are not told apart

ASSUME MaxSeqAssumption == MaxSeq \in Nat \ {0}
ASSUME SourceSeqsAssumption == SourceSeqs \subseteq Nat
ASSUME SeatsAssumption == Seats \cap {"Unspecified", "NotInEnum"} = {}
ASSUME TilesAssumption == Tiles \cap {"Unspecified", "Unknown", "NotInEnum"} = {}

OnTheWire(enum) == enum \cup {"NotInEnum"}
WireTiles == OnTheWire(EngineTiles)
WireSeats == OnTheWire(EngineSeats)

ASSUME ConsumedAssumption == Consumed \subseteq Seq(WireTiles)

\* PlayerActionRequest.action
Discards == [kind : {"Discard"}, tile : WireTiles]
Claims ==
    [ kind : {"Claim"}, claim_kind : OnTheWire(ClaimKinds), tile : WireTiles,
      consume : Consumed, seat : WireSeats, seq : SourceSeqs ]
Wins ==
    [ kind : {"DeclareWin"}, win_type : OnTheWire(WinTypes), tile : WireTiles,
      seat : WireSeats, seq : SourceSeqs ]
Passes == [kind : {"Pass"}, seq : SourceSeqs]
Kongs == [kind : {"SupplementalKong"}, tile : WireTiles]

Translated == Discards \cup Claims \cup Wins \cup Passes \cup Kongs

\* AutoPlayToggle is handled by the room alone; an absent action is refused.
Local == [kind : {"AutoPlayToggle", "None"}]

\* addressed: match and round are the active ones.  windowed: action_window_id
\* is not 0.
PlayerActionRequests ==
    [ actor : Seats, addressed : BOOLEAN, windowed : BOOLEAN,
      action : Translated \cup Local ]

VARIABLES
    room_id,        \* "" is a room id like any other
    next_event_seq,
    request,        \* the request that a handler works on, or NoRequest
    forwarded,      \* what the rule engine has been asked, or NotAsked
    reply           \* what the handler has sent to the client, or None

vars == <<room_id, next_event_seq, request, forwarded, reply>>

NotAsked == [candidate |-> "none"]
NoRequest == [action |-> [kind |-> "none"]]

current_event_seq == IF next_event_seq = 0 THEN 0 ELSE next_event_seq - 1

\* allocate_event_seq; no translation compares event numbers.
Counted(n) == IF n > MaxSeq THEN MaxSeq ELSE n
Allocate == next_event_seq' = Counted(next_event_seq + 1)

-----------------------------------------------------------------------------
(* Reading the fields: "Ok" or the reject code, and the first one counts.  *)

first ?? second == IF first # "Ok" THEN first ELSE second

SeatError(seat) == IF seat = "NotInEnum" THEN "InvalidRequest" ELSE "Ok"
TileError(tile) == IF tile = "NotInEnum" THEN "InvalidTile" ELSE "Ok"
ClaimKindError(kind) == IF kind = "NotInEnum" THEN "InvalidRequest" ELSE "Ok"
WinTypeError(type) == IF type = "NotInEnum" THEN "InvalidRequest" ELSE "Ok"

\* Mutant of ConsumeError: only the first of the consumed tiles is read.
ConsumeErrorFirst(tiles) == IF tiles = <<>> THEN "Ok" ELSE TileError(tiles[1])

ConsumeError(tiles) ==
    IF \E i \in DOMAIN tiles : tiles[i] = "NotInEnum" THEN "InvalidTile" ELSE "Ok"

\* Mutant of CandidateError: the source seat of a claim is passed on unread.
CandidateErrorNoSeat(action) ==
    CASE action.kind \in {"Discard", "SupplementalKong"} -> TileError(action.tile)
      [] action.kind = "Claim" ->
           ClaimKindError(action.claim_kind) ?? TileError(action.tile)
             ?? ConsumeError(action.consume)
      [] action.kind = "DeclareWin" ->
           WinTypeError(action.win_type) ?? TileError(action.tile)
             ?? SeatError(action.seat)
      [] action.kind = "Pass" -> "Ok"

\* build_candidate_action
CandidateError(action) ==
    CASE action.kind \in {"Discard", "SupplementalKong"} -> TileError(action.tile)
      [] action.kind = "Claim" ->
           ClaimKindError(action.claim_kind) ?? TileError(action.tile)
             ?? ConsumeError(action.consume) ?? SeatError(action.seat)
      [] action.kind = "DeclareWin" ->
           WinTypeError(action.win_type) ?? TileError(action.tile)
             ?? SeatError(action.seat)
      [] action.kind = "Pass" -> "Ok"

\* build_recent_action_context
RecentActionError(action) ==
    CASE action.kind \in {"Discard", "SupplementalKong"} -> TileError(action.tile)
      [] action.kind = "Claim" ->
           SeatError(action.seat) ?? TileError(action.tile)
             ?? ClaimKindError(action.claim_kind)
      [] action.kind = "DeclareWin" ->
           SeatError(action.seat) ?? TileError(action.tile)
             ?? WinTypeError(action.win_type)
      [] action.kind = "Pass" -> "Ok"

\* build_claim_window_context
ClaimWindowError(action) ==
    CASE action.kind \in {"Claim", "DeclareWin"} ->
           SeatError(action.seat) ?? TileError(action.tile)
      [] action.kind = "SupplementalKong" -> TileError(action.tile)
      [] action.kind \in {"Discard", "Pass"} -> "Ok"

TranslationError(action, windowed) ==
    CandidateError(action) ?? RecentActionError(action)
      ?? (IF windowed THEN ClaimWindowError(action) ELSE "Ok")

-----------------------------------------------------------------------------
(* The three parts of the request, from an action that can be read.        *)

CandidateAction(action, actor, seq) ==
    IF action.kind = "SupplementalKong"
    THEN [ kind |-> "Kong", kong_kind |-> "SupplementalKong", tile |-> action.tile,
           consume |-> <<>>, seat |-> actor, seq |-> seq ]
    ELSE action

\* Mutant of ClaimTrigger: winning claims are all taken for claims of a discard.
ClaimTriggerDiscard(kind) == "Discard"

\* derive_claim_trigger_action, derive_win_trigger_action
ClaimTrigger(kind) == IF kind = "RobKongWin" THEN "SupplementalKong" ELSE "Discard"

\* Mutant of WinTrigger: a win after a kong is taken for one that robs it.
WinTriggerOfKong(type) ==
    CASE type = "SelfDraw" -> "Draw"
      [] type = "Discard" -> "Discard"
      [] type \in {"RobKong", "KongDraw"} -> "SupplementalKong"
      [] OTHER -> "Unspecified"

WinTrigger(type) ==
    CASE type \in {"SelfDraw", "KongDraw"} -> "Draw"
      [] type = "Discard" -> "Discard"
      [] type = "RobKong" -> "SupplementalKong"
      [] OTHER -> "Unspecified"

Context(seq, seat, trigger, tile) ==
    [seq |-> seq, seat |-> seat, trigger |-> trigger, tile |-> tile]

RecentAction(action, actor, seq) ==
    LET RecentContext(context, replacement_draw, rob_kong_candidate) ==
            [ source |-> context, replacement_draw |-> replacement_draw,
              rob_kong_candidate |-> rob_kong_candidate ]
    IN CASE action.kind = "Discard" ->
              RecentContext(Context(seq, actor, "Draw", action.tile), FALSE, FALSE)
         [] action.kind = "Claim" ->
              RecentContext(
                  Context(action.seq, action.seat, ClaimTrigger(action.claim_kind), action.tile),
                  FALSE, action.claim_kind = "RobKongWin")
         [] action.kind = "DeclareWin" ->
              RecentContext(
                  Context(action.seq, action.seat, WinTrigger(action.win_type), action.tile),
                  action.win_type = "KongDraw", action.win_type = "RobKong")
         [] action.kind = "Pass" ->
              RecentContext(
                  Context(action.seq, "Unspecified", "Unspecified", "Unspecified"), FALSE, FALSE)
         [] action.kind = "SupplementalKong" ->
              RecentContext(
                  Context(seq, actor, "SupplementalKong", action.tile), FALSE, TRUE)

\* The window id and the one eligible seat, the actor's, are left out.
ClaimWindow(action, actor, seq) ==
    CASE action.kind = "Claim" ->
           Context(action.seq, action.seat, ClaimTrigger(action.claim_kind), action.tile)
      [] action.kind = "DeclareWin" ->
           Context(action.seq, action.seat, WinTrigger(action.win_type), action.tile)
      [] action.kind = "Pass" ->
           Context(action.seq, "Unspecified", "Unspecified", "Unspecified")
      [] action.kind = "Discard" -> Context(seq, actor, "Draw", "Unspecified")
      [] action.kind = "SupplementalKong" ->
           Context(seq, actor, "SupplementalKong", action.tile)

\* build_validate_action_request, from an action that can be read.  No player
\* has melds or tiles: the hands are not dealt yet.
ValidateActionRequest(action, actor, windowed, seq) ==
    [ room_id |-> room_id, server_event_seq |-> seq, actor |-> actor,
      candidate |-> CandidateAction(action, actor, seq),
      recent |-> RecentAction(action, actor, seq),
      window |-> IF windowed THEN {ClaimWindow(action, actor, seq)} ELSE {},
      melds |-> 0, concealed |-> 0, drawn_tile |-> "Unspecified" ]

\* map_validation_reject_code
RejectCode(code) ==
    CASE code \in {"TileNotOwned", "TileNotAvailable"} -> "InvalidTile"
      [] code = "InvalidContext" -> "InvalidRequest"
      [] code = "ActionWindowMismatch" -> "ActionWindowClosed"
      [] code = "InternalError" -> "InternalError"
      [] OTHER -> "RuleValidationFailed"

\* The answer to a verdict of the rule engine.
Verdict(outcome) ==
    IF outcome.legal THEN "ActionNotAvailable" ELSE RejectCode(outcome.reject_code)

-----------------------------------------------------------------------------

Init ==
    /\ room_id \in {"", "room-1"}
    /\ next_event_seq = 1
    /\ request = NoRequest
    /\ forwarded = NotAsked
    /\ reply = "None"

\* run_room_task takes the next command when a handler has returned.
Idle == request = NoRequest
Asked == forwarded # NotAsked

Answer(code) ==
    /\ reply' = code
    /\ Allocate
    /\ forwarded' = NotAsked
    /\ UNCHANGED room_id

Refuse(r) ==
    /\ request' = r
    /\ \/ /\ ~r.addressed \/ r.action.kind = "None"
          /\ Answer("InvalidRequest")
       \/ /\ r.addressed
          /\ r.action \in Translated
          /\ TranslationError(r.action, r.windowed) # "Ok"
          /\ Answer(TranslationError(r.action, r.windowed))

\* The broadcast of handle_auto_play_toggle.
AutoPlayToggle(r) ==
    /\ r.addressed
    /\ r.action.kind = "AutoPlayToggle"
    /\ request' = r
    /\ Answer("SyncState")

Forward(r) ==
    /\ r.addressed
    /\ r.action \in Translated
    /\ TranslationError(r.action, r.windowed) = "Ok"
    /\ request' = r
    /\ forwarded' =
          ValidateActionRequest(r.action, r.actor, r.windowed, current_event_seq)
    /\ reply' = "None"
    /\ UNCHANGED <<room_id, next_event_seq>>

HandlePlayerAction ==
    /\ Idle
    /\ \E r \in PlayerActionRequests : Refuse(r) \/ AutoPlayToggle(r) \/ Forward(r)

EngineAnswers ==
    /\ Asked
    /\ UNCHANGED request
    /\ \/ \E outcome \in ValidateAction(forwarded) : Answer(Verdict(outcome))
       \/ Answer("InternalError")  \* the call failed

\* Mutant of OtherCommand: commands are handled while the engine is asked.
OtherCommandAnyTime ==
    /\ Allocate
    /\ UNCHANGED <<room_id, request, forwarded, reply>>

\* The other handlers send frames.
OtherCommand ==
    /\ Idle
    /\ Allocate
    /\ UNCHANGED <<room_id, request, forwarded, reply>>

HandlerReturns ==
    /\ reply # "None"
    /\ request' = NoRequest
    /\ reply' = "None"
    /\ UNCHANGED <<room_id, next_event_seq, forwarded>>

Next == HandlePlayerAction \/ EngineAnswers \/ HandlerReturns \/ OtherCommand

Spec == Init /\ [][Next]_vars
-----------------------------------------------------------------------------
(* Properties                                                              *)

Sources ==
    [ seq : Nat, seat : EngineSeats, tile : EngineTiles,
      trigger : {"Unspecified", "Draw", "Discard", "SupplementalKong"} ]

EngineTurns == [kind : {"Discard"}, tile : EngineTiles]
EngineClaims ==
    [ kind : {"Claim"}, claim_kind : ClaimKinds, tile : EngineTiles,
      consume : Seq(EngineTiles), seat : EngineSeats, seq : Nat ]
EngineWins ==
    [ kind : {"DeclareWin"}, win_type : WinTypes, tile : EngineTiles,
      seat : EngineSeats, seq : Nat ]
EnginePasses == [kind : {"Pass"}, seq : Nat]
EngineKongs ==
    [ kind : {"Kong"}, kong_kind : {"SupplementalKong"}, tile : EngineTiles,
      consume : {<<>>}, seat : Seats, seq : Nat ]

ValidateActionRequests ==
    [ room_id : {"", "room-1"}, server_event_seq : Nat, actor : Seats,
      candidate : EngineTurns \cup EngineClaims \cup EngineWins \cup EnginePasses
                    \cup EngineKongs,
      recent : [ source : Sources, replacement_draw : BOOLEAN,
                 rob_kong_candidate : BOOLEAN ],
      window : SUBSET Sources,
      melds : {0}, concealed : {0}, drawn_tile : {"Unspecified"} ]

RejectCodes ==
    {"InvalidRequest", "InvalidTile", "ActionNotAvailable", "ActionWindowClosed",
     "RuleValidationFailed", "InternalError"}

\* Requests, what the engine is asked and the answers have their types; in
\* particular no value outside of the enums is ever passed on to the engine.
TypeOK ==
    /\ room_id \in {"", "room-1"}
    /\ next_event_seq \in 0..MaxSeq
    /\ request \in PlayerActionRequests \cup {NoRequest}
    /\ forwarded \in ValidateActionRequests \cup {NotAsked}
    /\ reply \in RejectCodes \cup {"None", "SyncState"}

\* A request that can be read as a candidate action can be read as a recent
\* action and as a claim window: an action is refused for its own fields, with
\* the code of the first bad one, and never because it came with an action
\* window id.
CandidateDecides ==
    request.action \in Translated =>
        \A windowed \in BOOLEAN :
            TranslationError(request.action, windowed) = CandidateError(request.action)

\* The candidate action, the recent action and the claim window of a request
\* name the same event, seat and tile wherever they name one, and the flags of
\* the recent action follow from its trigger.
ContextsAgree ==
    Asked =>
        LET source == forwarded.recent.source
        IN  /\ \A window \in forwarded.window :
                  /\ window.seq = source.seq
                  /\ window.seat = source.seat
                  /\ window.trigger = source.trigger
                  /\ window.tile \in {source.tile, "Unspecified"}
            /\ forwarded.recent.rob_kong_candidate <=> source.trigger = "SupplementalKong"
            /\ forwarded.recent.replacement_draw => source.trigger = "Draw"
            /\ forwarded.candidate.kind \in {"Claim", "DeclareWin", "Kong"} =>
                  /\ forwarded.candidate.seq = source.seq
                  /\ forwarded.candidate.seat = source.seat
                  /\ forwarded.candidate.tile = source.tile

\* While the rule engine judges a request, the event number it was told is the
\* room's, and what a player does in his own turn is told under that number: no
\* other command comes between question and answer.  Whether the player had seen
\* so far is not said: the room never compares the number that he expects.
JudgedAsOfNow ==
    Asked =>
        /\ forwarded.server_event_seq = current_event_seq
        /\ request.action.kind \in {"Discard", "SupplementalKong"} =>
              /\ forwarded.recent.source.seq = current_event_seq
              /\ forwarded.recent.source.seat = request.actor

\* The win that says the same as a winning claim.
AsWin(claim) ==
    [ kind |-> "DeclareWin", tile |-> claim.tile, seat |-> claim.seat, seq |-> claim.seq,
      win_type |-> IF claim.claim_kind = "RobKongWin" THEN "RobKong" ELSE "Discard" ]

\* A player can take a discarded or robbed tile to win in two ways, as a claim
\* or as a declared win.  Both reach the rule engine with the same contexts, so
\* that it answers them alike.
TwoWaysToWinAgree ==
    Asked /\ forwarded.candidate.kind = "Claim" /\ IsWinningAction(forwarded.candidate) =>
        LET declared ==
              ValidateActionRequest(
                  AsWin(request.action), request.actor, forwarded.window # {},
                  forwarded.server_event_seq)
        IN  /\ forwarded.recent = declared.recent
            /\ forwarded.window = declared.window
            /\ ValidateAction(forwarded) = ValidateAction(declared)

\* No player is told that a win was validated: the room sends no hand, and the
\* engine wants fourteen tiles whatever the client claims to win with.
NoWinWithoutHand ==
    request.action.kind \in {"Claim", "DeclareWin"} /\ IsWinningAction(request.action) =>
        reply # "ActionNotAvailable"
=============================================================================
