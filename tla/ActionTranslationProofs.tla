----------------------- MODULE ActionTranslationProofs -----------------------
(***************************************************************************)
(* What a room task asks the rule engine, and what it answers the client:  *)
(* proofs about ActionTranslation, for all seats, tiles and messages.      *)
(***************************************************************************)
EXTENDS ActionTranslation, TLAPS

Kinds == {"Discard", "Claim", "DeclareWin", "Pass", "SupplementalKong"}

\* What the rule engine is asked is the translation of the request at hand.
AskedAsTranslated ==
    Asked =>
        /\ request.action \in Translated
        /\ request.actor \in Seats
        /\ request.windowed \in BOOLEAN
        /\ TranslationError(request.action, request.windowed) = "Ok"
        /\ forwarded =
             ValidateActionRequest(
                 request.action, request.actor, request.windowed, current_event_seq)

\* A handler that has answered the client no longer awaits the engine.
AnsweredOnce == reply # "None" => ~Asked

IInv ==
    /\ TypeOK
    /\ AskedAsTranslated
    /\ AnsweredOnce
    /\ NoWinWithoutHand

-----------------------------------------------------------------------------

\* An action has one of the five kinds that the translation tells apart.
LEMMA KindOfTranslated ==
  ASSUME NEW action \in Translated
  PROVE  /\ action.kind \in Kinds
         /\ action.kind = "Claim" => action \in Claims
         /\ action.kind = "DeclareWin" => action \in Wins
         /\ action.kind = "Discard" => action \in Discards
         /\ action.kind = "Pass" => action \in Passes
         /\ action.kind = "SupplementalKong" => action \in Kongs
BY DEF Translated, Discards, Claims, Wins, Passes, Kongs, Kinds

\* Every field of a recent action or of a claim window is one of the candidate
\* action, so that no error is found there first.
LEMMA NoNewErrors ==
  ASSUME NEW action \in Translated
  PROVE  /\ CandidateError(action) = "Ok" => RecentActionError(action) = "Ok"
         /\ CandidateError(action) = "Ok" => ClaimWindowError(action) = "Ok"
<1>1. action.kind \in Kinds
  BY KindOfTranslated
<1>2. CASE action.kind = "Claim"
  BY <1>2 DEF CandidateError, RecentActionError, ClaimWindowError, ??,
       SeatError, TileError, ClaimKindError, ConsumeError
<1>3. CASE action.kind = "DeclareWin"
  BY <1>3 DEF CandidateError, RecentActionError, ClaimWindowError, ??,
       SeatError, TileError, WinTypeError
<1>4. CASE action.kind \in {"Discard", "Pass", "SupplementalKong"}
  BY <1>4 DEF CandidateError, RecentActionError, ClaimWindowError, TileError
<1> QED  BY <1>1, <1>2, <1>3, <1>4 DEF Kinds

\* The error of a request is the error of its candidate action.
LEMMA CandidateErrorDecides ==
  ASSUME NEW action \in Translated, NEW windowed \in BOOLEAN
  PROVE  TranslationError(action, windowed) = CandidateError(action)
BY NoNewErrors DEF TranslationError, ??

\* A request that cannot be read is refused with one of two codes.
LEMMA ErrorCodes ==
  ASSUME NEW action \in Translated, NEW windowed \in BOOLEAN
  PROVE  TranslationError(action, windowed) \in {"Ok", "InvalidRequest", "InvalidTile"}
<1>1. action.kind \in Kinds
  BY KindOfTranslated
<1>2. CandidateError(action) \in {"Ok", "InvalidRequest", "InvalidTile"}
  BY <1>1 DEF Kinds, CandidateError, ??, SeatError, TileError, ClaimKindError,
       WinTypeError, ConsumeError
<1> QED  BY <1>2, CandidateErrorDecides

\* The engine never finds a winning action of the room legal.
LEMMA WinsAreIncomplete ==
  ASSUME NEW action, NEW actor, NEW windowed, NEW seq,
         action.kind \in {"Claim", "DeclareWin"}, IsWinningAction(action)
  PROVE  ValidateAction(ValidateActionRequest(action, actor, windowed, seq))
           = {Illegal("InvalidContext")}
<1> DEFINE asked == ValidateActionRequest(action, actor, windowed, seq)
<1>1. /\ asked.candidate = action
      /\ asked.melds = 0
      /\ asked.concealed = 0
  BY DEF ValidateActionRequest, CandidateAction
<1>2. ~HandIsComplete(asked)
  BY <1>1 DEF HandIsComplete
<1> QED  BY <1>1, <1>2 DEF ValidateAction

\* The claim window of an action names the event, the seat, the trigger and the
\* tile, if any, of its recent action, whose flags follow from the trigger.
LEMMA OneStory ==
  ASSUME NEW action \in Translated, NEW actor, NEW seq
  PROVE  LET recent == RecentAction(action, actor, seq)
             window == ClaimWindow(action, actor, seq)
             candidate == CandidateAction(action, actor, seq)
         IN  /\ window.seq = recent.source.seq
             /\ window.seat = recent.source.seat
             /\ window.trigger = recent.source.trigger
             /\ window.tile \in {recent.source.tile, "Unspecified"}
             /\ recent.rob_kong_candidate <=> recent.source.trigger = "SupplementalKong"
             /\ recent.replacement_draw => recent.source.trigger = "Draw"
             /\ candidate.kind \in {"Claim", "DeclareWin", "Kong"} =>
                   /\ candidate.seq = recent.source.seq
                   /\ candidate.seat = recent.source.seat
                   /\ candidate.tile = recent.source.tile
<1> DEFINE recent == RecentAction(action, actor, seq)
           window == ClaimWindow(action, actor, seq)
           candidate == CandidateAction(action, actor, seq)
<1>1. action.kind \in Kinds
  BY KindOfTranslated
<1>2. CASE action.kind = "Discard"
  <2>1. recent = [ source |-> Context(seq, actor, "Draw", action.tile),
                   replacement_draw |-> FALSE, rob_kong_candidate |-> FALSE ]
    BY <1>2 DEF RecentAction
  <2>2. window = Context(seq, actor, "Draw", "Unspecified")
    BY <1>2 DEF ClaimWindow
  <2>3. candidate.kind = "Discard"
    BY <1>2 DEF CandidateAction
  <2> HIDE DEF recent, window, candidate
  <2> QED  BY <2>1, <2>2, <2>3 DEF Context, recent, window, candidate
<1>3. CASE action.kind = "Claim"
  <2> DEFINE context ==
               Context(action.seq, action.seat, ClaimTrigger(action.claim_kind), action.tile)
  <2>1. recent = [ source |-> context, replacement_draw |-> FALSE,
                   rob_kong_candidate |-> action.claim_kind = "RobKongWin" ]
    BY <1>3 DEF RecentAction
  <2>2. window = context /\ candidate = action
    BY <1>3 DEF ClaimWindow, CandidateAction
  <2>3. action.claim_kind = "RobKongWin"
          <=> ClaimTrigger(action.claim_kind) = "SupplementalKong"
    BY DEF ClaimTrigger
  <2>4. /\ context.seq = action.seq
        /\ context.seat = action.seat
        /\ context.trigger = ClaimTrigger(action.claim_kind)
        /\ context.tile = action.tile
    BY DEF Context
  <2> HIDE DEF recent, window, candidate, context
  <2>5. /\ recent.source = context
        /\ recent.rob_kong_candidate = (action.claim_kind = "RobKongWin")
        /\ recent.replacement_draw = (FALSE)
    BY <2>1
  <2> QED  BY <2>2, <2>3, <2>4, <2>5, Zenon DEF recent, window, candidate
<1>4. CASE action.kind = "DeclareWin"
  <2> DEFINE context ==
               Context(action.seq, action.seat, WinTrigger(action.win_type), action.tile)
  <2>1. recent = [ source |-> context, replacement_draw |-> action.win_type = "KongDraw",
                   rob_kong_candidate |-> action.win_type = "RobKong" ]
    BY <1>4 DEF RecentAction
  <2>2. window = context /\ candidate = action
    BY <1>4 DEF ClaimWindow, CandidateAction
  <2>3. /\ action.win_type = "RobKong"
             <=> WinTrigger(action.win_type) = "SupplementalKong"
        /\ action.win_type = "KongDraw" => WinTrigger(action.win_type) = "Draw"
    BY Zenon DEF WinTrigger
  <2>4. /\ context.seq = action.seq
        /\ context.seat = action.seat
        /\ context.trigger = WinTrigger(action.win_type)
        /\ context.tile = action.tile
    BY DEF Context
  <2> HIDE DEF recent, window, candidate, context
  <2>5. /\ recent.source = context
        /\ recent.rob_kong_candidate = (action.win_type = "RobKong")
        /\ recent.replacement_draw = (action.win_type = "KongDraw")
    BY <2>1
  <2> QED  BY <2>2, <2>3, <2>4, <2>5, Zenon DEF recent, window, candidate
<1>5. CASE action.kind = "Pass"
  <2> DEFINE context == Context(action.seq, "Unspecified", "Unspecified", "Unspecified")
  <2>1. recent = [ source |-> context, replacement_draw |-> FALSE,
                   rob_kong_candidate |-> FALSE ]
    BY <1>5 DEF RecentAction
  <2>2. window = context
    BY <1>5 DEF ClaimWindow
  <2>3. candidate.kind = "Pass"
    BY <1>5 DEF CandidateAction
  <2> HIDE DEF recent, window, candidate
  <2> QED  BY <2>1, <2>2, <2>3 DEF Context, recent, window, candidate
<1>6. CASE action.kind = "SupplementalKong"
  <2> DEFINE context == Context(seq, actor, "SupplementalKong", action.tile)
  <2>1. recent = [ source |-> context, replacement_draw |-> FALSE,
                   rob_kong_candidate |-> TRUE ]
    BY <1>6 DEF RecentAction
  <2>2. window = context
    BY <1>6 DEF ClaimWindow
  <2>3. candidate = [ kind |-> "Kong", kong_kind |-> "SupplementalKong",
                      tile |-> action.tile, consume |-> <<>>, seat |-> actor, seq |-> seq ]
    BY <1>6 DEF CandidateAction
  <2> HIDE DEF recent, window, candidate
  <2> QED  BY <2>1, <2>2, <2>3 DEF Context, recent, window, candidate
<1> QED  BY <1>1, <1>2, <1>3, <1>4, <1>5, <1>6 DEF Kinds

\* A winning claim and the win that says the same have the same contexts.
LEMMA SameContexts ==
  ASSUME NEW claim, claim.kind = "Claim", IsWinningClaimKind(claim.claim_kind),
         NEW actor, NEW seq
  PROVE  /\ RecentAction(claim, actor, seq) = RecentAction(AsWin(claim), actor, seq)
         /\ ClaimWindow(claim, actor, seq) = ClaimWindow(AsWin(claim), actor, seq)
<1> DEFINE win == AsWin(claim)
           rob == claim.claim_kind = "RobKongWin"
           trigger == ClaimTrigger(claim.claim_kind)
           context == Context(claim.seq, claim.seat, trigger, claim.tile)
<1>1. /\ win.kind = "DeclareWin"
      /\ win.tile = claim.tile
      /\ win.seat = claim.seat
      /\ win.seq = claim.seq
      /\ win.win_type = IF rob THEN "RobKong" ELSE "Discard"
  BY DEF AsWin
<1>2. /\ WinTrigger(win.win_type) = trigger
      /\ (win.win_type = "KongDraw") = FALSE
      /\ (win.win_type = "RobKong") = rob
  <2>1. CASE claim.claim_kind = "RobKongWin"
    <3> HIDE DEF win
    <3> QED  BY <1>1, <2>1, Zenon DEF WinTrigger, ClaimTrigger
  <2>2. CASE claim.claim_kind = "DiscardWin"
    <3> HIDE DEF win
    <3> QED  BY <1>1, <2>2, Zenon DEF WinTrigger, ClaimTrigger
  <2> QED  BY <2>1, <2>2 DEF IsWinningClaimKind
<1> HIDE DEF win, rob, trigger
<1>3. /\ ClaimWindow(claim, actor, seq) = context
      /\ ClaimWindow(win, actor, seq) = context
  BY <1>1, <1>2, Zenon DEF ClaimWindow, trigger
<1>4. RecentAction(claim, actor, seq) =
        [ source |-> context, replacement_draw |-> FALSE, rob_kong_candidate |-> rob ]
  BY Zenon DEF RecentAction, trigger, rob
<1>5. RecentAction(win, actor, seq) =
        [ source |-> context, replacement_draw |-> FALSE, rob_kong_candidate |-> rob ]
  BY <1>1, <1>2, Zenon DEF RecentAction
<1> QED  BY <1>3, <1>4, <1>5 DEF win

\* No field is read as a value outside of its enum.
LEMMA FieldsRead ==
  /\ \A seat \in WireSeats : SeatError(seat) = "Ok" => seat \in EngineSeats
  /\ \A tile \in WireTiles : TileError(tile) = "Ok" => tile \in EngineTiles
  /\ \A kind \in OnTheWire(ClaimKinds) : ClaimKindError(kind) = "Ok" => kind \in ClaimKinds
  /\ \A type \in OnTheWire(WinTypes) : WinTypeError(type) = "Ok" => type \in WinTypes
  /\ \A tiles \in Consumed : ConsumeError(tiles) = "Ok" => tiles \in Seq(EngineTiles)
<1>1. ASSUME NEW tiles \in Consumed, ConsumeError(tiles) = "Ok"
      PROVE  tiles \in Seq(EngineTiles)
  <2>1. tiles \in Seq(WireTiles)
    BY ConsumedAssumption
  <2>2. \A i \in DOMAIN tiles : tiles[i] # "NotInEnum"
    BY <1>1 DEF ConsumeError
  <2>3. \A i \in 1..Len(tiles) : tiles[i] \in EngineTiles
    BY <2>1, <2>2 DEF WireTiles, OnTheWire
  <2> QED  BY <2>1, <2>3
<1> QED
  BY <1>1 DEF WireSeats, WireTiles, OnTheWire, SeatError, TileError, ClaimKindError,
       WinTypeError

\* A request that can be read is translated into values of the engine's types.
LEMMA TranslationType ==
  ASSUME NEW action \in Translated, NEW actor \in Seats, NEW windowed \in BOOLEAN,
         NEW seq \in Nat, CandidateError(action) = "Ok", room_id \in {"", "room-1"}
  PROVE  ValidateActionRequest(action, actor, windowed, seq) \in ValidateActionRequests
<1> DEFINE recent == RecentAction(action, actor, seq)
           window == ClaimWindow(action, actor, seq)
           candidate == CandidateAction(action, actor, seq)
           Recents == [ source : Sources, replacement_draw : BOOLEAN,
                        rob_kong_candidate : BOOLEAN ]
           Candidates == EngineTurns \cup EngineClaims \cup EngineWins
                           \cup EnginePasses \cup EngineKongs
<1>1. action.kind \in Kinds
  BY KindOfTranslated
<1>2. actor \in EngineSeats /\ "Unspecified" \in EngineSeats /\ "Unspecified" \in EngineTiles
  BY DEF EngineSeats, EngineTiles
<1>3. CASE action.kind = "Claim"
  <2>1. /\ ClaimKindError(action.claim_kind) = "Ok"
        /\ TileError(action.tile) = "Ok"
        /\ ConsumeError(action.consume) = "Ok"
        /\ SeatError(action.seat) = "Ok"
    BY <1>3, Zenon DEF CandidateError, ??
  <2>2. action \in Claims
    BY <1>3, KindOfTranslated
  <2>3. /\ action.claim_kind \in ClaimKinds
        /\ action.tile \in EngineTiles
        /\ action.consume \in Seq(EngineTiles)
        /\ action.seat \in EngineSeats
        /\ action.seq \in Nat
    BY <2>1, <2>2, FieldsRead, SourceSeqsAssumption DEF Claims
  <2>4. action \in EngineClaims
    BY <2>2, <2>3 DEF Claims, EngineClaims
  <2> DEFINE context ==
               Context(action.seq, action.seat, ClaimTrigger(action.claim_kind), action.tile)
  <2>5. context \in Sources
    BY <2>3 DEF Context, Sources, ClaimTrigger
  <2>6. recent = [ source |-> context, replacement_draw |-> FALSE,
                   rob_kong_candidate |-> action.claim_kind = "RobKongWin" ]
    BY <1>3, Zenon DEF RecentAction
  <2>7. window = context /\ candidate = action
    BY <1>3, Zenon DEF ClaimWindow, CandidateAction
  <2> HIDE DEF context, recent, window, candidate
  <2>8. window \in Sources /\ candidate \in Candidates
    BY <2>4, <2>5, <2>7
  <2>9. recent \in Recents
    BY <2>5, <2>6
  <2> QED  BY <2>8, <2>9
             DEF ValidateActionRequest, ValidateActionRequests, recent, window, candidate
<1>4. CASE action.kind = "DeclareWin"
  <2>1. /\ WinTypeError(action.win_type) = "Ok"
        /\ TileError(action.tile) = "Ok"
        /\ SeatError(action.seat) = "Ok"
    BY <1>4, Zenon DEF CandidateError, ??
  <2>2. action \in Wins
    BY <1>4, KindOfTranslated
  <2>3. /\ action.win_type \in WinTypes
        /\ action.tile \in EngineTiles
        /\ action.seat \in EngineSeats
        /\ action.seq \in Nat
    BY <2>1, <2>2, FieldsRead, SourceSeqsAssumption DEF Wins
  <2>4. action \in EngineWins
    BY <2>2, <2>3 DEF Wins, EngineWins
  <2> DEFINE context ==
               Context(action.seq, action.seat, WinTrigger(action.win_type), action.tile)
  <2>5. WinTrigger(action.win_type) \in {"Unspecified", "Draw", "Discard", "SupplementalKong"}
    BY Zenon DEF WinTrigger
  <2>6. context \in Sources
    BY <2>3, <2>5 DEF Context, Sources
  <2>7. recent = [ source |-> context, replacement_draw |-> action.win_type = "KongDraw",
                   rob_kong_candidate |-> action.win_type = "RobKong" ]
    BY <1>4, Zenon DEF RecentAction
  <2>8. window = context /\ candidate = action
    BY <1>4, Zenon DEF ClaimWindow, CandidateAction
  <2> HIDE DEF context, recent, window, candidate
  <2>9. window \in Sources /\ candidate \in Candidates
    BY <2>4, <2>6, <2>8
  <2>10. recent \in Recents
    BY <2>6, <2>7
  <2> QED  BY <2>9, <2>10
             DEF ValidateActionRequest, ValidateActionRequests, recent, window, candidate
<1>5. CASE action.kind = "Pass"
  <2>1. action \in Passes
    BY <1>5, KindOfTranslated
  <2>2. action.seq \in Nat /\ action \in EnginePasses
    BY <2>1, SourceSeqsAssumption DEF Passes, EnginePasses
  <2> DEFINE context == Context(action.seq, "Unspecified", "Unspecified", "Unspecified")
  <2>3. context \in Sources
    BY <1>2, <2>2 DEF Context, Sources
  <2>4. recent = [ source |-> context, replacement_draw |-> FALSE,
                   rob_kong_candidate |-> FALSE ]
    BY <1>5, Zenon DEF RecentAction
  <2>5. window = context /\ candidate = action
    BY <1>5, Zenon DEF ClaimWindow, CandidateAction
  <2> HIDE DEF context, recent, window, candidate
  <2>6. window \in Sources /\ candidate \in Candidates /\ recent \in Recents
    BY <2>2, <2>3, <2>4, <2>5
  <2> QED  BY <2>6
             DEF ValidateActionRequest, ValidateActionRequests, recent, window, candidate
<1>6. CASE action.kind \in {"Discard", "SupplementalKong"}
  <2>1. action \in Discards \cup Kongs /\ TileError(action.tile) = "Ok"
    BY <1>6, KindOfTranslated, Zenon DEF CandidateError
  <2>2. action.tile \in EngineTiles
    BY <2>1, FieldsRead DEF Discards, Kongs
  <2>3. \A trigger \in {"Draw", "SupplementalKong"}, tile \in {action.tile, "Unspecified"} :
          Context(seq, actor, trigger, tile) \in Sources
    BY <1>2, <2>2 DEF Context, Sources
  <2>4. CASE action.kind = "Discard"
    <3>1. recent = [ source |-> Context(seq, actor, "Draw", action.tile),
                     replacement_draw |-> FALSE, rob_kong_candidate |-> FALSE ]
      BY <2>4, Zenon DEF RecentAction
    <3>2. window = Context(seq, actor, "Draw", "Unspecified") /\ candidate = action
      BY <2>4, Zenon DEF ClaimWindow, CandidateAction
    <3>3. action \in EngineTurns
      BY <2>1, <2>2, <2>4 DEF Discards, Kongs, EngineTurns
    <3> HIDE DEF recent, window, candidate
    <3>4. window \in Sources /\ candidate \in Candidates /\ recent \in Recents
      BY <2>3, <3>1, <3>2, <3>3
    <3> QED  BY <3>4
               DEF ValidateActionRequest, ValidateActionRequests, recent, window, candidate
  <2>5. CASE action.kind = "SupplementalKong"
    <3> DEFINE context == Context(seq, actor, "SupplementalKong", action.tile)
    <3>1. recent = [ source |-> context,
                     replacement_draw |-> FALSE, rob_kong_candidate |-> TRUE ]
      BY <2>5, Zenon DEF RecentAction
    <3>2. window = context
      BY <2>5, Zenon DEF ClaimWindow
    <3>3. candidate = [ kind |-> "Kong", kong_kind |-> "SupplementalKong",
                        tile |-> action.tile, consume |-> <<>>, seat |-> actor, seq |-> seq ]
      BY <2>5, Zenon DEF CandidateAction
    <3>4. candidate \in EngineKongs
      <4> DEFINE none == <<>>
      <4>1. none \in {<<>>} /\ seq \in Nat
        OBVIOUS
      <4>2. candidate =
              [ kind |-> "Kong", kong_kind |-> "SupplementalKong",
                tile |-> action.tile, consume |-> none, seat |-> actor, seq |-> seq ]
        BY <3>3
      <4> HIDE DEF none, candidate
      <4> QED  BY <2>2, <4>1, <4>2 DEF EngineKongs
    <3>5. context \in Sources
      BY <2>3
    <3> HIDE DEF context, recent, window, candidate
    <3>6. window \in Sources /\ candidate \in Candidates /\ recent \in Recents
      BY <3>1, <3>2, <3>4, <3>5
    <3> QED  BY <3>6
               DEF ValidateActionRequest, ValidateActionRequests, recent, window, candidate
  <2> QED  BY <1>6, <2>4, <2>5
<1> QED  BY <1>1, <1>3, <1>4, <1>5, <1>6 DEF Kinds

-----------------------------------------------------------------------------

\* The invariant holds before the first command.
LEMMA InitIInv == Init => IInv
<1> SUFFICES ASSUME Init PROVE IInv
  OBVIOUS
<1>1. 1 \in 0..MaxSeq
  BY MaxSeqAssumption
<1>2. NoWinWithoutHand
  BY DEF Init, NoWinWithoutHand
<1>3. AskedAsTranslated /\ AnsweredOnce
  BY DEF Init, AskedAsTranslated, AnsweredOnce, Asked
<1>4. TypeOK
  BY <1>1 DEF Init, TypeOK
<1> QED  BY <1>2, <1>3, <1>4 DEF IInv

\* Every step of the room task preserves the invariant.
LEMMA NextIInv == IInv /\ [Next]_vars => IInv'
<1> SUFFICES ASSUME IInv, [Next]_vars PROVE IInv'
  OBVIOUS
<1>types. /\ room_id \in {"", "room-1"}
          /\ next_event_seq \in 0..MaxSeq
          /\ request \in PlayerActionRequests \cup {NoRequest}
          /\ forwarded \in ValidateActionRequests \cup {NotAsked}
          /\ reply \in RejectCodes \cup {"None", "SyncState"}
  BY DEF IInv, TypeOK
<1>inv. AskedAsTranslated /\ AnsweredOnce /\ NoWinWithoutHand
  BY DEF IInv
<1>0. Allocate => next_event_seq' \in 0..MaxSeq
  <2>1. next_event_seq \in 0..MaxSeq
    BY <1>types
  <2> QED  BY <2>1, MaxSeqAssumption DEF Allocate, Counted
<1>1. ASSUME NEW r \in PlayerActionRequests, Refuse(r)
      PROVE  IInv'
  <2>1. reply' \in {"InvalidRequest", "InvalidTile"}
    <3>1. r.windowed \in BOOLEAN
      BY DEF PlayerActionRequests
    <3> QED  BY <1>1, <3>1, ErrorCodes DEF Refuse, Answer
  <2>2. NoWinWithoutHand'
    BY <2>1 DEF NoWinWithoutHand
  <2>3. AskedAsTranslated'
    BY <1>1 DEF Refuse, Answer, AskedAsTranslated, Asked
  <2> QED
    BY <1>types, <1>0, <1>1, <2>1, <2>2, <2>3
    DEF IInv, TypeOK, Refuse, Answer, AnsweredOnce, Asked, RejectCodes
<1>2. ASSUME NEW r \in PlayerActionRequests, AutoPlayToggle(r)
      PROVE  IInv'
  BY <1>types, <1>0, <1>2 DEF IInv, TypeOK, AutoPlayToggle, Answer, AskedAsTranslated, AnsweredOnce,
       Asked, NoWinWithoutHand
<1>3. ASSUME NEW r \in PlayerActionRequests, Forward(r)
      PROVE  IInv'
  <2>1. AskedAsTranslated'
    BY <1>3 DEF Forward, AskedAsTranslated, PlayerActionRequests,
         ValidateActionRequest, current_event_seq
  <2>2. forwarded' \in ValidateActionRequests
    <3>1. /\ r.action \in Translated
          /\ r.actor \in Seats
          /\ r.windowed \in BOOLEAN
          /\ current_event_seq \in Nat
      <4>1. next_event_seq \in Nat
        <5>1. next_event_seq \in 0..MaxSeq
          BY <1>types
        <5> QED  BY <5>1, MaxSeqAssumption
      <4>2. current_event_seq \in Nat
        BY <4>1 DEF current_event_seq
      <4> QED  BY <1>3, <4>2 DEF Forward, PlayerActionRequests
    <3>2. CandidateError(r.action) = "Ok"
      BY <1>3, <3>1, CandidateErrorDecides DEF Forward
    <3> QED  BY <1>types, <1>3, <3>1, <3>2, TranslationType DEF Forward
  <2> QED
    BY <1>types, <1>3, <2>1, <2>2 DEF IInv, TypeOK, Forward, AnsweredOnce, NoWinWithoutHand
<1>4. CASE EngineAnswers
  <2>1. forwarded =
          ValidateActionRequest(
              request.action, request.actor, request.windowed, current_event_seq)
    BY <1>inv, <1>4 DEF EngineAnswers, AskedAsTranslated
  <2>2. NoWinWithoutHand'
    <3> SUFFICES ASSUME request.action.kind \in {"Claim", "DeclareWin"},
                        IsWinningAction(request.action),
                        reply' = "ActionNotAvailable"
                 PROVE  FALSE
      BY <1>4 DEF EngineAnswers, NoWinWithoutHand
    <3>1. ValidateAction(forwarded) = {Illegal("InvalidContext")}
      BY <2>1, WinsAreIncomplete
    <3>2. Verdict(Illegal("InvalidContext")) = "InvalidRequest"
      BY DEF Verdict, Illegal, RejectCode
    <3> QED  BY <1>4, <3>1, <3>2 DEF EngineAnswers, Answer
  <2>3. reply' \in RejectCodes
    <3>1. \A outcome : Verdict(outcome) \in RejectCodes
      <4>1. \A code : RejectCode(code) \in RejectCodes
        BY Zenon DEF RejectCode, RejectCodes
      <4> QED  BY <4>1 DEF Verdict, RejectCodes
    <3> QED  BY <1>4, <3>1 DEF EngineAnswers, Answer, RejectCodes
  <2> QED
    BY <1>types, <1>0, <1>4, <2>2, <2>3
    DEF IInv, TypeOK, EngineAnswers, Answer, AskedAsTranslated, AnsweredOnce, Asked
<1>5. CASE HandlerReturns
  <2>1. NoWinWithoutHand'
    BY <1>5 DEF HandlerReturns, NoWinWithoutHand
  <2>2. ~Asked'
    BY <1>inv, <1>5 DEF HandlerReturns, AnsweredOnce, Asked
  <2> QED
    BY <1>types, <1>5, <2>1, <2>2
    DEF IInv, TypeOK, HandlerReturns, AskedAsTranslated, AnsweredOnce
<1>6. CASE OtherCommand
  <2>1. request.action \notin Translated
    BY <1>6, KindOfTranslated DEF OtherCommand, Idle, NoRequest, Kinds
  <2>2. ~Asked'
    BY <1>inv, <1>6, <2>1 DEF OtherCommand, AskedAsTranslated, Asked
  <2> QED
    BY <1>types, <1>inv, <1>0, <1>6, <2>2
    DEF IInv, TypeOK, OtherCommand, AskedAsTranslated, AnsweredOnce,
       NoWinWithoutHand
<1>7. CASE UNCHANGED vars
  BY <1>types, <1>inv, <1>7 DEF IInv, TypeOK, vars, AskedAsTranslated, AnsweredOnce, Asked, NoWinWithoutHand, ValidateActionRequest,
       current_event_seq
<1> QED
  BY <1>1, <1>2, <1>3, <1>4, <1>5, <1>6, <1>7 DEF Next, HandlePlayerAction

\* Invariant: the conjunction is an invariant of the room task.
THEOREM Invariant == Spec => []IInv
BY InitIInv, NextIInv, PTL DEF Spec

\* Types: in particular, nothing is passed to the engine that is in no enum.
THEOREM TypeCorrect == Spec => []TypeOK
BY Invariant, PTL DEF IInv

\* A request is refused for the fields of its action alone, in their order.
THEOREM CandidateDecidesCorrect == Spec => []CandidateDecides
<1>1. CandidateDecides
  BY CandidateErrorDecides DEF CandidateDecides
<1> QED  BY <1>1, PTL

\* The engine judges a request against the event number that the room is at.
THEOREM JudgedAsOfNowCorrect == Spec => []JudgedAsOfNow
<1>1. IInv => JudgedAsOfNow
  <2> SUFFICES ASSUME IInv, Asked PROVE JudgedAsOfNow
    BY DEF JudgedAsOfNow
  <2> DEFINE seq == current_event_seq
  <2>1. /\ request.action \in Translated
        /\ forwarded.server_event_seq = seq
        /\ forwarded.recent = RecentAction(request.action, request.actor, seq)
    BY DEF IInv, AskedAsTranslated, ValidateActionRequest
  <2>2. CASE request.action.kind = "Discard"
    BY <2>1, <2>2 DEF JudgedAsOfNow, RecentAction, Context
  <2>3. CASE request.action.kind = "SupplementalKong"
    BY <2>1, <2>3 DEF JudgedAsOfNow, RecentAction, Context
  <2> QED  BY <2>1, <2>2, <2>3 DEF JudgedAsOfNow
<1> QED  BY <1>1, Invariant, PTL

\* No client is ever told that a win was validated.
THEOREM NoWinWithoutHandCorrect == Spec => []NoWinWithoutHand
BY Invariant, PTL DEF IInv

\* The three readings of a request tell the engine one story.
THEOREM ContextsAgreeCorrect == Spec => []ContextsAgree
<1>1. IInv => ContextsAgree
  <2> SUFFICES ASSUME IInv, Asked PROVE ContextsAgree
    BY DEF ContextsAgree
  <2> DEFINE action == request.action
             actor == request.actor
             seq == current_event_seq
  <2>1. /\ action \in Translated
        /\ forwarded.recent = RecentAction(action, actor, seq)
        /\ forwarded.candidate = CandidateAction(action, actor, seq)
        /\ \A window \in forwarded.window : window = ClaimWindow(action, actor, seq)
    BY DEF IInv, AskedAsTranslated, ValidateActionRequest
  <2> HIDE DEF action, actor, seq
  <2> QED  BY <2>1, OneStory DEF ContextsAgree
<1> QED  BY <1>1, Invariant, PTL

\* It makes no difference in which of two ways a player takes a tile to win.
THEOREM TwoWaysToWinAgreeCorrect == Spec => []TwoWaysToWinAgree
<1>1. IInv => TwoWaysToWinAgree
  <2> SUFFICES ASSUME IInv, Asked, forwarded.candidate.kind = "Claim",
                      IsWinningAction(forwarded.candidate)
               PROVE  TwoWaysToWinAgree
    BY DEF TwoWaysToWinAgree
  <2> DEFINE action == request.action
             actor == request.actor
             seq == current_event_seq
             declared ==
               ValidateActionRequest(AsWin(action), actor, forwarded.window # {},
                   forwarded.server_event_seq)
  <2>1. /\ action \in Translated
        /\ request.windowed \in BOOLEAN
        /\ forwarded = ValidateActionRequest(action, actor, request.windowed, seq)
    BY DEF IInv, AskedAsTranslated
  <2>2. /\ forwarded.candidate = CandidateAction(action, actor, seq)
        /\ forwarded.recent = RecentAction(action, actor, seq)
        /\ forwarded.server_event_seq = seq
        /\ forwarded.window =
              IF request.windowed THEN {ClaimWindow(action, actor, seq)} ELSE {}
    BY <2>1 DEF ValidateActionRequest
  <2>3. action.kind = "Claim" /\ IsWinningClaimKind(action.claim_kind)
    BY <2>2 DEF CandidateAction, IsWinningAction
  <2>4. (forwarded.window # {}) = request.windowed
    BY <2>1, <2>2
  <2>5. declared = ValidateActionRequest(AsWin(action), actor, request.windowed, seq)
    BY <2>2, <2>4
  <2>6. /\ declared.recent = RecentAction(AsWin(action), actor, seq)
        /\ declared.window =
              IF request.windowed THEN {ClaimWindow(AsWin(action), actor, seq)} ELSE {}
    BY <2>5 DEF ValidateActionRequest
  <2>7. ValidateAction(forwarded) = ValidateAction(declared)
    <3>1. AsWin(action).kind = "DeclareWin" /\ IsWinningAction(AsWin(action))
      BY DEF AsWin, IsWinningAction
    <3>2. IsWinningAction(action)
      BY <2>3 DEF IsWinningAction
    <3> QED  BY <2>1, <2>3, <2>5, <3>1, <3>2, WinsAreIncomplete
  <2> HIDE DEF action, actor, seq, declared
  <2>8. /\ forwarded.recent = declared.recent
        /\ forwarded.window = declared.window
    BY <2>2, <2>3, <2>6, SameContexts
  <2> QED  BY <2>7, <2>8 DEF TwoWaysToWinAgree, declared, action, actor
<1> QED  BY <1>1, Invariant, PTL
=============================================================================
