----------------------------- MODULE MCSettlement -----------------------------
EXTENDS Settlement

\* All seats in two orders, a seat that comes twice, a seat without a hand.
MCSeatLists ==
    { <<"East", "South", "West", "North">>, <<"North", "West", "East", "South">>,
      <<"East", "South", "East", "North">>, <<"South", "East", "Unspecified">> }

\* The hands have four melds: the tiles that are left are a pair, or too few or
\* too many, or cannot be read.
MCConcealed ==
    { <<"1m">>, <<"2m">>, <<"1m", "1m">>, <<"1m", "2m">>, <<"2m", "1m">>, <<"2m", "2m">>,
      <<>>, <<"2m", "1m", "1m">>, <<"Unknown">> }

MCHands(seats, flagged, concealed) ==
    [ i \in DOMAIN seats |->
        [ seat |-> seats[i], winner |-> i = flagged, melds |-> 4,
          concealed_tiles |-> concealed, current_score |-> 10 * i - 25 ] ]

MCRequest(context, config, wind, base, type, winner, discarder, tile, hands) ==
    [ has_round_context |-> context, has_rule_config |-> config, prevailing_wind |-> wind,
      base_points |-> base, win_type |-> type, winner_seat |-> winner,
      discarder_seat |-> discarder, winning_tile |-> tile, hands |-> hands ]

\* Every combination for the points and for the hand to judge, and what is
\* missing in a request that has everything else.
MCRequests ==
    { MCRequest(TRUE, TRUE, "East", base, type, winner, discarder, "1m",
                MCHands(seats, flagged, concealed)) :
        base \in {0, 2}, type \in WinTypes,
        winner \in {"East", "North", "Unspecified"}, discarder \in EngineSeats,
        seats \in MCSeatLists, flagged \in {0, 1, 3}, concealed \in MCConcealed }
    \cup
    { MCRequest(context, config, wind, 1, "Discard", "East", "South", tile,
                MCHands(<<"East", "South", "West", "North">>, 0, <<"1m">>)) :
        context \in BOOLEAN, config \in BOOLEAN,
        wind \in {"West", "Unspecified"}, tile \in {"1m", "Unspecified", "Unknown"} }
=============================================================================
