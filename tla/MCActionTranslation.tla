------------------------ MODULE MCActionTranslation ------------------------
EXTENDS ActionTranslation

\* Nothing, a tile, and tiles of which the second one is in no enum.
FewConsumed == {<<>>, <<"W1">>, <<"W1", "NotInEnum">>}
=============================================================================
