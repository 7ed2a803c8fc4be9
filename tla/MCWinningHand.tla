---------------------------- MODULE MCWinningHand ----------------------------
(* A small instance of WinningHand for TLC.                                *)
EXTENDS WinningHand

\* Two suits of four tiles and an honour.  Three of a kind three times in a row,
\* four of a kind, seven different pairs and runs on both sides of the border of
\* the suits are among the hands.
LeftOver == <<3, 3, 4, 2, 2, 2, 2, 0, 2>>
=============================================================================
