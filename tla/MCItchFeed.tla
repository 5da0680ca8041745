------------------------------ MODULE MCItchFeed ------------------------------
(***************************************************************************)
(* ItchFeed for TLC: raw prices below one tick, in the middle of a tick,   *)
(* and two in one tick; the stock asked for and another.                   *)
(***************************************************************************)
EXTENDS ItchFeed

MCRawPrices == {50, 150, 200}
AllKinds == {"E", "C", "X", "D", "U", "P"}
=============================================================================
