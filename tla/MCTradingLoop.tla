------------------------------ MODULE MCTradingLoop ------------------------------
(***************************************************************************)
(* TradingLoop for TLC with the program's own spread (2) and collar (100), *)
(* and a feed whose best prices jump far enough for new quotes to meet old *)
(* ones.  A lot of 90 and a maximum position of 250, which --lot-size and  *)
(* --max-pos set, make the position check and not the collar the first     *)
(* limit an inventory of two lots meets.                                   *)
(***************************************************************************)
EXTENDS TradingLoop
=============================================================================
